SPECIFICATION Spec
SYMMETRY TaskSymmetry
CONSTANTS
  t1 = t1
  t2 = t2
  Tasks = {t1, t2}
  NoTask = NoTask
  NoPrefix = NoPrefix
  Prefixes = {"+CMD:", "+URC:"}
  UrcPrefixes = {"+URC:"}
  Commands <- EarlyCommands
  MaxCalls = 2
  MaxRx = 1
  MaxLines = 2
  MaxUrcs = 1
  EarlyTimeout = TRUE
  ShortSend = FALSE
  BreakOff = TRUE
  Noise = TRUE
  UndefinedHandled = {TRUE, FALSE}
INVARIANTS
  TypeOK NoLeftovers CommandTypeMeansWaiting
PROPERTIES
  ImplementsExchange

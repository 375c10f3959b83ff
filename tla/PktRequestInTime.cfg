SPECIFICATION Spec
SYMMETRY TaskSymmetry
CONSTANTS
  t1 = t1
  t2 = t2
  Tasks = {t1, t2}
  NoTask = NoTask
  NoPrefix = NoPrefix
  Prefixes = {"+CMD:", "+URC:"}
  UrcPrefixes = {"+URC:"}
  Commands <- AllCommands
  MaxCalls = 2
  MaxRx = 2
  MaxLines = 2
  MaxUrcs = 2
  EarlyTimeout = FALSE
  ShortSend = FALSE
  BreakOff = FALSE
  Noise = FALSE
  UndefinedHandled = {FALSE}
INVARIANTS
  OwnAnswer CallbackHasItsCaller ResponseIsPure

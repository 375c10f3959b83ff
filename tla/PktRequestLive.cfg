SPECIFICATION FairSpec
CONSTANTS
  t1 = t1
  t2 = t2
  Tasks = {t1, t2}
  NoTask = NoTask
  NoPrefix = NoPrefix
  Prefixes = {"+CMD:", "+URC:"}
  UrcPrefixes = {"+URC:"}
  Commands <- LiveCommands
  MaxCalls = 2
  MaxRx = 1
  MaxLines = 1
  MaxUrcs = 0
  EarlyTimeout = TRUE
  ShortSend = TRUE
  BreakOff = TRUE
  Noise = TRUE
  UndefinedHandled = {FALSE}
PROPERTY RequestReturns

SPECIFICATION PartSpec
CONSTANTS
  MaxString = 256
  SocketTasks = {t1, t2}
  NoOwner = NULL
  NumSockets = 2
  NumBlocks = 2
  PdnIds = {0, 1}
  ValidPdns = {1}
  Ports = {0, 1}
  Options = {"pdn", "send"}
  MaxSockets = 3
  Registrars = {t1, t2}
  NoRegistrar = NULL
  Letters <- SomeLetters
  Tables <- AllTables
  Lines <- UrcLines
  MaxUrcLines = 2
  MaxRegistrations = 2
  CsqValues <- CsqIndices
  BerValues <- BerIndices
  PowerValues <- Powers
SYMMETRY TaskSymmetry
INVARIANTS
  SocketTypeOK SlotKnowsItself HandlesApart KeepsItsSettings NoBlockLost RefusedWhenFull
  SocketCallbackContext DispatchTypeOK RightHandler OwnContext SignalTypeOK
PROPERTY BarsFollowSignal

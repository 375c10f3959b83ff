SPECIFICATION QuerySpec
CONSTANTS
  MaxString = 256
  Sizes <- QuerySizes
  Tasks = {"asks"}
  Modems <- QueryModems
  Requests <- PsmRequests
  MaxRequests = 1
  Faults = {}
  PdnMin = 1
  PdnMax = 8
INVARIANT ReadyTimerAsDocumented

SPECIFICATION QuerySpec
CONSTANTS
  MaxString = 256
  Sizes <- QuerySizes
  Tasks = {"asks"}
  Modems <- LockModems
  Requests <- LockRequests
  MaxRequests = 1
  Faults = {}
  PdnMin = 1
  PdnMax = 8
INVARIANT LockIsTold

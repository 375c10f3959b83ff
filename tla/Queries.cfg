SPECIFICATION PartSpec
CONSTANTS
  MaxString = 256
  Sizes <- QuerySizes
  Tasks = {"asks", "disturbs"}
  Modems <- QueryModems
  Requests <- QueryRequests
  MaxRequests = 2
  Faults = {"refused", "silent", "mute", "noMemory"}
  PdnMin = 1
  PdnMax = 8
  Askers = {t1}
  NoTask = NoTask
  Rats = {gsm}
  NoRat = NoRat
  Causes = {c1}
  NoCause = NoCause
  MaxChanges = 3
  MaxQueries = 1
  EmptyFields = TRUE
  Errors = TRUE
INVARIANTS
  NothingMissed TruthTold PlmnRight PsmRight SettersHeard
  TypeOK EventsTellAll QuietQueryIsRight
PROPERTY DomainsApart

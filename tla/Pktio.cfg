SPECIFICATION FairPartSpec
CONSTANTS
  Plans <- AllPlans
  Tasks = {t1, t2}
  NoTask = NoTask
  MaxLives = 2
INVARIANTS
  TypeOK HandledInOrder ResponseIntact
  LifeTypeOK AllReleased ReaderHasItsContext UpMeansUsable QueueInUse
PROPERTIES AllHandled CleanupReturns InitReturns

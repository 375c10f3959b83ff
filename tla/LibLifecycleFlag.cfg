SPECIFICATION LifeSpec
CONSTANTS
  Tasks = {t1}
  NoTask = NoTask
  MaxLives = 2
CHECK_DEADLOCK FALSE
INVARIANT UpNotShutDown

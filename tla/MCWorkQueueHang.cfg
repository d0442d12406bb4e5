SPECIFICATION FairSpec
CONSTANTS
  a = a
  b = b
  c = c
  d = d
  e = e
  NumThreads = 3
  NoTask = NoTask
  Task <- MCTask
  Queues <- TwoTasks
  Spawn <- MCSpawn
  MayThrow = {b, e}
PROPERTY RunAllReturns
CHECK_DEADLOCK FALSE

SPECIFICATION FairSpec
CONSTANTS
  a = a
  b = b
  c = c
  d = d
  e = e
  NumThreads = 3
  NoTask = NoTask
  Task <- MCTask
  Queues <- MCQueues
  Spawn <- MCSpawn
  MayThrow = {b, e}
INVARIANTS
  CountersExact
  NothingLeftBehind
PROPERTIES
  PoolSpec
  RunAllReturns

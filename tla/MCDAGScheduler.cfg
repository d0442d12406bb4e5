SPECIFICATION FairSpec
CONSTANTS
  t1 = t1
  t2 = t2
  t3 = t3
  t4 = t4
  f = f
  c1 = c1
  c2 = c2
  c3 = c3
  g = g
  Main = Main
  NoTask = NoTask
  Task <- MCTask
  Dependency <- MCDependency
  Action <- MCAction
  TaskOf <- MCTaskOf
  Augment <- MCAugment
  Continuation <- MCContinuation
  NumThreads = 3
INVARIANTS
  AfterDependencies
  ContinuationsLast
  EveryActionOnce
PROPERTY RunReturns

SPECIFICATION FairSpec
CONSTANTS
  t1 = t1
  t2 = t2
  t3 = t3
  a = a
  b = b
  c = c
  d = d
  e = e
  NoItem = NoItem
  Thread <- MCThread
  Item <- MCItem
  Priority <- MCPriority
  MainPosts <- MCMainPosts
  ItemPosts <- MCItemPosts
  MayThrow = {b}
  AsyncRunner = FALSE
INVARIANTS
  WorkConserving
  AssertsHold
  DestructorAsserts
PROPERTIES
  PoolContract
  JoinReturns

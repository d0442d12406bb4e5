SPECIFICATION FairSpec
CONSTANTS
  Top = 3
  Threads = {t1, t2}
  Graphs <- MCGraphs
  Inits <- MCInits
CHECK_DEADLOCK FALSE
INVARIANTS
  NoRace
  FixpointReached
  WpoSound
PROPERTY RunReturns

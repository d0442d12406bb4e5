SPECIFICATION FairSpec
CONSTANTS
  Worker <- MCWorker
  Program <- MCProgram
CHECK_DEADLOCK FALSE
INVARIANTS
  Confluent
  AssertsHold
  VisitedOnce
  ExecutionKept
  ImplementationsKept
PROPERTY MarkingEnds

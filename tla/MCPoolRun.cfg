SPECIFICATION RunSpec
CONSTANTS
  j1 = j1
  j2 = j2
  j3 = j3
  j4 = j4
  Main = Main
  NoJob = NoJob
  Job <- MCJob
  Submitter <- MCSubmitter
  Needs <- MCNeeds
  MayThrow <- MCMayThrow
  Caller = j1
  WorkerJob <- MCWorkerJob
  MaxThreads = 4
INVARIANTS
  JoinDropsNothing
  ReturnsAfterWorkers
PROPERTIES
  QueuedJobsComplete
  JoinReturns
  CallReturns

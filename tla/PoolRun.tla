------------------------------ MODULE PoolRun ------------------------------
(***************************************************************************)
(* A work queue that runs on the ThreadPool from inside one of its jobs:   *)
(* ThreadPool with the call of run_in_parallel (RunInParallel) by the job  *)
(* Caller, whose workers are again jobs of the pool.  This is how redex    *)
(* nests work queues: the caller blocks one thread of the pool until the   *)
(* others, or new ones, have run the workers.                              *)
(*                                                                         *)
(* Needs of ThreadPool is empty here: what the caller waits for is         *)
(* explicit.                                                               *)
(***************************************************************************)
EXTENDS ThreadPool

CONSTANTS Caller,      \* the job that calls run_in_parallel
          WorkerJob    \* the sequence of the jobs it passes to run_async

ASSUME CallAssumption == Caller \in Job /\ WorkerJob \in Seq(Job)

VARIABLES remaining, notified, cpc, wpc   \* those of RunInParallel

Call == INSTANCE RunInParallel WITH NumThreads <- Len(WorkerJob),
                                    mpc <- cpc, pc <- wpc

callVars == <<remaining, notified, cpc, wpc>>
allVars == <<vars, callVars>>

Runs(t, j) == tpc[t] = "running" /\ func[t] = j

\* A run_async call of run_in_parallel.
Spawn(t) ==
  /\ Runs(t, Caller)
  /\ \E i \in DOMAIN WorkerJob :
       JobRunAsync(t, WorkerJob[i]) /\ Call!RunAsync(i)

\* The caller in the wait on the condition variable of the call.
CallerWaits(t) ==
  /\ Runs(t, Caller)
  /\ Call!Wait \/ Call!WakeUp
  /\ UNCHANGED vars

WorkerRuns(t) ==
  /\ \E i \in DOMAIN WorkerJob : Runs(t, WorkerJob[i]) /\ Call!WorkerStep(i)
  /\ UNCHANGED vars

\* The functions end where their code does.
JobEnds(t) ==
  /\ func[t] = Caller => cpc = "returned"
  /\ \A i \in DOMAIN WorkerJob : func[t] = WorkerJob[i] => wpc[i] = "end"
  /\ FuncEnds(t)
  /\ UNCHANGED callVars

PoolStep(t) ==
  /\ \/ JobNotify(t)
     \/ BecomeWaiting(t)
     \/ Wake(t)
  /\ UNCHANGED callVars

RunThreadStep(t) ==
  Spawn(t) \/ CallerWaits(t) \/ WorkerRuns(t) \/ JobEnds(t) \/ PoolStep(t)

OwnerStep == MainStep /\ UNCHANGED callVars

RunInit == Init /\ Call!Init
RunNext == OwnerStep \/ \E t \in Thread : RunThreadStep(t)

\* As Fairness in ThreadPool.
RunFairness ==
  /\ \A t \in Thread : WF_allVars(RunThreadStep(t))
  /\ WF_allVars(mpc # "open" /\ OwnerStep)

RunSpec == RunInit /\ [][RunNext]_allVars /\ RunFairness
-----------------------------------------------------------------------------
RunTypeOK == TypeOK /\ Call!TypeOK

\* run_in_parallel returns to its caller only after every worker has ended.
ReturnsAfterWorkers == Call!ReturnsAfterWorkers

\* A job that has begun to call run_in_parallel gets out of it again: the pool
\* finds threads for the workers although the caller keeps one, and the
\* notification of the last worker is not lost.
CallReturns == jstate[Caller] = "running" ~> cpc = "returned"
=============================================================================

--------------------------- MODULE RunInParallel ---------------------------
(***************************************************************************)
(* WorkQueue::run_in_parallel with an AsyncRunner: the workers are passed  *)
(* to run_async, and the caller waits on a condition variable that is, as  *)
(* the counter and the mutex, a local variable of the call.  How a worker  *)
(* ends is the business of WorkQueue; here it just ends.                   *)
(***************************************************************************)
EXTENDS Integers, FiniteSets

CONSTANT NumThreads   \* m_num_threads

Worker == 1 .. NumThreads

VARIABLES
  remaining,   \* the workers that have not ended
  notified,    \* the caller, asleep, has been notified
  mpc,         \* the caller
  pc           \* each worker's func

vars == <<remaining, notified, mpc, pc>>

TypeOK ==
  /\ remaining \in 0 .. NumThreads
  /\ notified \in BOOLEAN
  /\ mpc \in {"spawn", "wait", "asleep", "returned"}
  /\ pc \in [Worker -> {"unborn", "worker", "count", "notify", "end"}]

Init ==
  /\ remaining = NumThreads
  /\ notified = FALSE
  /\ mpc = "spawn"
  /\ pc = [i \in Worker |-> "unborn"]

\* The loop of run_async calls, and its end.
RunAsync(i) ==
  /\ mpc = "spawn"
  /\ pc[i] = "unborn"
  /\ \A j \in 1 .. i - 1 : pc[j] # "unborn"
  /\ pc' = [pc EXCEPT ![i] = "worker"]
  /\ mpc' = IF i = NumThreads THEN "wait" ELSE "spawn"
  /\ UNCHANGED <<remaining, notified>>

WorkerEnds(i) ==
  /\ pc[i] = "worker"
  /\ pc' = [pc EXCEPT ![i] = "count"]
  /\ UNCHANGED <<remaining, notified, mpc>>

\* Mutant: no worker is the last one.
CountDown_NeverNotifies(i) ==
  /\ pc[i] = "count"
  /\ remaining' = remaining - 1
  /\ pc' = [pc EXCEPT ![i] = "end"]
  /\ UNCHANGED <<notified, mpc>>

\* The critical section.
CountDown(i) ==
  /\ pc[i] = "count"
  /\ remaining' = remaining - 1
  /\ pc' = [pc EXCEPT ![i] = IF remaining = 1 THEN "notify" ELSE "end"]
  /\ UNCHANGED <<notified, mpc>>

\* notify_one, after the mutex was released.
Notify(i) ==
  /\ pc[i] = "notify"
  /\ pc' = [pc EXCEPT ![i] = "end"]
  /\ notified' = (notified \/ mpc = "asleep")
  /\ UNCHANGED <<remaining, mpc>>

\* Mutant: the caller waits only if nobody has ended.
Wait_AnyEnded ==
  /\ mpc = "wait"
  /\ mpc' = IF remaining < NumThreads THEN "returned" ELSE "asleep"
  /\ notified' = FALSE
  /\ UNCHANGED <<remaining, pc>>

\* wait evaluates its condition: when it is called and when it wakes up.
Wait ==
  /\ mpc = "wait"
  /\ mpc' = IF remaining = 0 THEN "returned" ELSE "asleep"
  /\ notified' = FALSE
  /\ UNCHANGED <<remaining, pc>>

WakeUp ==
  /\ mpc = "asleep"
  /\ notified
  /\ mpc' = "wait"
  /\ UNCHANGED <<remaining, notified, pc>>

Ended == mpc = "returned" /\ \A i \in Worker : pc[i] = "end"

WorkerStep(i) == WorkerEnds(i) \/ CountDown(i) \/ Notify(i)
CallerStep == (\E i \in Worker : RunAsync(i)) \/ Wait \/ WakeUp

Next ==
  \/ CallerStep
  \/ \E i \in Worker : WorkerStep(i)
  \/ Ended /\ UNCHANGED vars

Spec == Init /\ [][Next]_vars

\* The runner runs every function it was given (ThreadPool: QueuedJobsComplete)
\* and the caller is scheduled.
FairSpec ==
  /\ Spec
  /\ WF_vars(CallerStep)
  /\ \A i \in Worker : WF_vars(WorkerStep(i))
-----------------------------------------------------------------------------
\* The caller goes on only when every worker has ended.
ReturnsAfterWorkers ==
  mpc = "returned" => \A i \in Worker : pc[i] \in {"notify", "end"}

\* The caller returns: the notification of the last worker is not lost.
CallReturns == <>(mpc = "returned")

\* The comment in run_in_parallel: "Wait for all spawned async runs to
\* finish".  A run that has still to notify has not finished, and what it
\* notifies is gone when run_in_parallel returns.
RunsHaveFinished == mpc = "returned" => \A i \in Worker : pc[i] = "end"
=============================================================================

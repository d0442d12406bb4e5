----------------------------- MODULE ThreadPool -----------------------------
(***************************************************************************)
(* sparta::ThreadPool (sparta/include/sparta/ThreadPool.h), the            *)
(* AsyncRunner on which redex runs its work queues.  A thread that has     *)
(* finished its work is kept and reused; a new one is created only when no *)
(* thread waits, so that a piece of work never waits for another one.      *)
(*                                                                         *)
(* Every action is one critical section of m_mutex, or one step that the   *)
(* code takes outside of it.  A thread blocked on a condition variable is  *)
(* "parked"; it leaves that state only when it is notified, and then       *)
(* evaluates its predicate again ("awake").                                *)
(***************************************************************************)
EXTENDS Naturals, Sequences, FiniteSets

CONSTANTS
  Job,          \* the functions passed to run_async; each is submitted once
  Main,         \* the thread that owns the pool and calls join
  NoJob,        \* no function / no exception
  Submitter,    \* Submitter[j]: Main, or the job that calls run_async(j)
  Needs,        \* Needs[j]: the jobs whose completion j blocks on
  MayThrow,     \* the jobs that may end with an exception
  MaxThreads    \* bound: at most this many threads between two joins

ASSUME JobAssumption ==
  /\ IsFiniteSet(Job)
  /\ NoJob \notin Job
  /\ Main \notin Job
  /\ Submitter \in [Job -> Job \cup {Main}]
  /\ Needs \in [Job -> SUBSET Job]
  /\ MayThrow \subseteq Job
  /\ MaxThreads \in Nat

VARIABLES
  nthreads,     \* m_threads.size()
  waiting,      \* m_waiting
  pending,      \* m_pending
  joining,      \* m_joining
  exception,    \* m_exception: the job whose exception is stored
  rethrown,     \* what the last join rethrew
  mpc,          \* where the owner is
  tpc,          \* where each pool thread is
  func,         \* the function each pool thread holds
  jstate        \* the life of each job

vars == <<nthreads, waiting, pending, joining, exception, rethrown,
          mpc, tpc, func, jstate>>

Thread == 1 .. MaxThreads

TypeOK ==
  /\ nthreads \in 0 .. MaxThreads
  /\ waiting \in Nat
  /\ pending \in Seq(Job)
  /\ joining \in BOOLEAN
  /\ exception \in Job \cup {NoJob}
  /\ rethrown \in Job \cup {NoJob}
  /\ mpc \in {"open", "notify", "join_parked", "join_awake",
              "join_notify", "join_threads"}
  /\ tpc \in [Thread -> {"absent", "running", "notify", "finished",
                         "parked", "awake", "exited"}]
  /\ func \in [Thread -> Job \cup {NoJob}]
  /\ jstate \in [Job -> {"new", "submitted", "running", "done"}]

Init ==
  /\ nthreads = 0
  /\ waiting = 0
  /\ pending = <<>>
  /\ joining = FALSE
  /\ exception = NoJob
  /\ rethrown = NoJob
  /\ mpc = "open"
  /\ tpc = [t \in Thread |-> "absent"]
  /\ func = [t \in Thread |-> NoJob]
  /\ jstate = [j \in Job |-> "new"]
-----------------------------------------------------------------------------
(***************************************************************************)
(* run_async_bound.  The two branches of its critical section: no thread   *)
(* waits, so one is created with the job; or the job is queued for one of  *)
(* the waiting threads, which from now on does not count as waiting.  The  *)
(* notify_one of the second branch comes after the unlock, as a step of    *)
(* its own.                                                                *)
(***************************************************************************)
CreateThread(j) ==
  /\ ~joining
  /\ waiting = 0
  /\ nthreads < MaxThreads
  /\ nthreads' = nthreads + 1
  /\ jstate' = [jstate EXCEPT ![j] = "running"]
  /\ func' = [func EXCEPT ![nthreads + 1] = j]
  /\ UNCHANGED <<waiting, pending>>

\* Mutant: the thread the job is meant for still counts as waiting.
EnqueuePending_StillWaiting(j) ==
  /\ ~joining
  /\ waiting > 0
  /\ pending' = Append(pending, j)
  /\ jstate' = [jstate EXCEPT ![j] = "submitted"]
  /\ UNCHANGED <<nthreads, waiting, func>>

EnqueuePending(j) ==
  /\ ~joining
  /\ waiting > 0
  /\ waiting' = waiting - 1
  /\ pending' = Append(pending, j)
  /\ jstate' = [jstate EXCEPT ![j] = "submitted"]
  /\ UNCHANGED <<nthreads, func>>

\* Mutant: the notification is forgotten.
NotifyOne_Lost(woken) == woken = {}

\* notify_one on m_pending_or_joining_cv: it wakes one parked thread, if there
\* is one.
NotifyOne(woken) ==
  \/ \E t \in Thread : tpc[t] = "parked" /\ woken = {t}
  \/ (\A t \in Thread : tpc[t] # "parked") /\ woken = {}

MainRunAsync(j) ==
  /\ mpc = "open"
  /\ Submitter[j] = Main
  /\ jstate[j] = "new"
  /\ \/ /\ CreateThread(j)
        /\ tpc' = [tpc EXCEPT ![nthreads + 1] = "running"]
        /\ UNCHANGED mpc
     \/ /\ EnqueuePending(j)
        /\ mpc' = "notify"
        /\ UNCHANGED tpc
  /\ UNCHANGED <<joining, exception, rethrown>>

MainNotify ==
  /\ mpc = "notify"
  /\ mpc' = "open"
  /\ \E woken \in SUBSET Thread :
       /\ NotifyOne(woken)
       /\ tpc' = [t \in Thread |-> IF t \in woken THEN "awake" ELSE tpc[t]]
  /\ UNCHANGED <<nthreads, waiting, pending, joining, exception, rethrown,
                 func, jstate>>

JobRunAsync(t, j) ==
  /\ tpc[t] = "running"
  /\ Submitter[j] = func[t]
  /\ jstate[j] = "new"
  /\ \/ /\ CreateThread(j)
        /\ tpc' = [tpc EXCEPT ![nthreads + 1] = "running"]
     \/ /\ EnqueuePending(j)
        /\ tpc' = [tpc EXCEPT ![t] = "notify"]
  /\ UNCHANGED <<joining, exception, rethrown, mpc>>

JobNotify(t) ==
  /\ tpc[t] = "notify"
  /\ \E woken \in SUBSET Thread :
       /\ NotifyOne(woken)
       /\ tpc' = [s \in Thread |-> IF s \in woken THEN "awake"
                                   ELSE IF s = t THEN "running" ELSE tpc[s]]
  /\ UNCHANGED <<nthreads, waiting, pending, joining, exception, rethrown,
                 mpc, func, jstate>>
-----------------------------------------------------------------------------
(***************************************************************************)
(* run, the loop of a pool thread.                                         *)
(***************************************************************************)

\* The function returns or throws.  It has made its own run_async calls and
\* has waited for the jobs it depends on; a stored exception is overwritten.
FuncEnds(t) ==
  LET j == func[t] IN
  /\ tpc[t] = "running"
  /\ \A c \in Job : Submitter[c] = j => jstate[c] # "new"
  /\ \A k \in Needs[j] : jstate[k] = "done"
  /\ \/ UNCHANGED exception
     \/ j \in MayThrow /\ exception' = j
  /\ jstate' = [jstate EXCEPT ![j] = "done"]
  /\ func' = [func EXCEPT ![t] = NoJob]
  /\ tpc' = [tpc EXCEPT ![t] = "finished"]
  /\ UNCHANGED <<nthreads, waiting, pending, joining, rethrown, mpc>>

\* The predicate of m_pending_or_joining_cv.wait and what follows it in the
\* same critical section.
TakeOrPark(t) ==
  \/ /\ joining
     /\ tpc' = [tpc EXCEPT ![t] = "exited"]
     /\ UNCHANGED <<pending, func, jstate>>
  \/ /\ ~joining
     /\ pending # <<>>
     /\ tpc' = [tpc EXCEPT ![t] = "running"]
     /\ func' = [func EXCEPT ![t] = Head(pending)]
     /\ jstate' = [jstate EXCEPT ![Head(pending)] = "running"]
     /\ pending' = Tail(pending)
  \/ /\ ~joining
     /\ pending = <<>>
     /\ tpc' = [tpc EXCEPT ![t] = "parked"]
     /\ UNCHANGED <<pending, func, jstate>>

\* Mutant: join is told before the thread counts itself as waiting.
BecomeWaiting_EarlyTest(t) ==
  /\ tpc[t] = "finished"
  /\ waiting' = waiting + 1
  /\ mpc' = IF mpc = "join_parked" /\ waiting = nthreads
            THEN "join_awake" ELSE mpc
  /\ TakeOrPark(t)
  /\ UNCHANGED <<nthreads, joining, exception, rethrown>>

\* Lock, count itself as waiting, tell join when everyone waits, then wait.
BecomeWaiting(t) ==
  /\ tpc[t] = "finished"
  /\ waiting' = waiting + 1
  /\ mpc' = IF mpc = "join_parked" /\ waiting' = nthreads
            THEN "join_awake" ELSE mpc
  /\ TakeOrPark(t)
  /\ UNCHANGED <<nthreads, joining, exception, rethrown>>

Wake(t) ==
  /\ tpc[t] = "awake"
  /\ TakeOrPark(t)
  /\ UNCHANGED <<nthreads, waiting, joining, exception, rethrown, mpc>>
-----------------------------------------------------------------------------
(***************************************************************************)
(* join: wait until every thread waits, raise m_joining and wake everyone, *)
(* join the threads, reset the pool and rethrow the stored exception.      *)
(***************************************************************************)
JoinBegin ==
  /\ mpc \in {"open", "join_awake"}
  /\ \/ /\ waiting = nthreads
        /\ joining' = TRUE
        /\ mpc' = "join_notify"
     \/ /\ waiting # nthreads
        /\ mpc' = "join_parked"
        /\ UNCHANGED joining
  /\ UNCHANGED <<nthreads, waiting, pending, exception, rethrown,
                 tpc, func, jstate>>

JoinNotify ==
  /\ mpc = "join_notify"
  /\ mpc' = "join_threads"
  /\ tpc' = [t \in Thread |-> IF tpc[t] = "parked" THEN "awake" ELSE tpc[t]]
  /\ UNCHANGED <<nthreads, waiting, pending, joining, exception, rethrown,
                 func, jstate>>

JoinEnd ==
  /\ mpc = "join_threads"
  /\ \A t \in 1 .. nthreads : tpc[t] = "exited"
  /\ nthreads' = 0
  /\ tpc' = [t \in Thread |-> "absent"]
  /\ waiting' = 0
  /\ rethrown' = exception
  /\ exception' = NoJob
  /\ joining' = FALSE
  /\ mpc' = "open"
  /\ UNCHANGED <<pending, func, jstate>>

MainStep == (\E j \in Job : MainRunAsync(j)) \/ MainNotify
              \/ JoinBegin \/ JoinNotify \/ JoinEnd

ThreadStep(t) == (\E j \in Job : JobRunAsync(t, j)) \/ JobNotify(t)
                   \/ FuncEnds(t) \/ BecomeWaiting(t) \/ Wake(t)

Next == MainStep \/ \E t \in Thread : ThreadStep(t)

Spec == Init /\ [][Next]_vars

\* Every pool thread is scheduled, and the owner finishes a call it has begun;
\* nothing forces the owner to submit or to join.
Fairness ==
  /\ \A t \in Thread : WF_vars(ThreadStep(t))
  /\ WF_vars(mpc # "open" /\ MainStep)

FairSpec == Spec /\ Fairness
-----------------------------------------------------------------------------
Busy == {t \in Thread : tpc[t] \in {"running", "notify", "finished"}}

Idle == {t \in Thread : tpc[t] \in {"parked", "awake", "exited"}}

\* m_waiting counts the idle threads that no queued job is meant for: a queued
\* job always has an idle thread to itself.  This is the accounting behind
\* "work is never blocked" (the comment on AsyncRunner) and behind the
\* predicate of join.
WaitingAccounting == waiting + Len(pending) = Cardinality(Idle)

\* When join raises m_joining, on which a pool thread returns without a look at
\* m_pending, no job is queued and none is being executed: whatever the order
\* of nested run_async calls, terminating threads and join, nothing submitted
\* is dropped.
JoinDropsNothing ==
  joining => /\ pending = <<>>
             /\ Busy = {}
             /\ \A j \in Job : jstate[j] \in {"new", "done"}

\* Every queued job is executed to its end, even when the jobs that occupy the
\* other threads block until it is done.
QueuedJobsComplete ==
  \A j \in Job : jstate[j] = "submitted" ~> jstate[j] = "done"

\* A join that had to wait is woken up and returns, whatever jobs were submitted
\* by running jobs in the meantime.
JoinReturns == mpc = "join_parked" ~> mpc = "open"
=============================================================================

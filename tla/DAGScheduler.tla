---------------------------- MODULE DAGScheduler ----------------------------
(***************************************************************************)
(* PriorityThreadPoolDAGScheduler: the tasks of a dependency graph are run *)
(* on a PriorityThreadPool, each after its dependencies.  While an action  *)
(* of a task runs it may register further actions of the same task, some   *)
(* as continuations, which run when nothing else of the task is left.      *)
(*                                                                         *)
(* The pool is the abstract PriorityPool, which PriorityThreadPool is      *)
(* shown to implement.  The executor's call on a task is the action that   *)
(* bears the task's name.  One step is one access to a wait count, to the  *)
(* continuations, or to the pool.                                          *)
(***************************************************************************)
EXTENDS Integers, Sequences, FiniteSets, FiniteSetsExt

CONSTANTS
  Task,           \* what run is called on
  Dependency,     \* the pairs <<task, dependency>> of add_dependency
  Action,         \* the executor's calls and all functions that are registered
  TaskOf,         \* the task of each action
  Augment,        \* Augment[a]: the functions that a registers, in order
  Continuation,   \* those registered with continuation = true
  NumThreads,
  Main,           \* the thread that calls run
  NoTask

Actor == Action \cup {Main}

ASSUME DAGAssumption ==
  /\ IsFiniteSet(Action)
  /\ Task \subseteq Action
  /\ Dependency \subseteq Task \X Task
  /\ TaskOf \in [Action -> Task]
  /\ \A t \in Task : TaskOf[t] = t
  /\ Augment \in [Action -> Seq(Action \ Task)]
  /\ \A a \in Action : \A k \in 1 .. Len(Augment[a]) :
       TaskOf[Augment[a][k]] = TaskOf[a]
  /\ Continuation \subseteq Action \ Task
  /\ NumThreads \in Nat \ {0}
  /\ Main \notin Action
  /\ NoTask \notin Task

\* The callers leave no cycle of dependencies; a function is registered once,
\* and stems, directly or not, from the executor's call on a task.
ASSUME AcyclicAssumption ==
  /\ \A S \in SUBSET Task : S # {} =>
       \E t \in S : \A u \in S : <<t, u>> \notin Dependency
  /\ \A a, b \in Action : \A j \in 1 .. Len(Augment[a]), k \in 1 .. Len(Augment[b]) :
       Augment[a][j] = Augment[b][k] => a = b /\ j = k
  /\ \A S \in SUBSET Action :
       /\ Task \subseteq S
       /\ \A a \in S : \A k \in 1 .. Len(Augment[a]) : Augment[a][k] \in S
       => S = Action

VARIABLES
  added,          \* the dependencies added so far
  waiting_for,    \* m_waiting_for
  wait_counts,    \* m_wait_counts
  continuations,  \* m_concurrent_continuations
  ready,          \* ready_tasks of run
  pc,             \* where each action, and the caller of run, is
  augmented,      \* how many functions each action has registered
  conts,          \* the continuations it has taken, and not yet posted
  left,           \* the tasks it has still to tell that its own is done
  target,         \* the task that schedule is called on
  aborted,        \* an assertion has failed
  calls,          \* how often each action was called (history)
  pending, active, joined   \* the pool

vars == <<added, waiting_for, wait_counts, continuations, ready, pc,
          augmented, conts, left, target, aborted, calls, pending, active,
          joined>>

pool == <<pending, active, joined>>

WaitsFor(t) == {u \in Task : <<u, t>> \in Dependency}

\* compute_priority: the longest chain of tasks that wait for t.
compute_priority[t \in Task] ==
  IF WaitsFor(t) = {} THEN 0
  ELSE 1 + Max({compute_priority[u] : u \in WaitsFor(t)})

Pool == INSTANCE PriorityPool WITH
  Item <- Action,
  Priority <- [a \in Action |-> compute_priority[TaskOf[a]]],
  Width <- NumThreads

ActorPC == {"none", "run", "augment", "decrement", "erase", "increment", "post",
            "notify", "schedule", "schedule_post", "end",
            "add", "ready", "join", "returned"}

TypeOK ==
  /\ added \subseteq Dependency
  /\ waiting_for \in [Task -> SUBSET Task]
  /\ wait_counts \in [Task -> Nat]
  /\ continuations \in [Task -> Seq(Action)]
  /\ ready \subseteq Task
  /\ pc \in [Actor -> ActorPC]
  /\ augmented \in [Action -> Nat]
  /\ conts \in [Action -> Seq(Action)]
  /\ left \in [Action -> SUBSET Task]
  /\ target \in [Actor -> Task \cup {NoTask}]
  /\ aborted \in BOOLEAN
  /\ calls \in [Action -> Nat]
  /\ pending \subseteq Action
  /\ active \subseteq Action
  /\ joined \in BOOLEAN

Init ==
  /\ added = {}
  /\ waiting_for = [t \in Task |-> {}]
  /\ wait_counts = [t \in Task |-> 0]
  /\ continuations = [t \in Task |-> <<>>]
  /\ ready = {}
  /\ pc = [x \in Actor |-> IF x = Main THEN "add" ELSE "none"]
  /\ augmented = [a \in Action |-> 0]
  /\ conts = [a \in Action |-> <<>>]
  /\ left = [a \in Action |-> {}]
  /\ target = [x \in Actor |-> NoTask]
  /\ aborted = FALSE
  /\ calls = [a \in Action |-> 0]
  /\ Pool!Init

Goto(x, label) == pc' = [pc EXCEPT ![x] = label]

Count(t, n) == wait_counts' = [wait_counts EXCEPT ![t] = @ + n]

Check(b) == aborted' = ~b
-----------------------------------------------------------------------------
(***************************************************************************)
(* The caller: add_dependency, and run up to the join of the pool.         *)
(***************************************************************************)
AddDependency(d) ==
  /\ pc[Main] = "add"
  /\ d \in Dependency \ added
  /\ added' = added \cup {d}
  /\ waiting_for' = [waiting_for EXCEPT ![d[2]] = @ \cup {d[1]}]
  /\ Count(d[1], 1)
  /\ UNCHANGED <<continuations, ready, pc, augmented, conts, left, target,
                 aborted, calls, pool>>

Run ==
  /\ pc[Main] = "add"
  /\ added = Dependency
  /\ ready' = {t \in Task : wait_counts[t] = 0}
  /\ Goto(Main, "ready")
  /\ UNCHANGED <<added, waiting_for, wait_counts, continuations, augmented,
                 conts, left, target, aborted, calls, pool>>

\* The ready tasks, the highest priority first.
ScheduleReady(t) ==
  /\ pc[Main] = "ready"
  /\ t \in ready
  /\ \A u \in ready : compute_priority[u] <= compute_priority[t]
  /\ ready' = ready \ {t}
  /\ target' = [target EXCEPT ![Main] = t]
  /\ Goto(Main, "schedule")
  /\ UNCHANGED <<added, waiting_for, wait_counts, continuations, augmented,
                 conts, left, aborted, calls, pool>>

\* schedule, called by run and by decrement_wait_count.
ScheduleIncrement(x) ==
  /\ pc[x] = "schedule"
  /\ Check(wait_counts[target[x]] = 0)
  /\ Count(target[x], 1)
  /\ Goto(x, "schedule_post")
  /\ UNCHANGED <<added, waiting_for, continuations, ready, augmented, conts,
                 left, target, calls, pool>>

SchedulePost(x) ==
  /\ pc[x] = "schedule_post"
  /\ Pool!Post(target[x])
  /\ target' = [target EXCEPT ![x] = NoTask]
  /\ Goto(x, IF x = Main THEN "ready" ELSE "notify")
  /\ UNCHANGED <<added, waiting_for, wait_counts, continuations, ready,
                 augmented, conts, left, aborted, calls>>

JoinBegin ==
  /\ pc[Main] = "ready"
  /\ ready = {}
  /\ Goto(Main, "join")
  /\ UNCHANGED <<added, waiting_for, wait_counts, continuations, ready,
                 augmented, conts, left, target, aborted, calls, pool>>

\* join returns; no continuation and no wait count may be left, and the maps
\* are emptied.
RunEnd ==
  /\ pc[Main] = "join"
  /\ Pool!Joined
  /\ Check(\A t \in Task : continuations[t] = <<>> /\ wait_counts[t] = 0)
  /\ continuations' = [t \in Task |-> <<>>]
  /\ wait_counts' = [t \in Task |-> 0]
  /\ waiting_for' = [t \in Task |-> {}]
  /\ Goto(Main, "returned")
  /\ UNCHANGED <<added, ready, augmented, conts, left, target, calls>>
-----------------------------------------------------------------------------
(***************************************************************************)
(* The body of an action: the calls of augment.                            *)
(***************************************************************************)
Start(a) ==
  /\ Pool!Start(a)
  /\ calls' = [calls EXCEPT ![a] = @ + 1]
  /\ Goto(a, "run")
  /\ UNCHANGED <<added, waiting_for, wait_counts, continuations, ready,
                 augmented, conts, left, target, aborted>>

NextFunction(a) == Augment[a][augmented[a] + 1]

PushContinuation(a) ==
  /\ pc[a] = "run"
  /\ augmented[a] < Len(Augment[a])
  /\ NextFunction(a) \in Continuation
  /\ continuations' = [continuations EXCEPT ![TaskOf[a]] =
                         Append(@, NextFunction(a))]
  /\ augmented' = [augmented EXCEPT ![a] = @ + 1]
  /\ UNCHANGED <<added, waiting_for, wait_counts, ready, pc, conts, left,
                 target, aborted, calls, pool>>

\* Mutant: the registered function is not counted.
AugmentIncrement_Uncounted(a) ==
  /\ pc[a] = "run"
  /\ augmented[a] < Len(Augment[a])
  /\ NextFunction(a) \notin Continuation
  /\ Check(wait_counts[TaskOf[a]] > 0)
  /\ Goto(a, "augment")
  /\ UNCHANGED <<added, waiting_for, wait_counts, continuations, ready,
                 augmented, conts, left, target, calls, pool>>

AugmentIncrement(a) ==
  /\ pc[a] = "run"
  /\ augmented[a] < Len(Augment[a])
  /\ NextFunction(a) \notin Continuation
  /\ Check(wait_counts[TaskOf[a]] > 0)
  /\ Count(TaskOf[a], 1)
  /\ Goto(a, "augment")
  /\ UNCHANGED <<added, waiting_for, continuations, ready, augmented, conts,
                 left, target, calls, pool>>

AugmentPost(a) ==
  /\ pc[a] = "augment"
  /\ Pool!Post(NextFunction(a))
  /\ augmented' = [augmented EXCEPT ![a] = @ + 1]
  /\ Goto(a, "run")
  /\ UNCHANGED <<added, waiting_for, wait_counts, continuations, ready, conts,
                 left, target, aborted, calls>>

BodyEnds(a) ==
  /\ pc[a] = "run"
  /\ augmented[a] = Len(Augment[a])
  /\ Goto(a, "decrement")
  /\ UNCHANGED <<added, waiting_for, wait_counts, continuations, ready,
                 augmented, conts, left, target, aborted, calls, pool>>
-----------------------------------------------------------------------------
(***************************************************************************)
(* decrement_wait_count, at the end of every action.                       *)
(***************************************************************************)
Decrement(a) ==
  /\ pc[a] = "decrement"
  /\ Count(TaskOf[a], -1)
  /\ Goto(a, IF wait_counts[TaskOf[a]] = 1 THEN "erase" ELSE "end")
  /\ UNCHANGED <<added, waiting_for, continuations, ready, augmented, conts,
                 left, target, aborted, calls, pool>>

\* Mutant: the continuations are read and not erased.
GetAndErase_Kept(a) ==
  /\ pc[a] = "erase"
  /\ conts' = [conts EXCEPT ![a] = continuations[TaskOf[a]]]
  /\ IF continuations[TaskOf[a]] = <<>>
     THEN /\ Goto(a, "notify")
          /\ left' = [left EXCEPT ![a] = waiting_for[TaskOf[a]]]
     ELSE /\ Goto(a, "increment")
          /\ UNCHANGED left
  /\ UNCHANGED <<added, waiting_for, wait_counts, continuations, ready,
                 augmented, target, aborted, calls, pool>>

\* get_and_erase; without continuations the task is done.
GetAndErase(a) ==
  /\ pc[a] = "erase"
  /\ conts' = [conts EXCEPT ![a] = continuations[TaskOf[a]]]
  /\ continuations' = [continuations EXCEPT ![TaskOf[a]] = <<>>]
  /\ IF continuations[TaskOf[a]] = <<>>
     THEN /\ Goto(a, "notify")
          /\ left' = [left EXCEPT ![a] = waiting_for[TaskOf[a]]]
     ELSE /\ Goto(a, "increment")
          /\ UNCHANGED left
  /\ UNCHANGED <<added, waiting_for, wait_counts, ready, augmented, target,
                 aborted, calls, pool>>

ContinuationsIncrement(a) ==
  /\ pc[a] = "increment"
  /\ Check(wait_counts[TaskOf[a]] = 0)
  /\ Count(TaskOf[a], Len(conts[a]))
  /\ Goto(a, "post")
  /\ UNCHANGED <<added, waiting_for, continuations, ready, augmented, conts,
                 left, target, calls, pool>>

ContinuationPost(a) ==
  /\ pc[a] = "post"
  /\ Pool!Post(Head(conts[a]))
  /\ conts' = [conts EXCEPT ![a] = Tail(@)]
  /\ Goto(a, IF Len(conts[a]) = 1 THEN "end" ELSE "post")
  /\ UNCHANGED <<added, waiting_for, wait_counts, continuations, ready,
                 augmented, left, target, aborted, calls>>

\* Mutant: the new value of the count is compared instead of the old one.
Notify_NewValue(a, t) ==
  /\ pc[a] = "notify"
  /\ t \in left[a]
  /\ left' = [left EXCEPT ![a] = @ \ {t}]
  /\ Count(t, -1)
  /\ IF wait_counts[t] = 2
     THEN target' = [target EXCEPT ![a] = t] /\ Goto(a, "schedule")
     ELSE UNCHANGED <<target, pc>>
  /\ UNCHANGED <<added, waiting_for, continuations, ready, augmented, conts,
                 aborted, calls, pool>>

\* A task that waited for this one has one dependency less.
Notify(a, t) ==
  /\ pc[a] = "notify"
  /\ t \in left[a]
  /\ left' = [left EXCEPT ![a] = @ \ {t}]
  /\ Count(t, -1)
  /\ IF wait_counts[t] = 1
     THEN target' = [target EXCEPT ![a] = t] /\ Goto(a, "schedule")
     ELSE UNCHANGED <<target, pc>>
  /\ UNCHANGED <<added, waiting_for, continuations, ready, augmented, conts,
                 aborted, calls, pool>>

NotifyEnd(a) ==
  /\ pc[a] = "notify"
  /\ left[a] = {}
  /\ waiting_for' = [waiting_for EXCEPT ![TaskOf[a]] = {}]
  /\ Goto(a, "end")
  /\ UNCHANGED <<added, wait_counts, continuations, ready, augmented, conts,
                 left, target, aborted, calls, pool>>

\* The function that was posted returns to the pool.
End(a) ==
  /\ pc[a] = "end"
  /\ Pool!End(a)
  /\ Goto(a, "none")
  /\ UNCHANGED <<added, waiting_for, wait_counts, continuations, ready,
                 augmented, conts, left, target, aborted, calls>>
-----------------------------------------------------------------------------
MainStep ==
  \/ \E d \in Dependency : AddDependency(d)
  \/ Run
  \/ \E t \in Task : ScheduleReady(t)
  \/ ScheduleIncrement(Main) \/ SchedulePost(Main)
  \/ JoinBegin \/ RunEnd

ActionStep(a) ==
  \/ PushContinuation(a) \/ AugmentIncrement(a) \/ AugmentPost(a)
  \/ BodyEnds(a) \/ Decrement(a) \/ GetAndErase(a)
  \/ ContinuationsIncrement(a) \/ ContinuationPost(a)
  \/ \E t \in Task : Notify(a, t)
  \/ NotifyEnd(a) \/ ScheduleIncrement(a) \/ SchedulePost(a) \/ End(a)

PoolStarts == \E a \in Action : Start(a)

Ended == aborted \/ pc[Main] = "returned"

Next ==
  \/ ~aborted /\ (MainStep \/ PoolStarts \/ \E a \in Action : ActionStep(a))
  \/ Ended /\ UNCHANGED vars

Spec == Init /\ [][Next]_vars

\* The threads run what they have started, and a free one takes an item.
FairSpec ==
  /\ Spec
  /\ WF_vars(~aborted /\ MainStep)
  /\ WF_vars(~aborted /\ PoolStarts)
  /\ \A a \in Action : WF_vars(~aborted /\ ActionStep(a))
-----------------------------------------------------------------------------
(***************************************************************************)
(* Properties.                                                             *)
(***************************************************************************)
ActionsOf(t) == {a \in Action : TaskOf[a] = t}

\* The function was called and has returned.
HasRun(a) == calls[a] > 0 /\ pc[a] \notin {"run", "augment"}

\* A task runs only after each of its dependencies is done, with every
\* function that was registered for it, the continuations included.
AfterDependencies ==
  \A d \in Dependency :
    calls[d[1]] > 0 => \A a \in ActionsOf(d[2]) : HasRun(a)

\* The function registers a, directly or not, without a continuation.
Plain[a \in Action] ==
  \/ a \in Task
  \/ /\ a \notin Continuation
     /\ Plain[CHOOSE b \in Action : \E k \in 1 .. Len(Augment[b]) :
                Augment[b][k] = a]

\* The comment on augment: a continuation "will only run after all other
\* actions associated with this task have finished running".  The others are
\* the ones that do not stem from a continuation themselves.
ContinuationsLast ==
  \A c \in Continuation : calls[c] > 0 =>
    \A a \in ActionsOf(TaskOf[c]) : Plain[a] => HasRun(a)

\* No action is called twice and, when run returns, every one was called.
EveryActionOnce ==
  /\ \A a \in Action : calls[a] <= 1
  /\ pc[Main] = "returned" => \A a \in Action : calls[a] = 1

\* run returns, past its last assertion.
RunReturns == <>(pc[Main] = "returned" /\ ~aborted)
=============================================================================

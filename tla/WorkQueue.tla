------------------------------ MODULE WorkQueue ------------------------------
(***************************************************************************)
(* sparta::WorkQueue (sparta/include/sparta/WorkQueue.h): run_all, with    *)
(* its workers, the tasks they steal from one another, the tasks they push *)
(* while running, the counters by which they decide that no work is left,  *)
(* the semaphore on which they wait for work, and exceptions.              *)
(*                                                                         *)
(* One action is one access to the state that the workers share: an atomic *)
(* counter, the head of a task list, the semaphore.  A compare-exchange    *)
(* loop is one action, because its failed rounds have no effect:           *)
(* m_next_initial_task only grows and a list node is never pushed again,   *)
(* so a successful compare-exchange has seen the current value.  m_running *)
(* is private to its worker until the threads are joined, so               *)
(* num_running is the number of workers for which it is set.               *)
(***************************************************************************)
EXTENDS Integers, Sequences, FiniteSets

CONSTANTS
  NumThreads,   \* m_num_threads
  Task,         \* the tasks, each added or pushed once
  NoTask,
  Queues,       \* the queues that run_all is called on: m_can_push_task and,
                \* filled by add_item, m_initial_tasks of each worker
  Spawn,        \* Spawn[t]: what the executor of t passes to push_task
  MayThrow      \* the tasks whose executor may throw

Worker == 0 .. NumThreads - 1

ASSUME QueueAssumption ==
  /\ NumThreads \in Nat \ {0}
  /\ NoTask \notin Task
  /\ Queues \subseteq [can_push : BOOLEAN, initial : [Worker -> Seq(Task)]]
  /\ Spawn \in [Task -> Seq(Task)]
  /\ MayThrow \subseteq Task

\* No two items are the same task: the positions of the added and of the
\* pushed tasks are all different.
ASSUME TaskAssumption ==
  /\ \A q \in Queues : \A v, w \in Worker :
       \A i \in 1 .. Len(q.initial[v]), j \in 1 .. Len(q.initial[w]) :
         q.initial[v][i] = q.initial[w][j] => v = w /\ i = j
  /\ \A s, t \in Task : \A i \in 1 .. Len(Spawn[s]), j \in 1 .. Len(Spawn[t]) :
       Spawn[s][i] = Spawn[t][j] => s = t /\ i = j
  /\ \A q \in Queues : \A w \in Worker, t \in Task :
       \A i \in 1 .. Len(q.initial[w]), j \in 1 .. Len(Spawn[t]) :
         q.initial[w][i] # Spawn[t][j]

VARIABLES
  can_push,     \* m_can_push_task
  initial,      \* m_initial_tasks of each worker
  next,         \* m_next_initial_task of each worker
  additional,   \* m_additional_tasks of each worker, the head first
  running,      \* m_running of each worker
  num_non_empty_initial,
  num_non_empty_additional,
  waiter,       \* the count of the semaphore
  exception,    \* whether run_all has recorded an exception
  pc,           \* where each worker is
  draining,     \* whether a worker steals the tasks after its exception
  left,         \* the workers it has still to visit in this round
  task,         \* the task it popped
  pushed,       \* how many tasks of Spawn[task] it has pushed
  runs          \* how often the executor was called on each task (history)

queue == <<can_push, initial>>

vars == <<can_push, initial, next, additional, running, num_non_empty_initial,
          num_non_empty_additional, waiter, exception, pc, draining, left,
          task, pushed, runs>>

num_running == Cardinality({w \in Worker : running[w]})

PopPC  == {"dec_initial", "dec_additional", "set_running"}
ExecPC == {"exec", "push_cas", "push_wake", "push_give"}
PC     == PopPC \cup ExecPC \cup
          {"pop", "idle", "test_running", "test_initial", "test_additional",
           "quit", "take", "catch", "drained", "drain_give", "done"}

TypeOK ==
  /\ [can_push |-> can_push, initial |-> initial] \in Queues
  /\ next \in [Worker -> Nat]
  /\ \A w \in Worker : next[w] <= Len(initial[w])
  /\ additional \in [Worker -> Seq(Task)]
  /\ running \in [Worker -> BOOLEAN]
  /\ num_non_empty_initial \in Nat
  /\ num_non_empty_additional \in Nat
  /\ waiter \in Nat
  /\ exception \in BOOLEAN
  /\ pc \in [Worker -> PC]
  /\ draining \in [Worker -> BOOLEAN]
  /\ left \in [Worker -> SUBSET Worker]
  /\ task \in [Worker -> Task \cup {NoTask}]
  /\ pushed \in [Worker -> Nat]
  /\ runs \in [Task -> Nat]

\* run_all up to the start of the threads.
Init ==
  /\ \E q \in Queues : can_push = q.can_push /\ initial = q.initial
  /\ next = [w \in Worker |-> 0]
  /\ additional = [w \in Worker |-> <<>>]
  /\ running = [w \in Worker |-> FALSE]
  /\ num_non_empty_initial = Cardinality({w \in Worker : initial[w] # <<>>})
  /\ num_non_empty_additional = 0
  /\ waiter = 0
  /\ exception = FALSE
  /\ pc = [w \in Worker |-> "pop"]
  /\ draining = [w \in Worker |-> FALSE]
  /\ left = [w \in Worker |-> Worker]
  /\ task = [w \in Worker |-> NoTask]
  /\ pushed = [w \in Worker |-> 0]
  /\ runs = [t \in Task |-> 0]

Goto(w, label) == pc' = [pc EXCEPT ![w] = label]

SetRunning(w, b) == running' = [running EXCEPT ![w] = b]
-----------------------------------------------------------------------------
(***************************************************************************)
(* pop_task.  A worker visits its own queue first and then the others in   *)
(* the order of its random permutation (here: in any order); the worker    *)
(* that caught the first exception empties all queues, in index order.     *)
(***************************************************************************)
MayVisit(w, v) ==
  /\ v \in left[w]
  /\ IF draining[w] THEN \A u \in left[w] : v <= u ELSE w \in left[w] => v = w

\* After a task, a new round; the worker that empties the queues goes on.
Revisit(w) == left' = [left EXCEPT ![w] = IF draining[w] THEN @ ELSE Worker]

\* Mutant: the last initial task is looked for one place too far.
PopInitial_OffByOne(w, v) ==
  /\ pc[w] = "pop"
  /\ MayVisit(w, v)
  /\ next[v] < Len(initial[v])
  /\ next' = [next EXCEPT ![v] = @ + 1]
  /\ task' = [task EXCEPT ![w] = initial[v][next[v] + 1]]
  /\ Revisit(w)
  /\ Goto(w, IF next[v] = Len(initial[v]) THEN "dec_initial"
             ELSE "set_running")
  /\ UNCHANGED <<additional, running, num_non_empty_initial,
                 num_non_empty_additional, waiter, exception, draining,
                 pushed, runs>>

PopInitial(w, v) ==
  /\ pc[w] = "pop"
  /\ MayVisit(w, v)
  /\ next[v] < Len(initial[v])
  /\ next' = [next EXCEPT ![v] = @ + 1]
  /\ task' = [task EXCEPT ![w] = initial[v][next[v] + 1]]
  /\ Revisit(w)
  /\ Goto(w, IF next[v] = Len(initial[v]) - 1 THEN "dec_initial"
             ELSE "set_running")
  /\ UNCHANGED <<additional, running, num_non_empty_initial,
                 num_non_empty_additional, waiter, exception, draining,
                 pushed, runs>>

DecInitial(w) ==
  /\ pc[w] = "dec_initial"
  /\ num_non_empty_initial' = num_non_empty_initial - 1
  /\ Goto(w, "set_running")
  /\ UNCHANGED <<next, additional, running, num_non_empty_additional, waiter,
                 exception, draining, left, task, pushed, runs>>

\* Mutant: the task is read through the new head of the list.
PopAdditional_NewHead(w, v) ==
  /\ pc[w] = "pop"
  /\ MayVisit(w, v)
  /\ next[v] >= Len(initial[v])
  /\ additional[v] # <<>>
  /\ task' = [task EXCEPT ![w] =
                additional[v][IF Len(additional[v]) = 1 THEN 1 ELSE 2]]
  /\ additional' = [additional EXCEPT ![v] = Tail(@)]
  /\ Revisit(w)
  /\ Goto(w, IF Len(additional[v]) = 1 THEN "dec_additional"
             ELSE "set_running")
  /\ UNCHANGED <<next, running, num_non_empty_initial,
                 num_non_empty_additional, waiter, exception, draining,
                 pushed, runs>>

PopAdditional(w, v) ==
  /\ pc[w] = "pop"
  /\ MayVisit(w, v)
  /\ next[v] >= Len(initial[v])
  /\ additional[v] # <<>>
  /\ task' = [task EXCEPT ![w] = Head(additional[v])]
  /\ additional' = [additional EXCEPT ![v] = Tail(@)]
  /\ Revisit(w)
  /\ Goto(w, IF Len(additional[v]) = 1 THEN "dec_additional"
             ELSE "set_running")
  /\ UNCHANGED <<next, running, num_non_empty_initial,
                 num_non_empty_additional, waiter, exception, draining,
                 pushed, runs>>

DecAdditional(w) ==
  /\ pc[w] = "dec_additional"
  /\ num_non_empty_additional' = num_non_empty_additional - 1
  /\ Goto(w, "set_running")
  /\ UNCHANGED <<next, additional, running, num_non_empty_initial, waiter,
                 exception, draining, left, task, pushed, runs>>

\* set_running(true) and the return of pop_task: the task is executed, or
\* thrown away by the worker that empties the queues.
PopReturn(w) ==
  /\ pc[w] = "set_running"
  /\ SetRunning(w, TRUE)
  /\ \/ /\ ~draining[w]
        /\ Goto(w, "exec")
        /\ runs' = [runs EXCEPT ![task[w]] = @ + 1]
        /\ UNCHANGED task
     \/ /\ draining[w]
        /\ Goto(w, "pop")
        /\ task' = [task EXCEPT ![w] = NoTask]
        /\ UNCHANGED runs
  /\ UNCHANGED <<next, additional, num_non_empty_initial,
                 num_non_empty_additional, waiter, exception, draining, left,
                 pushed>>

\* pop_task returns none.
PopNone(w, v) ==
  /\ pc[w] = "pop"
  /\ MayVisit(w, v)
  /\ next[v] >= Len(initial[v])
  /\ additional[v] = <<>>
  /\ left' = [left EXCEPT ![w] = IF @ = {v} THEN Worker ELSE @ \ {v}]
  /\ Goto(w, IF left[w] # {v} THEN "pop"
             ELSE IF draining[w] THEN "drained" ELSE "idle")
  /\ UNCHANGED <<next, additional, running, num_non_empty_initial,
                 num_non_empty_additional, waiter, exception, draining, task,
                 pushed, runs>>
-----------------------------------------------------------------------------
(***************************************************************************)
(* The executor: it pushes its tasks on the list of its own worker, and    *)
(* then returns or throws.                                                 *)
(***************************************************************************)
NextPush(w) == Spawn[task[w]][pushed[w] + 1]

\* push_task on an empty list counts the list before it adds the node.
PushIncrement(w) ==
  /\ pc[w] = "exec"
  /\ can_push
  /\ pushed[w] < Len(Spawn[task[w]])
  /\ additional[w] = <<>>
  /\ num_non_empty_additional' = num_non_empty_additional + 1
  /\ Goto(w, "push_cas")
  /\ UNCHANGED <<next, additional, running, num_non_empty_initial, waiter,
                 exception, draining, left, task, pushed, runs>>

PushNode(w) ==
  /\ \/ pc[w] = "push_cas"
     \/ /\ pc[w] = "exec"
        /\ can_push
        /\ pushed[w] < Len(Spawn[task[w]])
        /\ additional[w] # <<>>
  /\ additional' = [additional EXCEPT ![w] = <<NextPush(w)>> \o @]
  /\ pushed' = [pushed EXCEPT ![w] = @ + 1]
  /\ Goto(w, "push_wake")
  /\ UNCHANGED <<next, running, num_non_empty_initial,
                 num_non_empty_additional, waiter, exception, draining, left,
                 task, runs>>

PushWake(w) ==
  /\ pc[w] = "push_wake"
  /\ Goto(w, IF num_running < NumThreads THEN "push_give" ELSE "exec")
  /\ UNCHANGED <<next, additional, running, num_non_empty_initial,
                 num_non_empty_additional, waiter, exception, draining, left,
                 task, pushed, runs>>

PushGive(w) ==
  /\ pc[w] = "push_give"
  /\ waiter' = waiter + 1
  /\ Goto(w, "exec")
  /\ UNCHANGED <<next, additional, running, num_non_empty_initial,
                 num_non_empty_additional, exception, draining, left, task,
                 pushed, runs>>

Return(w) ==
  /\ pc[w] = "exec"
  /\ pushed[w] = Len(Spawn[task[w]])
  /\ task' = [task EXCEPT ![w] = NoTask]
  /\ pushed' = [pushed EXCEPT ![w] = 0]
  /\ Goto(w, "pop")
  /\ UNCHANGED <<next, additional, running, num_non_empty_initial,
                 num_non_empty_additional, waiter, exception, draining, left,
                 runs>>

\* The executor throws, or push_task does because the queue accepts no tasks.
Throw(w) ==
  /\ pc[w] = "exec"
  /\ task[w] \in MayThrow \/ (~can_push /\ pushed[w] < Len(Spawn[task[w]]))
  /\ task' = [task EXCEPT ![w] = NoTask]
  /\ pushed' = [pushed EXCEPT ![w] = 0]
  /\ Goto(w, "catch")
  /\ UNCHANGED <<next, additional, running, num_non_empty_initial,
                 num_non_empty_additional, waiter, exception, draining, left,
                 runs>>
-----------------------------------------------------------------------------
(***************************************************************************)
(* The worker found nothing: it stops running, and quits if that leaves no *)
(* work, judging by three counters that it reads one after the other.      *)
(***************************************************************************)
Idle(w) ==
  /\ pc[w] = "idle"
  /\ SetRunning(w, FALSE)
  /\ Goto(w, IF can_push THEN "test_running" ELSE "done")
  /\ UNCHANGED <<next, additional, num_non_empty_initial,
                 num_non_empty_additional, waiter, exception, draining, left,
                 task, pushed, runs>>

TestRunning(w) ==
  /\ pc[w] = "test_running"
  /\ Goto(w, IF num_running = 0 THEN "test_initial" ELSE "take")
  /\ UNCHANGED <<next, additional, running, num_non_empty_initial,
                 num_non_empty_additional, waiter, exception, draining, left,
                 task, pushed, runs>>

TestInitial(w) ==
  /\ pc[w] = "test_initial"
  /\ Goto(w, IF num_non_empty_initial = 0 THEN "test_additional" ELSE "take")
  /\ UNCHANGED <<next, additional, running, num_non_empty_initial,
                 num_non_empty_additional, waiter, exception, draining, left,
                 task, pushed, runs>>

TestAdditional(w) ==
  /\ pc[w] = "test_additional"
  /\ Goto(w, IF num_non_empty_additional = 0 THEN "quit" ELSE "take")
  /\ UNCHANGED <<next, additional, running, num_non_empty_initial,
                 num_non_empty_additional, waiter, exception, draining, left,
                 task, pushed, runs>>

\* Wake up everyone who might be waiting, and return.
Quit(w) ==
  /\ pc[w] = "quit"
  /\ waiter' = waiter + NumThreads
  /\ Goto(w, "done")
  /\ UNCHANGED <<next, additional, running, num_non_empty_initial,
                 num_non_empty_additional, exception, draining, left, task,
                 pushed, runs>>

\* Semaphore::take, and the next round.
Take(w) ==
  /\ pc[w] = "take"
  /\ waiter > 0
  /\ waiter' = waiter - 1
  /\ Goto(w, "pop")
  /\ UNCHANGED <<next, additional, running, num_non_empty_initial,
                 num_non_empty_additional, exception, draining, left, task,
                 pushed, runs>>
-----------------------------------------------------------------------------
(***************************************************************************)
(* The exception handler of a worker.  The first one is recorded and its   *)
(* worker steals all tasks; a later one only stops its worker.             *)
(***************************************************************************)
\* Mutant: the exception is not kept.
CatchFirst_Forgotten(w) ==
  /\ pc[w] = "catch"
  /\ ~exception
  /\ draining' = [draining EXCEPT ![w] = TRUE]
  /\ Goto(w, "pop")
  /\ UNCHANGED <<next, additional, running, num_non_empty_initial,
                 num_non_empty_additional, waiter, exception, left, task,
                 pushed, runs>>

CatchFirst(w) ==
  /\ pc[w] = "catch"
  /\ ~exception
  /\ exception' = TRUE
  /\ draining' = [draining EXCEPT ![w] = TRUE]
  /\ Goto(w, "pop")
  /\ UNCHANGED <<next, additional, running, num_non_empty_initial,
                 num_non_empty_additional, waiter, left, task, pushed, runs>>

CatchLater(w) ==
  /\ pc[w] = "catch"
  /\ exception
  /\ SetRunning(w, FALSE)
  /\ Goto(w, "done")
  /\ UNCHANGED <<next, additional, num_non_empty_initial,
                 num_non_empty_additional, waiter, exception, draining, left,
                 task, pushed, runs>>

Drained(w) ==
  /\ pc[w] = "drained"
  /\ SetRunning(w, FALSE)
  /\ Goto(w, "drain_give")
  /\ UNCHANGED <<next, additional, num_non_empty_initial,
                 num_non_empty_additional, waiter, exception, draining, left,
                 task, pushed, runs>>

\* Mutant: the workers that wait are not told.
DrainGive_Silent(w) ==
  /\ pc[w] = "drain_give"
  /\ Goto(w, "done")
  /\ UNCHANGED <<next, additional, running, num_non_empty_initial,
                 num_non_empty_additional, waiter, exception, draining, left,
                 task, pushed, runs>>

DrainGive(w) ==
  /\ pc[w] = "drain_give"
  /\ waiter' = waiter + NumThreads
  /\ Goto(w, "done")
  /\ UNCHANGED <<next, additional, running, num_non_empty_initial,
                 num_non_empty_additional, exception, draining, left, task,
                 pushed, runs>>
-----------------------------------------------------------------------------
AllDone == \A w \in Worker : pc[w] = "done"

\* run_in_parallel returns when every worker has returned.
Finished == AllDone /\ UNCHANGED vars

WorkerStep(w) ==
  /\ \/ \E v \in Worker :
          PopInitial(w, v) \/ PopAdditional(w, v) \/ PopNone(w, v)
     \/ DecInitial(w) \/ DecAdditional(w) \/ PopReturn(w)
     \/ PushIncrement(w) \/ PushNode(w) \/ PushWake(w) \/ PushGive(w)
     \/ Return(w) \/ Throw(w)
     \/ Idle(w) \/ TestRunning(w) \/ TestInitial(w) \/ TestAdditional(w)
     \/ Quit(w) \/ Take(w)
     \/ CatchFirst(w) \/ CatchLater(w) \/ Drained(w) \/ DrainGive(w)
  /\ UNCHANGED queue

Next == (\E w \in Worker : WorkerStep(w)) \/ Finished

Spec == Init /\ [][Next]_vars

\* Every worker runs on a thread of its own, which the system schedules.
FairSpec == Spec /\ \A w \in Worker : WF_vars(WorkerStep(w))
-----------------------------------------------------------------------------
(***************************************************************************)
(* Properties.                                                             *)
(***************************************************************************)
HasInitial(w) == next[w] < Len(initial[w])

\* Task t waits in the queue of worker w.
Queued(w, t) ==
  \/ \E i \in next[w] + 1 .. Len(initial[w]) : initial[w][i] = t
  \/ \E i \in 1 .. Len(additional[w]) : additional[w][i] = t

\* Worker w has taken t out of a queue and has not yet passed it on.
Popped(w, t) == pc[w] \in PopPC /\ task[w] = t

Executing(w, t) == pc[w] \in ExecPC /\ task[w] = t

\* The counters that let a worker quit lag behind the queues only by the
\* workers that are between the queue and the counter: in pop_task after the
\* last task was taken, in push_task before the first one is added.  So they
\* never wrap below zero, which the checks on fetch_sub's result state.
CountersExact ==
  /\ num_non_empty_initial =
       Cardinality({w \in Worker : HasInitial(w)})
       + Cardinality({w \in Worker : pc[w] = "dec_initial"})
  /\ num_non_empty_additional =
       Cardinality({w \in Worker : additional[w] # <<>>})
       + Cardinality({w \in Worker : pc[w] = "push_cas"})
       + Cardinality({w \in Worker : pc[w] = "dec_additional"})

\* However the workers steal from one another while the owner pushes, the
\* executor is called at most once on each task.
RunsAtMostOnce == \A t \in Task : runs[t] <= 1

\* When the workers have returned without an exception, the checks at the end
\* of run_all succeed: no worker is running, no queue holds a task; and every
\* task that was added, or pushed by a task that ran, has run.
NothingLeftBehind ==
  AllDone =>
    /\ \A w \in Worker : ~running[w]
    /\ ~exception =>
         /\ \A w \in Worker : ~HasInitial(w) /\ additional[w] = <<>>
         /\ \A w \in Worker : \A i \in 1 .. Len(initial[w]) :
              runs[initial[w][i]] = 1
         /\ \A t \in Task : runs[t] = 1 =>
              \A i \in 1 .. Len(Spawn[t]) : runs[Spawn[t][i]] = 1

\* Every worker returns, so run_all does: nobody waits forever on the
\* semaphore, whether the last task ends normally or in an exception.
RunAllReturns == <>AllDone

\* The contract: run_all is a pool that runs each task once and returns when
\* none is left, or after an exception.
Pool == INSTANCE WorkPool WITH
  added <- {t \in Task : \E w \in Worker :
              \E i \in 1 .. Len(initial[w]) : initial[w][i] = t},
  todo <- {t \in Task : \E w \in Worker : Queued(w, t) \/ Popped(w, t)},
  active <- {t \in Task : \E w \in Worker : Executing(w, t)},
  ended <- {t \in Task : runs[t] > 0 /\ \A w \in Worker : ~Executing(w, t)},
  failed <- exception \/ \E w \in Worker : pc[w] = "catch",
  returned <- AllDone

PoolSpec == Pool!Spec
=============================================================================

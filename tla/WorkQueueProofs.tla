--------------------------- MODULE WorkQueueProofs --------------------------
(***************************************************************************)
(* Proofs about WorkQueue, for every number of workers, every way the      *)
(* tasks are dealt to them, whatever the tasks push and whichever throw:   *)
(* what the place of a worker says of its own variables, and why a worker  *)
(* that stops leaves its own queue empty; that the counters are exact; and *)
(* where the tasks are, so that none runs twice and none is left behind.   *)
(* WorkQueuePoolProofs builds on it.                                       *)
(***************************************************************************)
EXTENDS WorkQueue, FiniteSetTheorems, TLAPS

\* First-order steps go to Zenon; a step about numbers or updated functions
\* names SMT.
USE Zenon

\* The type invariant without the counters, whose range follows from
\* CountersExact.
Types ==
  /\ [can_push |-> can_push, initial |-> initial] \in Queues
  /\ next \in [Worker -> Nat]
  /\ \A w \in Worker : next[w] <= Len(initial[w])
  /\ additional \in [Worker -> Seq(Task)]
  /\ running \in [Worker -> BOOLEAN]
  /\ waiter \in Nat
  /\ exception \in BOOLEAN
  /\ pc \in [Worker -> PC]
  /\ draining \in [Worker -> BOOLEAN]
  /\ left \in [Worker -> SUBSET Worker]
  /\ task \in [Worker -> Task \cup {NoTask}]
  /\ pushed \in [Worker -> Nat]
  /\ runs \in [Task -> Nat]

Stopped == {"test_running", "test_initial", "test_additional", "quit", "take",
            "drain_give", "done"}

\* What the place of a worker says of its own variables.
ControlOf(w) ==
  /\ pc[w] \in PopPC \cup ExecPC <=> task[w] # NoTask
  /\ pc[w] \in ExecPC => pushed[w] <= Len(Spawn[task[w]])
  /\ pc[w] \notin ExecPC => pushed[w] = 0
  /\ pc[w] \in ExecPC \cup {"catch"} => ~draining[w]
  /\ pc[w] = "push_cas" => /\ additional[w] = <<>>
                           /\ can_push
                           /\ pushed[w] < Len(Spawn[task[w]])
  /\ draining[w] => exception
  /\ pc[w] \in Stopped => ~running[w]

Control == \A w \in Worker : ControlOf(w)

\* A worker goes on until its own queue is empty, unless it throws: nobody
\* else adds to that queue, and it looks there first in every round.
OwnQueueOf(w) ==
  /\ pc[w] # "pop" /\ ~draining[w] => w \in left[w]
  /\ HasInitial(w) \/ additional[w] # <<>> =>
       \/ draining[w]
       \/ pc[w] \in PopPC \cup ExecPC \cup {"catch"}
       \/ pc[w] = "pop" /\ w \in left[w]
       \/ pc[w] = "done" /\ exception

OwnQueueFirst == \A w \in Worker : OwnQueueOf(w)
-----------------------------------------------------------------------------
\* What the proofs use of sequences.
LEMMA SeqLen ==
  ASSUME NEW S, NEW s \in Seq(S)
  PROVE  Len(s) \in Nat /\ s \in [1 .. Len(s) -> S] /\ DOMAIN s = 1 .. Len(s)
BY SMT

LEMMA SeqElement ==
  ASSUME NEW S, NEW s \in Seq(S), NEW i \in 1 .. Len(s)
  PROVE  s[i] \in S
BY SMT

LEMMA SeqEmpty ==
  ASSUME NEW S
  PROVE  <<>> \in Seq(S) /\ \A s \in Seq(S) : s = <<>> <=> Len(s) = 0
BY SMT

LEMMA SeqHeadTail ==
  ASSUME NEW S, NEW s \in Seq(S), s # <<>>
  PROVE  /\ Head(s) \in S /\ Head(s) = s[1]
         /\ Tail(s) \in Seq(S) /\ Len(Tail(s)) = Len(s) - 1
         /\ \A i \in 1 .. Len(Tail(s)) : Tail(s)[i] = s[i + 1]
BY SMT
-----------------------------------------------------------------------------
LEMMA ConstantTypes ==
  ASSUME Types
  PROVE  /\ can_push \in BOOLEAN
         /\ initial \in [Worker -> Seq(Task)]
         /\ \A w \in Worker : Len(initial[w]) \in Nat /\ Len(additional[w]) \in Nat
         /\ \A t \in Task : Spawn[t] \in Seq(Task) /\ Len(Spawn[t]) \in Nat
         /\ NoTask \notin Task
<1> DEFINE q == [can_push |-> can_push, initial |-> initial]
<1>1. q \in [can_push : BOOLEAN, initial : [Worker -> Seq(Task)]]
  BY QueueAssumption DEF Types
<1>2. can_push \in BOOLEAN /\ initial \in [Worker -> Seq(Task)]
  <2>1. q.can_push \in BOOLEAN /\ q.initial \in [Worker -> Seq(Task)]
    BY <1>1
  <2> QED
    BY <2>1
<1> QED
  BY <1>2, QueueAssumption, SeqLen DEF Types
-----------------------------------------------------------------------------
\* The steps that leave the queues, the tasks in hand and the history alone.
Waits(w) == Idle(w) \/ TestRunning(w) \/ TestInitial(w) \/ TestAdditional(w) \/ Quit(w) \/ Take(w)
Handles(w) == CatchFirst(w) \/ CatchLater(w) \/ Drained(w) \/ DrainGive(w)
Counts(w) == DecInitial(w) \/ DecAdditional(w)
Wakes(w) == PushIncrement(w) \/ PushWake(w) \/ PushGive(w)
Bookkeeping(w) ==
  Waits(w) \/ Handles(w) \/ Counts(w) \/ Wakes(w) \/ \E v \in Worker : PopNone(w, v)

LEMMA Split ==
  ASSUME NEW w \in Worker, WorkerStep(w)
  PROVE  /\ \/ Bookkeeping(w)
            \/ \E v \in Worker : PopInitial(w, v) \/ PopAdditional(w, v)
            \/ PopReturn(w) \/ PushNode(w) \/ Return(w) \/ Throw(w)
         /\ can_push' = can_push /\ initial' = initial
BY DEF WorkerStep, Bookkeeping, Waits, Handles, Counts, Wakes, queue

LEMMA BookkeepingFrame ==
  ASSUME NEW w \in Worker, Bookkeeping(w)
  PROVE  UNCHANGED <<next, additional, task, pushed, runs>>
BY DEF Bookkeeping, Waits, Handles, Counts, Wakes, PopNone, Idle, TestRunning, TestInitial,
       TestAdditional, Quit, Take, CatchFirst, CatchLater, Drained, DrainGive, DecInitial,
       DecAdditional, PushIncrement, PushWake, PushGive

\* Every step moves one worker.
LEMMA Moves ==
  ASSUME Types, NEW w \in Worker, WorkerStep(w)
  PROVE  /\ pc' \in [Worker -> PC]
         /\ pc' = [pc EXCEPT ![w] = pc'[w]]
<1>1. pc \in [Worker -> PC]
  BY DEF Types
<1>2. \E l \in PC : Goto(w, l)
  <2> USE DEF PC, PopPC, ExecPC
  <2>1. CASE Waits(w)
    BY <2>1 DEF Waits, Idle, TestRunning, TestInitial, TestAdditional, Quit, Take
  <2>2. CASE Handles(w)
    BY <2>2 DEF Handles, CatchFirst, CatchLater, Drained, DrainGive
  <2>3. CASE Counts(w) \/ Wakes(w)
    BY <2>3 DEF Counts, Wakes, DecInitial, DecAdditional, PushIncrement, PushWake, PushGive
  <2>4. CASE \E v \in Worker : PopNone(w, v)
    BY <2>4 DEF PopNone
  <2>5. CASE \E v \in Worker : PopInitial(w, v) \/ PopAdditional(w, v)
    BY <2>5 DEF PopInitial, PopAdditional
  <2>6. CASE PopReturn(w) \/ PushNode(w) \/ Return(w) \/ Throw(w)
    BY <2>6 DEF PopReturn, PushNode, Return, Throw
  <2> QED
    BY <2>1, <2>2, <2>3, <2>4, <2>5, <2>6, Split DEF Bookkeeping
<1> QED
  BY <1>1, <1>2 DEF Goto

LEMMA BookkeepingTypes ==
  ASSUME Types, NEW w \in Worker, WorkerStep(w), Bookkeeping(w)
  PROVE  Types'
<1>1. /\ NumThreads \in Nat
      /\ running \in [Worker -> BOOLEAN]
      /\ waiter \in Nat
      /\ exception \in BOOLEAN
      /\ draining \in [Worker -> BOOLEAN]
      /\ left \in [Worker -> SUBSET Worker]
  BY QueueAssumption DEF Types
<1>2. running' = running \/ running' = [running EXCEPT ![w] = FALSE]
  BY DEF Bookkeeping, Waits, Handles, Counts, Wakes, PopNone, Idle, TestRunning, TestInitial,
         TestAdditional, Quit, Take, CatchFirst, CatchLater, Drained, DrainGive, DecInitial,
         DecAdditional, PushIncrement, PushWake, PushGive, SetRunning
<1>3. waiter' = waiter \/ waiter' = waiter + NumThreads \/ waiter' = waiter + 1
        \/ (waiter > 0 /\ waiter' = waiter - 1)
  BY DEF Bookkeeping, Waits, Handles, Counts, Wakes, PopNone, Idle, TestRunning, TestInitial,
         TestAdditional, Quit, Take, CatchFirst, CatchLater, Drained, DrainGive, DecInitial,
         DecAdditional, PushIncrement, PushWake, PushGive
<1>4. \/ exception' = exception /\ draining' = draining
      \/ exception' = TRUE /\ draining' = [draining EXCEPT ![w] = TRUE]
  BY DEF Bookkeeping, Waits, Handles, Counts, Wakes, PopNone, Idle, TestRunning, TestInitial,
         TestAdditional, Quit, Take, CatchFirst, CatchLater, Drained, DrainGive, DecInitial,
         DecAdditional, PushIncrement, PushWake, PushGive
<1>5. left' = left \/ \E v \in Worker :
        left' = [left EXCEPT ![w] = IF @ = {v} THEN Worker ELSE @ \ {v}]
  BY DEF Bookkeeping, Waits, Handles, Counts, Wakes, PopNone, Idle, TestRunning, TestInitial,
         TestAdditional, Quit, Take, CatchFirst, CatchLater, Drained, DrainGive, DecInitial,
         DecAdditional, PushIncrement, PushWake, PushGive
<1>6. running' \in [Worker -> BOOLEAN]
  BY <1>1, <1>2
<1>7. waiter' \in Nat
  BY <1>1, <1>3, SMT
<1>8. exception' \in BOOLEAN /\ draining' \in [Worker -> BOOLEAN]
  BY <1>1, <1>4
<1>9. left' \in [Worker -> SUBSET Worker]
  BY <1>1, <1>5, SMT
<1> QED
  BY <1>6, <1>7, <1>8, <1>9, BookkeepingFrame, Moves, Split DEF Types

LEMMA PopTypes ==
  ASSUME Types, NEW w \in Worker, NEW v \in Worker, WorkerStep(w),
         PopInitial(w, v) \/ PopAdditional(w, v)
  PROVE  Types'
<1> USE DEF Goto, PC, PopPC, ExecPC
<1>0. UNCHANGED <<can_push, initial, running, waiter, exception, draining, pushed, runs>>
  BY Split DEF PopInitial, PopAdditional
<1>1. pc' \in [Worker -> PC]
  BY Moves
<1>2. left' \in [Worker -> SUBSET Worker]
  <2>1. left \in [Worker -> SUBSET Worker]
    BY DEF Types
  <2>2. left' = [left EXCEPT ![w] = IF draining[w] THEN left[w] ELSE Worker]
    BY DEF PopInitial, PopAdditional, Revisit
  <2> QED
    BY <2>1, <2>2
<1>3. CASE PopInitial(w, v)
  <2>0. /\ next \in [Worker -> Nat] /\ \A u \in Worker : next[u] <= Len(initial[u])
        /\ next' = [next EXCEPT ![v] = @ + 1] /\ next[v] < Len(initial[v])
    BY <1>3 DEF Types, PopInitial
  <2>1. next[v] + 1 \in 1 .. Len(initial[v]) /\ initial[v] \in Seq(Task)
    <3>1. next[v] \in Nat /\ Len(initial[v]) \in Nat /\ initial[v] \in Seq(Task)
      BY <2>0, ConstantTypes
    <3> QED
      BY <2>0, <3>1, SMT
  <2>2. initial[v][next[v] + 1] \in Task
    BY <2>1, SeqElement
  <2>3. task' \in [Worker -> Task \cup {NoTask}] /\ additional' = additional
    BY <1>3, <2>2 DEF Types, PopInitial
  <2>4. next' \in [Worker -> Nat] /\ \A u \in Worker : next'[u] <= Len(initial[u])
    BY <2>0, ConstantTypes, SMT
  <2> QED
    BY <1>0, <1>1, <1>2, <2>3, <2>4 DEF Types
<1>4. CASE PopAdditional(w, v)
  <2>1. Head(additional[v]) \in Task /\ Tail(additional[v]) \in Seq(Task)
    BY <1>4, SeqHeadTail DEF Types, PopAdditional
  <2>2. /\ task' \in [Worker -> Task \cup {NoTask}]
        /\ additional' \in [Worker -> Seq(Task)]
        /\ next' = next
    BY <1>4, <2>1 DEF Types, PopAdditional
  <2> QED
    BY <1>0, <1>1, <1>2, <2>2 DEF Types
<1> QED
  BY <1>3, <1>4

\* The task that a push adds.
LEMMA PushTypes ==
  ASSUME Types, Control, NEW w \in Worker, PushNode(w)
  PROVE  /\ pc[w] \in ExecPC /\ can_push
         /\ task[w] \in Task
         /\ pushed[w] + 1 \in 1 .. Len(Spawn[task[w]])
         /\ NextPush(w) \in Task
<1>1. pc[w] \in ExecPC /\ can_push /\ pushed[w] < Len(Spawn[task[w]])
  BY DEF PushNode, Control, ControlOf, ExecPC
<1>2. task[w] \in Task
  BY <1>1 DEF Control, ControlOf, Types
<1>3. pushed[w] + 1 \in 1 .. Len(Spawn[task[w]])
  BY <1>1, <1>2, ConstantTypes, SMT DEF Types
<1>4. NextPush(w) \in Task
  BY <1>2, <1>3, ConstantTypes, SeqElement DEF NextPush
<1> QED
  BY <1>1, <1>2, <1>3, <1>4

LEMMA TypesStep ==
  ASSUME Types, Control, NEW w \in Worker, WorkerStep(w)
  PROVE  Types'
<1>0. UNCHANGED <<can_push, initial>>
  BY Split
<1>1. CASE PopReturn(w)
  <2>1. task[w] \in Task
    BY <1>1 DEF PopReturn, Control, ControlOf, Types, PopPC
  <2>0. running \in [Worker -> BOOLEAN] /\ runs \in [Task -> Nat]
        /\ task \in [Worker -> Task \cup {NoTask}]
    BY DEF Types
  <2>2. runs' \in [Task -> Nat] /\ task' \in [Worker -> Task \cup {NoTask}]
    BY <1>1, <2>0, <2>1, SMT DEF PopReturn
  <2>3. pc' \in [Worker -> PC] /\ running' \in [Worker -> BOOLEAN]
    BY <1>1, <2>0, Moves DEF PopReturn, SetRunning
  <2>4. UNCHANGED <<next, additional, waiter, exception, draining, left, pushed>>
    BY <1>1 DEF PopReturn
  <2> QED
    BY <1>0, <2>2, <2>3, <2>4 DEF Types
<1>2. CASE PushNode(w)
  <2>1. <<NextPush(w)>> \o additional[w] \in Seq(Task)
    BY <1>2, PushTypes, SMT DEF Types
  <2>2. /\ additional' \in [Worker -> Seq(Task)] /\ pushed' \in [Worker -> Nat]
        /\ pc' \in [Worker -> PC]
    BY <1>2, <2>1, Moves, SMT DEF PushNode, Types
  <2>3. UNCHANGED <<next, running, waiter, exception, draining, left, task, runs>>
    BY <1>2 DEF PushNode
  <2> QED
    BY <1>0, <2>2, <2>3 DEF Types
<1>3. CASE Return(w) \/ Throw(w)
  <2>0. task \in [Worker -> Task \cup {NoTask}] /\ pushed \in [Worker -> Nat]
    BY DEF Types
  <2>1. /\ task' \in [Worker -> Task \cup {NoTask}]
        /\ pushed' \in [Worker -> Nat]
        /\ pc' \in [Worker -> PC]
    BY <1>3, <2>0, Moves, SMT DEF Return, Throw
  <2>2. UNCHANGED <<next, additional, running, waiter, exception, draining, left, runs>>
    BY <1>3 DEF Return, Throw
  <2> QED
    BY <1>0, <2>1, <2>2 DEF Types
<1> QED
  BY <1>1, <1>2, <1>3, BookkeepingTypes, PopTypes, Split
-----------------------------------------------------------------------------
\* A step of w leaves the variables of another worker alone, except that it
\* may take a task from its queue.
LEMMA Others ==
  ASSUME Types, NEW w \in Worker, WorkerStep(w), NEW u \in Worker, u # w
  PROVE  /\ pc'[u] = pc[u]
         /\ task'[u] = task[u]
         /\ pushed'[u] = pushed[u]
         /\ draining'[u] = draining[u]
         /\ running'[u] = running[u]
         /\ left'[u] = left[u]
         /\ additional'[u] = additional[u] \/ additional[u] # <<>>
         /\ HasInitial(u)' => HasInitial(u)
         /\ exception => exception'
<1>1. /\ pc'[u] = pc[u]
      /\ UNCHANGED initial
  BY Moves, Split DEF Types
<1>2. /\ task \in [Worker -> Task \cup {NoTask}]
      /\ pushed \in [Worker -> Nat]
      /\ draining \in [Worker -> BOOLEAN]
      /\ running \in [Worker -> BOOLEAN]
      /\ left \in [Worker -> SUBSET Worker]
      /\ additional \in [Worker -> Seq(Task)]
      /\ next \in [Worker -> Nat]
      /\ Len(initial[u]) \in Nat
  BY ConstantTypes DEF Types
<1>3. CASE Bookkeeping(w)
  <2>1. UNCHANGED <<next, additional, task, pushed>>
    BY <1>3, BookkeepingFrame
  <2>2. CASE Waits(w)
    <3>1. UNCHANGED <<draining, left, exception>>
      BY <2>2 DEF Waits, Idle, TestRunning, TestInitial, TestAdditional, Quit, Take
    <3>2. running'[u] = running[u]
      BY <1>2, <2>2 DEF Waits, Idle, TestRunning, TestInitial, TestAdditional, Quit, Take, SetRunning
    <3> QED
      BY <1>1, <2>1, <3>1, <3>2 DEF HasInitial
  <2>3. CASE Handles(w)
    BY <1>1, <1>2, <2>1, <2>3, SMT
       DEF Handles, CatchFirst, CatchLater, Drained, DrainGive, SetRunning, HasInitial
  <2>4. CASE Counts(w) \/ Wakes(w)
    BY <1>1, <1>2, <2>1, <2>4, SMT
       DEF Counts, Wakes, DecInitial, DecAdditional, PushIncrement, PushWake, PushGive, HasInitial
  <2>5. CASE \E v \in Worker : PopNone(w, v)
    <3>1. left'[u] = left[u] /\ UNCHANGED <<draining, running, exception>>
      BY <1>2, <2>5 DEF PopNone
    <3> QED
      BY <1>1, <1>2, <2>1, <3>1 DEF HasInitial
  <2> QED
    BY <1>3, <2>2, <2>3, <2>4, <2>5 DEF Bookkeeping
<1>4. ASSUME NEW v \in Worker, PopInitial(w, v)
      PROVE  /\ UNCHANGED <<additional, pushed, draining, running, exception>>
             /\ task'[u] = task[u] /\ left'[u] = left[u]
             /\ HasInitial(u)' => HasInitial(u)
  BY <1>1, <1>2, <1>4 DEF PopInitial, Revisit, HasInitial
<1>5. ASSUME NEW v \in Worker, PopAdditional(w, v)
      PROVE  /\ UNCHANGED <<next, pushed, draining, running, exception>>
             /\ task'[u] = task[u] /\ left'[u] = left[u]
             /\ additional'[u] = additional[u] \/ additional[u] # <<>>
  BY <1>1, <1>2, <1>5 DEF PopAdditional, Revisit
<1>6. CASE PopReturn(w) \/ Return(w) \/ Throw(w)
  <2>1. CASE PopReturn(w)
    BY <1>1, <1>2, <2>1 DEF PopReturn, SetRunning, HasInitial
  <2>2. CASE Return(w)
    BY <1>1, <1>2, <2>2 DEF Return, HasInitial
  <2>3. CASE Throw(w)
    BY <1>1, <1>2, <2>3 DEF Throw, HasInitial
  <2> QED
    BY <1>6, <2>1, <2>2, <2>3
<1>7. CASE PushNode(w)
  BY <1>1, <1>2, <1>7 DEF PushNode, HasInitial
<1>8. CASE \E v \in Worker : PopInitial(w, v) \/ PopAdditional(w, v)
  BY <1>1, <1>4, <1>5, <1>8 DEF HasInitial
<1> QED
  BY <1>3, <1>6, <1>7, <1>8, Split

LEMMA ControlStep ==
  ASSUME Types, Control, NEW w \in Worker, WorkerStep(w)
  PROVE  Control'
<1>0. /\ ControlOf(w) /\ can_push' = can_push
      /\ pc'[w] \in PC
      /\ pc \in [Worker -> PC] /\ running \in [Worker -> BOOLEAN]
      /\ draining \in [Worker -> BOOLEAN] /\ pushed \in [Worker -> Nat]
      /\ task \in [Worker -> Task \cup {NoTask}] /\ NoTask \notin Task
      /\ \A t \in Task : Len(Spawn[t]) \in Nat
      /\ additional \in [Worker -> Seq(Task)]
  BY Moves, Split, ConstantTypes DEF Types, Control
<1>1. ASSUME NEW u \in Worker, u # w PROVE ControlOf(u)'
  <2>1. /\ pc'[u] = pc[u] /\ task'[u] = task[u] /\ pushed'[u] = pushed[u]
        /\ draining'[u] = draining[u] /\ running'[u] = running[u]
        /\ additional'[u] = additional[u] \/ additional[u] # <<>>
        /\ exception => exception'
    BY <1>1, Others
  <2>2. ControlOf(u)
    BY DEF Control
  <2> QED
    BY <1>0, <2>1, <2>2 DEF ControlOf
<1> USE DEF PopPC, ExecPC, Stopped, Goto, SetRunning
<1>2. CASE Bookkeeping(w)
  <2> SUFFICES ControlOf(w)'
    BY <1>1 DEF Control
  <2>1. UNCHANGED <<next, additional, task, pushed>>
    BY <1>2, BookkeepingFrame
  <2>2. CASE Waits(w)
    BY <1>0, <2>1, <2>2, SMT
       DEF Waits, Idle, TestRunning, TestInitial, TestAdditional, Quit, Take, ControlOf
  <2>3. CASE Handles(w)
    BY <1>0, <2>1, <2>3 DEF Handles, CatchFirst, CatchLater, Drained, DrainGive, ControlOf
  <2>4. CASE Counts(w)
    BY <1>0, <2>1, <2>4 DEF Counts, DecInitial, DecAdditional, ControlOf
  <2>5. CASE Wakes(w)
    BY <1>0, <2>1, <2>5 DEF Wakes, PushIncrement, PushWake, PushGive, ControlOf
  <2>6. CASE \E v \in Worker : PopNone(w, v)
    BY <1>0, <2>1, <2>6, SMT DEF PopNone, ControlOf
  <2> QED
    BY <1>2, <2>2, <2>3, <2>4, <2>5, <2>6 DEF Bookkeeping
<1>3. ASSUME NEW v \in Worker, PopInitial(w, v) \/ PopAdditional(w, v) PROVE ControlOf(w)'
  <2>1. /\ pc[w] = "pop" /\ pc'[w] \in PopPC
        /\ UNCHANGED <<pushed, draining, running, exception>>
    BY <1>0, <1>3 DEF PopInitial, PopAdditional
  <2>2. task'[w] \in Task
    <3>1. CASE PopInitial(w, v)
      <4>1. /\ next[v] \in Nat /\ Len(initial[v]) \in Nat /\ initial[v] \in Seq(Task)
            /\ next[v] < Len(initial[v])
        BY <3>1, ConstantTypes DEF Types, PopInitial
      <4>2. initial[v][next[v] + 1] \in Task
        BY <4>1, SeqElement, SMT
      <4> QED
        BY <1>0, <3>1, <4>2 DEF PopInitial
    <3>2. CASE PopAdditional(w, v)
      <4>1. Head(additional[v]) \in Task
        BY <1>0, <3>2, SeqHeadTail DEF PopAdditional
      <4> QED
        BY <1>0, <3>2, <4>1 DEF PopAdditional
    <3> QED
      BY <1>3, <3>1, <3>2
  <2> QED
    BY <1>0, <2>1, <2>2 DEF ControlOf
<1>4. CASE PopReturn(w)
  <2>0. /\ pc[w] = "set_running" /\ running'[w] = TRUE
        /\ UNCHANGED <<draining, exception, pushed>>
        /\ \/ ~draining[w] /\ pc'[w] = "exec" /\ task' = task
           \/ draining[w] /\ pc'[w] = "pop" /\ task'[w] = NoTask
    BY <1>0, <1>4 DEF PopReturn
  <2>1. ControlOf(w)'
    BY <1>0, <2>0, SMT DEF ControlOf
  <2> QED
    BY <1>1, <2>1 DEF Control
<1>5. CASE PushNode(w)
  <2>1. /\ pushed'[w] = pushed[w] + 1 /\ pc'[w] = "push_wake"
        /\ UNCHANGED <<running, draining, exception, task>>
    BY <1>0, <1>5 DEF PushNode
  <2>2. pushed[w] + 1 <= Len(Spawn[task[w]]) /\ pc[w] \in ExecPC
    BY <1>0, <1>5, PushTypes, SMT
  <2>3. ControlOf(w)'
    BY <1>0, <2>1, <2>2 DEF ControlOf
  <2> QED
    BY <1>1, <2>3 DEF Control
<1>6. CASE Return(w) \/ Throw(w)
  <2>1. ControlOf(w)'
    BY <1>0, <1>6 DEF Return, Throw, ControlOf
  <2> QED
    BY <1>1, <2>1 DEF Control
<1> QED
  BY <1>1, <1>2, <1>3, <1>4, <1>5, <1>6, Split DEF Control
-----------------------------------------------------------------------------
LEMMA OwnQueueStep ==
  ASSUME Types, Control, OwnQueueFirst, NEW w \in Worker, WorkerStep(w)
  PROVE  OwnQueueFirst'
<1>0. /\ ControlOf(w) /\ OwnQueueOf(w) /\ initial' = initial
      /\ pc \in [Worker -> PC]
      /\ draining \in [Worker -> BOOLEAN]
      /\ left \in [Worker -> SUBSET Worker]
      /\ next \in [Worker -> Nat]
      /\ \A u \in Worker : Len(initial[u]) \in Nat
  BY Split, ConstantTypes DEF Types, Control, OwnQueueFirst
<1> USE DEF PopPC, ExecPC, Goto
<1>1. ASSUME NEW u \in Worker, u # w PROVE OwnQueueOf(u)'
  <2>1. additional'[u] # <<>> => additional[u] # <<>>
    BY <1>1, Others
  <2>2. /\ pc'[u] = pc[u] /\ draining'[u] = draining[u] /\ left'[u] = left[u]
        /\ HasInitial(u)' => HasInitial(u)
        /\ exception => exception'
    BY <1>1, Others
  <2>3. OwnQueueOf(u)
    BY DEF OwnQueueFirst
  <2> QED
    BY <2>1, <2>2, <2>3 DEF OwnQueueOf
<1> SUFFICES OwnQueueOf(w)'
  BY <1>1 DEF OwnQueueFirst
<1>2. CASE Bookkeeping(w)
  <2>1. UNCHANGED <<next, additional>> /\ (HasInitial(w)' <=> HasInitial(w))
    BY <1>0, <1>2, BookkeepingFrame DEF HasInitial
  <2>2. CASE Waits(w)
    BY <1>0, <2>1, <2>2
       DEF Waits, Idle, TestRunning, TestInitial, TestAdditional, Quit, Take, OwnQueueOf
  <2>3. CASE Handles(w)
    <3>1. CASE CatchFirst(w)
      BY <1>0, <2>1, <3>1 DEF CatchFirst, OwnQueueOf
    <3>2. CASE CatchLater(w)
      BY <1>0, <2>1, <3>2 DEF CatchLater, OwnQueueOf
    <3>3. CASE Drained(w) \/ DrainGive(w)
      BY <1>0, <2>1, <3>3 DEF Drained, DrainGive, OwnQueueOf
    <3> QED
      BY <2>3, <3>1, <3>2, <3>3 DEF Handles
  <2>4. CASE Counts(w) \/ Wakes(w)
    BY <1>0, <2>1, <2>4
       DEF Counts, Wakes, DecInitial, DecAdditional, PushIncrement, PushWake, PushGive, OwnQueueOf
  <2>5. ASSUME NEW v \in Worker, PopNone(w, v) PROVE OwnQueueOf(w)'
    <3>1. /\ pc[w] = "pop" /\ draining' = draining /\ exception' = exception
          /\ v \in left[w]
          /\ left'[w] = IF left[w] = {v} THEN Worker ELSE left[w] \ {v}
          /\ pc'[w] = IF left[w] # {v} THEN "pop" ELSE IF draining[w] THEN "drained" ELSE "idle"
      BY <1>0, <2>5 DEF PopNone, MayVisit
    <3>2. ~draining[w] => ~HasInitial(w) /\ additional[w] = <<>>
      <4>1. CASE w \in left[w] /\ ~draining[w]
        <5>1. v = w /\ next[v] >= Len(initial[v]) /\ additional[v] = <<>>
          BY <2>5, <4>1 DEF PopNone, MayVisit
        <5> QED
          BY <1>0, <5>1, SMT DEF HasInitial
      <4>2. CASE w \notin left[w] /\ ~draining[w]
        BY <1>0, <3>1, <4>2 DEF OwnQueueOf
      <4> QED
        BY <4>1, <4>2
    <3> QED
      BY <2>1, <3>1, <3>2 DEF OwnQueueOf
  <2> QED
    BY <1>2, <2>2, <2>3, <2>4, <2>5 DEF Bookkeeping
<1>3. ASSUME NEW v \in Worker, PopInitial(w, v) \/ PopAdditional(w, v) PROVE OwnQueueOf(w)'
  <2>1. /\ pc'[w] \in PopPC
        /\ draining' = draining
        /\ left'[w] = IF draining[w] THEN left[w] ELSE Worker
    BY <1>0, <1>3 DEF PopInitial, PopAdditional, Revisit
  <2> QED
    BY <2>1 DEF OwnQueueOf
<1>4. CASE PopReturn(w)
  BY <1>0, <1>4 DEF PopReturn, OwnQueueOf
<1>5. CASE PushNode(w)
  BY <1>0, <1>5 DEF PushNode, OwnQueueOf
<1>6. CASE Return(w) \/ Throw(w)
  BY <1>0, <1>6 DEF Return, Throw, OwnQueueOf
<1> QED
  BY <1>2, <1>3, <1>4, <1>5, <1>6, Split
-----------------------------------------------------------------------------
Base == Types /\ Control /\ OwnQueueFirst

LEMMA BaseInit == Init => Base
<1> SUFFICES ASSUME Init PROVE Base
  OBVIOUS
<1>1. Types
  <2>1. PICK q \in Queues : can_push = q.can_push /\ initial = q.initial
    BY DEF Init
  <2>2. q \in [can_push : BOOLEAN, initial : [Worker -> Seq(Task)]]
    BY <2>1, QueueAssumption
  <2>3. [can_push |-> can_push, initial |-> initial] = q
    BY <2>1, <2>2
  <2>4. \A w \in Worker : 0 <= Len(initial[w])
    BY <2>1, <2>2, SeqLen, SMT
  <2> QED
    BY <2>1, <2>3, <2>4, SeqEmpty DEF Init, Types, PC
<1>2. Control
  BY DEF Init, Control, ControlOf, PopPC, ExecPC, Stopped
<1>3. OwnQueueFirst
  BY DEF Init, OwnQueueFirst, OwnQueueOf
<1> QED
  BY <1>1, <1>2, <1>3 DEF Base

LEMMA BaseNext == Base /\ [Next]_vars => Base'
<1> SUFFICES ASSUME Base, [Next]_vars PROVE Base'
  OBVIOUS
<1>1. ASSUME NEW w \in Worker, WorkerStep(w) PROVE Base'
  BY <1>1, TypesStep, ControlStep, OwnQueueStep DEF Base
<1>2. CASE UNCHANGED vars
  <2>1. Types'
    BY <1>2 DEF Base, Types, vars
  <2>2. Control'
    BY <1>2 DEF Base, Control, ControlOf, vars
  <2>3. OwnQueueFirst'
    BY <1>2 DEF Base, OwnQueueFirst, OwnQueueOf, HasInitial, vars
  <2> QED
    BY <2>1, <2>2, <2>3 DEF Base
<1> QED
  BY <1>1, <1>2 DEF Next, Finished

\* A worker is where its variables say, and goes on until its own queue is
\* empty, unless an executor has thrown.
THEOREM QueueBase == Spec => []Base
BY BaseInit, BaseNext, PTL DEF Spec
-----------------------------------------------------------------------------
\* The five sets whose sizes the counters are.
Unpopped == {u \in Worker : HasInitial(u)}
Stacked == {u \in Worker : additional[u] # <<>>}
At(l) == {u \in Worker : pc[u] = l}

LEMMA WorkersFinite ==
  ASSUME NEW S, S \subseteq Worker
  PROVE  IsFiniteSet(S) /\ Cardinality(S) \in Nat
<1>1. NumThreads \in Nat /\ 0 \in Int /\ NumThreads - 1 \in Int
  BY QueueAssumption, SMT
<1>2. IsFiniteSet(Worker)
  BY <1>1, FS_Interval DEF Worker
<1> QED
  BY <1>2, FS_Subset, FS_CardinalityType

LEMMA OneMore ==
  ASSUME NEW S, S \subseteq Worker, NEW w \in Worker, w \notin S
  PROVE  Cardinality(S \cup {w}) = Cardinality(S) + 1
BY WorkersFinite, FS_AddElement

LEMMA OneLess ==
  ASSUME NEW S, S \subseteq Worker, NEW w \in S
  PROVE  Cardinality(S \ {w}) = Cardinality(S) - 1 /\ Cardinality(S) > 0
<1>1. IsFiniteSet(S) /\ Cardinality(S) \in Nat
  BY WorkersFinite
<1>2. Cardinality(S \ {w}) = Cardinality(S) - 1
  BY <1>1, FS_RemoveElement
<1>3. Cardinality(S \ {w}) \in Nat
  BY WorkersFinite
<1> QED
  BY <1>1, <1>2, <1>3, SMT

LEMMA CountersStep ==
  ASSUME Types, Control, CountersExact, NEW w \in Worker, WorkerStep(w)
  PROVE  CountersExact'
<1> DEFINE DI == At("dec_initial")
           PC2 == At("push_cas")
           DA == At("dec_additional")
<1>0. /\ ControlOf(w) /\ initial' = initial
      /\ pc \in [Worker -> PC]
      /\ next \in [Worker -> Nat]
      /\ \A u \in Worker : next[u] <= Len(initial[u])
      /\ additional \in [Worker -> Seq(Task)]
      /\ \A u \in Worker : Len(initial[u]) \in Nat /\ Len(additional[u]) \in Nat
      /\ pc' = [pc EXCEPT ![w] = pc'[w]]
  BY Moves, Split, ConstantTypes DEF Types, Control
<1>1. /\ num_non_empty_initial = Cardinality(Unpopped) + Cardinality(DI)
      /\ num_non_empty_additional = Cardinality(Stacked) + Cardinality(PC2) + Cardinality(DA)
  BY DEF CountersExact, Unpopped, Stacked, At
<1>2. SUFFICES
        /\ num_non_empty_initial' = Cardinality(Unpopped') + Cardinality(DI')
        /\ num_non_empty_additional' = Cardinality(Stacked') + Cardinality(PC2') + Cardinality(DA')
  BY <1>2 DEF CountersExact, Unpopped, Stacked, At
<1>3. /\ Unpopped \subseteq Worker /\ Stacked \subseteq Worker
      /\ DI \subseteq Worker /\ PC2 \subseteq Worker /\ DA \subseteq Worker
  BY DEF Unpopped, Stacked, At
<1>4. /\ Cardinality(Unpopped) \in Nat /\ Cardinality(Stacked) \in Nat
      /\ Cardinality(DI) \in Nat /\ Cardinality(PC2) \in Nat /\ Cardinality(DA) \in Nat
  BY <1>3, WorkersFinite
<1>5. ASSUME NEW l PROVE At(l)' = IF pc'[w] = l THEN At(l) \cup {w} ELSE At(l) \ {w}
  BY <1>0 DEF At
<1>6. ASSUME UNCHANGED <<next, additional>> PROVE Unpopped' = Unpopped /\ Stacked' = Stacked
  BY <1>0, <1>6 DEF Unpopped, Stacked, HasInitial
<1>7. ASSUME UNCHANGED <<next, additional, num_non_empty_initial, num_non_empty_additional>>,
             pc[w] \notin {"dec_initial", "push_cas", "dec_additional"},
             pc'[w] \notin {"dec_initial", "push_cas", "dec_additional"}
      PROVE  /\ num_non_empty_initial' = Cardinality(Unpopped') + Cardinality(DI')
             /\ num_non_empty_additional'
                  = Cardinality(Stacked') + Cardinality(PC2') + Cardinality(DA')
  <2>1. DI' = DI /\ PC2' = PC2 /\ DA' = DA
    BY <1>5, <1>7, SMT DEF At
  <2> QED
    BY <1>1, <1>6, <1>7, <2>1
<1> HIDE DEF DI, PC2, DA
<1>8. CASE DecInitial(w)
  <2>1. /\ DI' = DI \ {w} /\ PC2' = PC2 /\ DA' = DA /\ w \in DI
        /\ UNCHANGED <<next, additional, num_non_empty_additional>>
        /\ num_non_empty_initial' = num_non_empty_initial - 1
    BY <1>0, <1>5, <1>8 DEF DecInitial, Goto, DI, PC2, DA, At
  <2>2. Cardinality(DI') = Cardinality(DI) - 1
    BY <1>3, <2>1, OneLess
  <2> QED
    BY <1>1, <1>4, <1>6, <2>1, <2>2, SMT
<1>9. CASE DecAdditional(w)
  <2>1. /\ DA' = DA \ {w} /\ PC2' = PC2 /\ DI' = DI /\ w \in DA
        /\ UNCHANGED <<next, additional, num_non_empty_initial>>
        /\ num_non_empty_additional' = num_non_empty_additional - 1
    BY <1>0, <1>5, <1>9 DEF DecAdditional, Goto, DI, PC2, DA, At
  <2>2. Cardinality(DA') = Cardinality(DA) - 1
    BY <1>3, <2>1, OneLess
  <2> QED
    BY <1>1, <1>4, <1>6, <2>1, <2>2, SMT
<1>10. CASE PushIncrement(w)
  <2>1. /\ PC2' = PC2 \cup {w} /\ DA' = DA /\ DI' = DI /\ w \notin PC2
        /\ UNCHANGED <<next, additional, num_non_empty_initial>>
        /\ num_non_empty_additional' = num_non_empty_additional + 1
    BY <1>0, <1>5, <1>10 DEF PushIncrement, Goto, DI, PC2, DA, At
  <2>2. Cardinality(PC2') = Cardinality(PC2) + 1
    BY <1>3, <2>1, OneMore
  <2> QED
    BY <1>1, <1>4, <1>6, <2>1, <2>2, SMT
<1>11. CASE PushNode(w)
  <2>1. /\ additional' = [additional EXCEPT ![w] = <<NextPush(w)>> \o @]
        /\ pc'[w] = "push_wake"
        /\ UNCHANGED <<next, num_non_empty_initial, num_non_empty_additional>>
    BY <1>0, <1>11 DEF PushNode, Goto
  <2>2. <<NextPush(w)>> \o additional[w] # <<>>
    BY <1>0, SMT
  <2>3. Stacked' = Stacked \cup {w}
    BY <1>0, <2>1, <2>2 DEF Stacked
  <2>4. Unpopped' = Unpopped
    BY <1>0, <2>1 DEF Unpopped, HasInitial
  <2>5. CASE pc[w] = "push_cas"
    <3>1. PC2' = PC2 \ {w} /\ DA' = DA /\ DI' = DI /\ w \in PC2
      <4>1. PC2' = PC2 \ {w} /\ w \in PC2
        BY <1>5, <2>1, <2>5 DEF PC2, At
      <4>2. DA' = DA
        BY <1>5, <2>1, <2>5 DEF DA, At
      <4>3. DI' = DI
        BY <1>5, <2>1, <2>5 DEF DI, At
      <4> QED
        BY <4>1, <4>2, <4>3
    <3>2. w \notin Stacked
      BY <1>0, <2>5 DEF ControlOf, Stacked
    <3>3. Cardinality(PC2') = Cardinality(PC2) - 1 /\ Cardinality(Stacked') = Cardinality(Stacked) + 1
      BY <1>3, <2>3, <3>1, <3>2, OneLess, OneMore
    <3> QED
      BY <1>1, <1>4, <2>1, <2>4, <3>1, <3>3, SMT
  <2>6. CASE pc[w] # "push_cas"
    <3>0. pc[w] = "exec" /\ additional[w] # <<>>
      BY <1>11, <2>6 DEF PushNode
    <3>1. PC2' = PC2 /\ DA' = DA /\ DI' = DI /\ w \in Stacked
      <4>1. PC2' = PC2
        BY <1>5, <2>1, <3>0 DEF PC2, At
      <4>2. DA' = DA
        BY <1>5, <2>1, <3>0 DEF DA, At
      <4>3. DI' = DI
        BY <1>5, <2>1, <3>0 DEF DI, At
      <4> QED
        BY <3>0, <4>1, <4>2, <4>3 DEF Stacked
    <3>2. Stacked' = Stacked
      BY <2>3, <3>1
    <3> QED
      BY <1>1, <2>1, <2>4, <3>1, <3>2
  <2> QED
    BY <2>5, <2>6
<1>12. ASSUME NEW v \in Worker, PopInitial(w, v)
       PROVE  /\ num_non_empty_initial' = Cardinality(Unpopped') + Cardinality(DI')
              /\ num_non_empty_additional'
                   = Cardinality(Stacked') + Cardinality(PC2') + Cardinality(DA')
  <2>1. /\ next' = [next EXCEPT ![v] = @ + 1] /\ next[v] < Len(initial[v])
        /\ pc[w] = "pop"
        /\ pc'[w] = IF next[v] = Len(initial[v]) - 1 THEN "dec_initial" ELSE "set_running"
        /\ UNCHANGED <<additional, num_non_empty_initial, num_non_empty_additional>>
    BY <1>0, <1>12 DEF PopInitial, Goto
  <2>2. Stacked' = Stacked /\ PC2' = PC2 /\ DA' = DA /\ v \in Unpopped
    <3>1. PC2' = PC2
      BY <1>5, <2>1 DEF PC2, At
    <3>2. DA' = DA
      BY <1>5, <2>1 DEF DA, At
    <3>3. Stacked' = Stacked
      BY <2>1 DEF Stacked
    <3>4. v \in Unpopped
      BY <2>1 DEF Unpopped, HasInitial
    <3> QED
      BY <3>1, <3>2, <3>3, <3>4
  <2>3. CASE next[v] = Len(initial[v]) - 1
    <3>1. DI' = DI \cup {w} /\ w \notin DI
      BY <1>5, <2>1, <2>3 DEF DI, At
    <3>2. Unpopped' = Unpopped \ {v}
      BY <1>0, <2>1, <2>3, SMT DEF Unpopped, HasInitial
    <3>3. Cardinality(DI') = Cardinality(DI) + 1 /\ Cardinality(Unpopped') = Cardinality(Unpopped) - 1
      BY <1>3, <2>2, <3>1, <3>2, OneLess, OneMore
    <3> QED
      BY <1>1, <1>4, <2>1, <2>2, <3>3, SMT
  <2>4. CASE next[v] # Len(initial[v]) - 1
    <3>1. DI' = DI
      BY <1>5, <2>1, <2>4 DEF DI, At
    <3>2. Unpopped' = Unpopped
      BY <1>0, <2>1, <2>4, SMT DEF Unpopped, HasInitial
    <3> QED
      BY <1>1, <2>1, <2>2, <3>1, <3>2
  <2> QED
    BY <2>3, <2>4
<1>13. ASSUME NEW v \in Worker, PopAdditional(w, v)
       PROVE  /\ num_non_empty_initial' = Cardinality(Unpopped') + Cardinality(DI')
              /\ num_non_empty_additional'
                   = Cardinality(Stacked') + Cardinality(PC2') + Cardinality(DA')
  <2>1. /\ additional' = [additional EXCEPT ![v] = Tail(@)] /\ additional[v] # <<>>
        /\ pc[w] = "pop"
        /\ pc'[w] = IF Len(additional[v]) = 1 THEN "dec_additional" ELSE "set_running"
        /\ UNCHANGED <<next, num_non_empty_initial, num_non_empty_additional>>
    BY <1>0, <1>13 DEF PopAdditional, Goto
  <2>2. Unpopped' = Unpopped /\ PC2' = PC2 /\ DI' = DI /\ v \in Stacked
    BY <1>0, <1>5, <2>1 DEF PC2, DI, At, Stacked, Unpopped, HasInitial
  <2>3. CASE Len(additional[v]) = 1
    <3>1. DA' = DA \cup {w} /\ w \notin DA
      BY <1>5, <2>1, <2>3 DEF DA, At
    <3>2. Tail(additional[v]) = <<>>
      <4>1. additional[v] \in Seq(Task) /\ additional[v] # <<>>
        BY <1>0, <2>1
      <4>2. Tail(additional[v]) \in Seq(Task) /\ Len(Tail(additional[v])) = 0
        BY <2>3, <4>1, SeqHeadTail, SMT
      <4> QED
        BY <4>2, SeqEmpty
    <3>3. Stacked' = Stacked \ {v}
      BY <1>0, <2>1, <3>2 DEF Stacked
    <3>4. Cardinality(DA') = Cardinality(DA) + 1 /\ Cardinality(Stacked') = Cardinality(Stacked) - 1
      BY <1>3, <2>2, <3>1, <3>3, OneLess, OneMore
    <3> QED
      BY <1>1, <1>4, <2>1, <2>2, <3>4, SMT
  <2>4. CASE Len(additional[v]) # 1
    <3>1. DA' = DA
      BY <1>5, <2>1, <2>4 DEF DA, At
    <3>2. Tail(additional[v]) # <<>>
      <4>1. Len(additional[v]) # 0 /\ Len(Tail(additional[v])) = Len(additional[v]) - 1
        BY <1>0, <2>1, SeqHeadTail, SeqEmpty, SMT
      <4>2. Len(Tail(additional[v])) # 0
        BY <1>0, <2>4, <4>1, SMT
      <4>3. Tail(additional[v]) \in Seq(Task)
        BY <1>0, <2>1, SeqHeadTail
      <4> QED
        BY <4>2, <4>3, SeqEmpty
    <3>3. Stacked' = Stacked
      BY <1>0, <2>1, <3>2 DEF Stacked
    <3> QED
      BY <1>1, <2>1, <2>2, <3>1, <3>3
  <2> QED
    BY <2>3, <2>4
<1>14. CASE Waits(w) \/ Handles(w) \/ PushWake(w) \/ PushGive(w) \/ PopReturn(w) \/ Return(w) \/ Throw(w)
  <2>1. UNCHANGED <<next, additional, num_non_empty_initial, num_non_empty_additional>>
    BY <1>14 DEF Waits, Idle, TestRunning, TestInitial, TestAdditional, Quit, Take, Handles,
                 CatchFirst, CatchLater, Drained, DrainGive, PushWake, PushGive, PopReturn,
                 Return, Throw
  <2>2. /\ pc[w] \notin {"dec_initial", "push_cas", "dec_additional"}
        /\ pc'[w] \notin {"dec_initial", "push_cas", "dec_additional"}
    BY <1>0, <1>14
       DEF Waits, Idle, TestRunning, TestInitial, TestAdditional, Quit, Take, Handles,
           CatchFirst, CatchLater, Drained, DrainGive, PushWake, PushGive, PopReturn,
           Return, Throw, Goto
  <2> QED
    BY <1>7, <2>1, <2>2
<1>15. CASE \E v \in Worker : PopNone(w, v)
  <2>1. /\ UNCHANGED <<next, additional, num_non_empty_initial, num_non_empty_additional>>
        /\ pc[w] \notin {"dec_initial", "push_cas", "dec_additional"}
        /\ pc'[w] \notin {"dec_initial", "push_cas", "dec_additional"}
    BY <1>0, <1>15 DEF PopNone, Goto
  <2> QED
    BY <1>7, <2>1
<1> QED
  BY <1>8, <1>9, <1>10, <1>11, <1>12, <1>13, <1>14, <1>15, Split
     DEF Bookkeeping, Counts, Wakes

LEMMA CountersInit == Init => CountersExact
<1> SUFFICES ASSUME Init PROVE CountersExact
  OBVIOUS
<1>0. Types
  BY BaseInit DEF Base
<1>1. {w \in Worker : HasInitial(w)} = {w \in Worker : initial[w] # <<>>}
  <2>1. ASSUME NEW w \in Worker PROVE HasInitial(w) <=> initial[w] # <<>>
    <3>1. initial[w] \in Seq(Task) /\ Len(initial[w]) \in Nat /\ next[w] = 0
      BY <1>0, ConstantTypes DEF Init
    <3>2. initial[w] = <<>> <=> Len(initial[w]) = 0
      BY <3>1, SeqEmpty
    <3> QED
      BY <3>1, <3>2, SMT DEF HasInitial
  <2> QED
    BY <2>1
<1>2. {w \in Worker : pc[w] = "dec_initial"} = {} /\ {w \in Worker : pc[w] = "push_cas"} = {}
      /\ {w \in Worker : pc[w] = "dec_additional"} = {} /\ {w \in Worker : additional[w] # <<>>} = {}
  BY DEF Init
<1>3. Cardinality({}) = 0 /\ Cardinality({w \in Worker : initial[w] # <<>>}) \in Nat
  BY FS_EmptySet, WorkersFinite
<1>4. num_non_empty_initial = Cardinality({w \in Worker : HasInitial(w)})
      /\ num_non_empty_initial \in Nat /\ num_non_empty_additional = 0
  BY <1>1, <1>3 DEF Init
<1>5. num_non_empty_initial = Cardinality({w \in Worker : HasInitial(w)})
                              + Cardinality({w \in Worker : pc[w] = "dec_initial"})
  <2>1. Cardinality({w \in Worker : pc[w] = "dec_initial"}) = 0
    BY <1>2, <1>3
  <2> QED
    BY <1>4, <2>1, SMT
<1>6. num_non_empty_additional = Cardinality({w \in Worker : additional[w] # <<>>})
                                 + Cardinality({w \in Worker : pc[w] = "push_cas"})
                                 + Cardinality({w \in Worker : pc[w] = "dec_additional"})
  <2>1. /\ Cardinality({w \in Worker : pc[w] = "push_cas"}) = 0
        /\ Cardinality({w \in Worker : pc[w] = "dec_additional"}) = 0
        /\ Cardinality({w \in Worker : additional[w] # <<>>}) = 0
    BY <1>2, <1>3
  <2> QED
    BY <1>4, <2>1, SMT
<1> QED
  BY <1>5, <1>6 DEF CountersExact

LEMMA CountersNext == Base /\ CountersExact /\ [Next]_vars => CountersExact'
<1> SUFFICES ASSUME Base, CountersExact, [Next]_vars PROVE CountersExact'
  OBVIOUS
<1>1. ASSUME NEW w \in Worker, WorkerStep(w) PROVE CountersExact'
  BY <1>1, CountersStep DEF Base
<1>2. CASE UNCHANGED vars
  BY <1>2 DEF CountersExact, HasInitial, vars
<1> QED
  BY <1>1, <1>2 DEF Next, Finished

\* The counters by which a worker decides that no work is left are exact but
\* for the workers between a queue and its counter.
THEOREM QueueCounters == Spec => []CountersExact
BY CountersInit, CountersNext, QueueBase, PTL DEF Spec
-----------------------------------------------------------------------------
(***************************************************************************)
(* Where a task is: not yet pushed, in one queue, in the hands of one      *)
(* worker, or done.                                                        *)
(***************************************************************************)
Waiting(w, t) == \E i \in next[w] + 1 .. Len(initial[w]) : initial[w][i] = t
Stack(w, t) == \E i \in 1 .. Len(additional[w]) : additional[w][i] = t

\* Some task pushes t.
Spawned(t) == \E s \in Task : \E i \in 1 .. Len(Spawn[s]) : Spawn[s][i] = t

Seen(t) == \/ \E w \in Worker : Queued(w, t)
           \/ \E w \in Worker : task[w] = t
           \/ runs[t] = 1

\* t has run far enough to have pushed its i-th task.
Was(t, i) == runs[t] = 1 /\ \A w \in Worker : task[w] = t => i <= pushed[w]

Failed == exception \/ \E w \in Worker : pc[w] = "catch"

DistinctStacks ==
  \A w \in Worker : \A i, j \in 1 .. Len(additional[w]) :
    additional[w][i] = additional[w][j] => i = j

StackSpawned == \A w \in Worker, t \in Task : Stack(w, t) => Spawned(t)

OneStack == \A v, w \in Worker, t \in Task : Stack(v, t) /\ Stack(w, t) => v = w

QueuedIdle ==
  \A w \in Worker, t \in Task :
    Queued(w, t) => runs[t] = 0 /\ \A u \in Worker : task[u] # t

OneHolder == \A u, v \in Worker : task[u] = task[v] => u = v \/ task[u] = NoTask

RunsExact ==
  /\ \A t \in Task : runs[t] \in {0, 1}
  /\ \A w \in Worker : /\ pc[w] \in PopPC => runs[task[w]] = 0
                       /\ pc[w] \in ExecPC => runs[task[w]] = 1

PushedInOrder ==
  \A t \in Task : \A i \in 1 .. Len(Spawn[t]) : Seen(Spawn[t][i]) => Was(t, i)

\* Until an executor throws, no task that should be there is missing.
NothingLost ==
  ~Failed =>
    /\ \A w \in Worker : \A i \in 1 .. Len(initial[w]) : Seen(initial[w][i])
    /\ \A t \in Task : \A i \in 1 .. Len(Spawn[t]) : Was(t, i) => Seen(Spawn[t][i])

Placement ==
  /\ DistinctStacks
  /\ StackSpawned
  /\ OneStack
  /\ QueuedIdle
  /\ OneHolder
  /\ RunsExact
  /\ PushedInOrder
  /\ NothingLost

LEMMA QueuedIs ==
  ASSUME NEW w \in Worker, NEW t
  PROVE  Queued(w, t) <=> Waiting(w, t) \/ Stack(w, t)
BY DEF Queued, Waiting, Stack

\* No two added tasks are the same, and none of them is pushed.
LEMMA AddedOnce ==
  ASSUME Types, NEW v \in Worker, NEW w \in Worker,
         NEW i \in 1 .. Len(initial[v]), NEW j \in 1 .. Len(initial[w]),
         initial[v][i] = initial[w][j]
  PROVE  v = w /\ i = j
<1> DEFINE q == [can_push |-> can_push, initial |-> initial]
<1>1. q \in Queues /\ q.initial = initial
  BY DEF Types
<1> QED
  BY <1>1, TaskAssumption, SMT

LEMMA AddedNotSpawned ==
  ASSUME Types, NEW w \in Worker, NEW i \in 1 .. Len(initial[w])
  PROVE  ~Spawned(initial[w][i])
<1> DEFINE q == [can_push |-> can_push, initial |-> initial]
<1>1. q \in Queues /\ q.initial = initial
  BY DEF Types
<1> QED
  BY <1>1, TaskAssumption, SMT DEF Spawned

LEMMA WaitingRange ==
  ASSUME Types, NEW w \in Worker, NEW i \in next[w] + 1 .. Len(initial[w])
  PROVE  i \in 1 .. Len(initial[w])
<1>1. next[w] \in Nat /\ Len(initial[w]) \in Nat
  BY ConstantTypes DEF Types
<1> QED
  BY <1>1, SMT

\* A task is in one queue.
LEMMA OneQueue ==
  ASSUME Types, StackSpawned, OneStack, NEW v \in Worker, NEW w \in Worker, NEW t \in Task,
         Queued(v, t), Queued(w, t)
  PROVE  v = w /\ (Waiting(v, t) <=> Waiting(w, t)) /\ ~(Waiting(v, t) /\ Stack(w, t))
<1>1. \A u \in Worker : Waiting(u, t) => ~Spawned(t)
  BY WaitingRange, AddedNotSpawned DEF Waiting
<1>2. ASSUME Waiting(v, t), Waiting(w, t) PROVE v = w
  BY <1>2, WaitingRange, AddedOnce, SMT DEF Waiting
<1> QED
  BY <1>1, <1>2, QueuedIs DEF StackSpawned, OneStack

\* A step takes x out of the queue of v.
Takes(v, x) ==
  /\ Queued(v, x)
  /\ \A u \in Worker, t \in Task : /\ Queued(u, t)' <=> Queued(u, t) /\ t # x
                                   /\ Stack(u, t)' => Stack(u, t)

LEMMA PopInitialTakes ==
  ASSUME Types, StackSpawned, OneStack, NEW w \in Worker, NEW v \in Worker, WorkerStep(w),
         PopInitial(w, v)
  PROVE  task'[w] \in Task /\ Takes(v, task'[w])
<1> DEFINE n == next[v] + 1
           x == initial[v][n]
<1>1. /\ next[v] \in Nat /\ Len(initial[v]) \in Nat /\ initial[v] \in Seq(Task)
      /\ next[v] < Len(initial[v]) /\ next \in [Worker -> Nat]
      /\ task \in [Worker -> Task \cup {NoTask}]
  BY ConstantTypes DEF Types, PopInitial
<1>2. n \in 1 .. Len(initial[v]) /\ n \in next[v] + 1 .. Len(initial[v])
  BY <1>1, SMT
<1>3. x \in Task /\ task'[w] = x
  BY <1>1, <1>2, SeqElement DEF PopInitial
<1>4. Waiting(v, x)
  BY <1>2 DEF Waiting
<1>5. initial' = initial /\ additional' = additional /\ next' = [next EXCEPT ![v] = n]
  BY Split DEF PopInitial
<1>6. \A u \in Worker, t \in Task : Stack(u, t)' <=> Stack(u, t)
  BY <1>5 DEF Stack
<1>7. ASSUME NEW u \in Worker, NEW t \in Task
      PROVE  Waiting(u, t)' <=> Waiting(u, t) /\ t # x
  <2>1. CASE u # v
    <3>1. Waiting(u, t)' <=> Waiting(u, t)
      BY <1>1, <1>5, <2>1 DEF Waiting
    <3>2. ~Waiting(u, x)
      BY <1>3, <1>4, <2>1, OneQueue, QueuedIs
    <3> QED
      BY <3>1, <3>2
  <2>2. CASE u = v
    <3>1. next'[v] = n
      BY <1>1, <1>5
    <3>2. n + 1 .. Len(initial[v]) = (n .. Len(initial[v])) \ {n}
      BY <1>1, SMT
    <3>3. \A i \in n .. Len(initial[v]) : i \in 1 .. Len(initial[v])
      BY <1>1, SMT
    <3>4. \A i \in n .. Len(initial[v]) : initial[v][i] = x <=> i = n
      BY <1>2, <3>3, AddedOnce, SMT
    <3>5. Waiting(v, t)' <=> \E i \in n + 1 .. Len(initial[v]) : initial[v][i] = t
      BY <1>5, <3>1 DEF Waiting
    <3> QED
      BY <2>2, <3>2, <3>4, <3>5 DEF Waiting
  <2> QED
    BY <2>1, <2>2
<1>8. \A u \in Worker : ~Stack(u, x)
  BY <1>3, <1>4, OneQueue, QueuedIs
<1>9. \A u \in Worker, t \in Task : Queued(u, t)' <=> Waiting(u, t)' \/ Stack(u, t)'
  BY DEF Queued, Waiting, Stack
<1> QED
  BY <1>3, <1>4, <1>6, <1>7, <1>8, <1>9, QueuedIs DEF Takes

\* The elements of a stack after a pop and after a push.
LEMMA TailElements ==
  ASSUME NEW s \in Seq(Task), s # <<>>,
         \A i, j \in 1 .. Len(s) : s[i] = s[j] => i = j
  PROVE  /\ \A i, j \in 1 .. Len(Tail(s)) : Tail(s)[i] = Tail(s)[j] => i = j
         /\ \A t : (\E i \in 1 .. Len(Tail(s)) : Tail(s)[i] = t)
                     <=> (\E i \in 1 .. Len(s) : s[i] = t) /\ t # Head(s)
         /\ \E i \in 1 .. Len(s) : s[i] = Head(s)
<1>1. Len(s) \in Nat /\ Len(s) # 0 /\ Head(s) = s[1]
  BY SeqEmpty, SeqLen, SMT
<1>2. Len(Tail(s)) = Len(s) - 1 /\ \A i \in 1 .. Len(Tail(s)) : Tail(s)[i] = s[i + 1]
  BY SeqHeadTail
<1>3. \A i \in 1 .. Len(Tail(s)) : i + 1 \in 1 .. Len(s) /\ i + 1 # 1
  BY <1>1, <1>2, SMT
<1>4. \A i \in 1 .. Len(s) : i = 1 \/ (i - 1 \in 1 .. Len(Tail(s)) /\ i - 1 + 1 = i)
  BY <1>1, <1>2, SMT
<1>5. 1 \in 1 .. Len(s)
  BY <1>1, SMT
<1>6. \A i, j \in 1 .. Len(Tail(s)) : Tail(s)[i] = Tail(s)[j] => i = j
  <2>1. \A i, j \in 1 .. Len(Tail(s)) : Tail(s)[i] = Tail(s)[j] => i + 1 = j + 1
    BY <1>2, <1>3
  <2> QED
    BY <1>1, <1>2, <2>1, SMT
<1>7. ASSUME NEW t
      PROVE  (\E i \in 1 .. Len(Tail(s)) : Tail(s)[i] = t)
               <=> (\E i \in 1 .. Len(s) : s[i] = t) /\ t # Head(s)
  <2>1. ASSUME NEW i \in 1 .. Len(Tail(s)), Tail(s)[i] = t
        PROVE  (\E j \in 1 .. Len(s) : s[j] = t) /\ t # Head(s)
    BY <1>1, <1>2, <1>3, <1>5, <2>1
  <2>2. ASSUME NEW i \in 1 .. Len(s), s[i] = t, t # Head(s)
        PROVE  \E j \in 1 .. Len(Tail(s)) : Tail(s)[j] = t
    <3>1. i # 1
      BY <1>1, <2>2
    <3>2. i - 1 \in 1 .. Len(Tail(s)) /\ Tail(s)[i - 1] = s[i]
      BY <1>2, <1>4, <3>1
    <3> QED
      BY <2>2, <3>2
  <2> QED
    BY <2>1, <2>2
<1> QED
  BY <1>1, <1>5, <1>6, <1>7

LEMMA ConsElements ==
  ASSUME NEW s \in Seq(Task), NEW x \in Task,
         \A i, j \in 1 .. Len(s) : s[i] = s[j] => i = j,
         \A i \in 1 .. Len(s) : s[i] # x
  PROVE  LET r == <<x>> \o s
         IN  /\ \A i, j \in 1 .. Len(r) : r[i] = r[j] => i = j
             /\ \A t : (\E i \in 1 .. Len(r) : r[i] = t)
                         <=> (\E i \in 1 .. Len(s) : s[i] = t) \/ t = x
<1> DEFINE r == <<x>> \o s
<1>1. Len(s) \in Nat /\ Len(r) = Len(s) + 1
  BY SeqLen, SMT
<1>2. r[1] = x /\ \A i \in 2 .. Len(r) : r[i] = s[i - 1]
  BY <1>1, SMT
<1>3. \A i \in 1 .. Len(r) : i = 1 \/ (i \in 2 .. Len(r) /\ i - 1 \in 1 .. Len(s))
  BY <1>1, SMT
<1>4. \A i \in 1 .. Len(s) : i + 1 \in 2 .. Len(r) /\ i + 1 \in 1 .. Len(r) /\ i + 1 - 1 = i
  BY <1>1, SMT
<1>5. 1 \in 1 .. Len(r)
  BY <1>1, SMT
<1> HIDE DEF r
<1>6. ASSUME NEW i \in 1 .. Len(r), NEW j \in 1 .. Len(r), r[i] = r[j] PROVE i = j
  <2>1. CASE i = 1 \/ j = 1
    BY <1>2, <1>3, <1>6, <2>1
  <2>2. CASE i # 1 /\ j # 1
    <3>1. i - 1 = j - 1
      BY <1>2, <1>3, <1>6, <2>2
    <3> QED
      BY <1>1, <3>1, SMT
  <2> QED
    BY <2>1, <2>2
<1>7. ASSUME NEW t
      PROVE  (\E i \in 1 .. Len(r) : r[i] = t) <=> (\E i \in 1 .. Len(s) : s[i] = t) \/ t = x
  <2>1. ASSUME NEW i \in 1 .. Len(s), s[i] = t PROVE \E j \in 1 .. Len(r) : r[j] = t
    <3>1. i + 1 \in 1 .. Len(r) /\ r[i + 1] = t
      BY <1>2, <1>4, <2>1, SMT
    <3> QED
      BY <3>1
  <2>2. ASSUME NEW i \in 1 .. Len(r), r[i] = t PROVE (\E j \in 1 .. Len(s) : s[j] = t) \/ t = x
    BY <1>2, <1>3, <2>2
  <2> QED
    BY <1>2, <1>5, <2>1, <2>2
<1> QED
  BY <1>6, <1>7 DEF r

LEMMA PopAdditionalTakes ==
  ASSUME Types, DistinctStacks, StackSpawned, OneStack, NEW w \in Worker, NEW v \in Worker,
         WorkerStep(w), PopAdditional(w, v)
  PROVE  task'[w] \in Task /\ Takes(v, task'[w]) /\ DistinctStacks'
<1> DEFINE s == additional[v]
           x == Head(s)
<1>1. /\ s \in Seq(Task) /\ s # <<>> /\ additional \in [Worker -> Seq(Task)]
      /\ task \in [Worker -> Task \cup {NoTask}]
      /\ \A i, j \in 1 .. Len(s) : s[i] = s[j] => i = j
  BY DEF Types, PopAdditional, DistinctStacks
<1>2. x \in Task /\ task'[w] = x
  BY <1>1, SeqHeadTail DEF PopAdditional
<1>3. initial' = initial /\ next' = next /\ additional' = [additional EXCEPT ![v] = Tail(s)]
  BY Split DEF PopAdditional
<1>4. additional'[v] = Tail(s) /\ \A u \in Worker \ {v} : additional'[u] = additional[u]
  BY <1>1, <1>3
<1> HIDE DEF s, x
<1>5. /\ \A i, j \in 1 .. Len(Tail(s)) : Tail(s)[i] = Tail(s)[j] => i = j
      /\ \A t : (\E i \in 1 .. Len(Tail(s)) : Tail(s)[i] = t)
                  <=> (\E i \in 1 .. Len(s) : s[i] = t) /\ t # x
      /\ \E i \in 1 .. Len(s) : s[i] = x
  BY <1>1, TailElements DEF x
<1>6. Stack(v, x)
  BY <1>5 DEF Stack, s
<1>7. \A t \in Task : Stack(v, t)' <=> Stack(v, t) /\ t # x
  BY <1>4, <1>5 DEF Stack, s
<1>8. \A u \in Worker \ {v}, t \in Task : Stack(u, t)' <=> Stack(u, t)
  BY <1>4 DEF Stack
<1>9. DistinctStacks'
  <2>1. \A u \in Worker \ {v} : \A i, j \in 1 .. Len(additional'[u]) :
          additional'[u][i] = additional'[u][j] => i = j
    BY <1>4 DEF DistinctStacks
  <2>2. \A i, j \in 1 .. Len(additional'[v]) : additional'[v][i] = additional'[v][j] => i = j
    BY <1>4, <1>5
  <2> QED
    BY <2>1, <2>2 DEF DistinctStacks
<1>10. \A u \in Worker, t \in Task : Waiting(u, t)' <=> Waiting(u, t)
  BY <1>3 DEF Waiting
<1>11. /\ \A u \in Worker : ~Waiting(u, x)
       /\ \A u \in Worker \ {v} : ~Stack(u, x)
  BY <1>2, <1>6, OneQueue, QueuedIs
<1>12. \A u \in Worker, t \in Task : Queued(u, t)' <=> Waiting(u, t)' \/ Stack(u, t)'
  BY DEF Queued, Waiting, Stack
<1>13. \A u \in Worker, t \in Task : Stack(u, t)' <=> Stack(u, t) /\ t # x
  BY <1>7, <1>8, <1>11
<1> QED
  BY <1>2, <1>6, <1>9, <1>10, <1>11, <1>12, <1>13, QueuedIs DEF Takes

\* A push adds a task that was nowhere.
LEMMA PushNodeAdds ==
  ASSUME Types, Control, DistinctStacks, NEW w \in Worker, WorkerStep(w), PushNode(w),
         ~Stack(w, NextPush(w))
  PROVE  /\ DistinctStacks'
         /\ \A u \in Worker, t \in Task :
              /\ Stack(u, t)' <=> Stack(u, t) \/ (u = w /\ t = NextPush(w))
              /\ Queued(u, t)' <=> Queued(u, t) \/ (u = w /\ t = NextPush(w))
<1> DEFINE s == additional[w]
           x == NextPush(w)
           r == <<x>> \o s
<1>1. /\ s \in Seq(Task) /\ additional \in [Worker -> Seq(Task)] /\ x \in Task
      /\ \A i, j \in 1 .. Len(s) : s[i] = s[j] => i = j
      /\ \A i \in 1 .. Len(s) : s[i] # x
  BY PushTypes DEF Types, DistinctStacks, Stack
<1>2. initial' = initial /\ next' = next /\ additional' = [additional EXCEPT ![w] = r]
  BY Split DEF PushNode
<1>3. additional'[w] = r /\ \A u \in Worker \ {w} : additional'[u] = additional[u]
  BY <1>1, <1>2
<1>4. /\ \A i, j \in 1 .. Len(r) : r[i] = r[j] => i = j
      /\ \A t : (\E i \in 1 .. Len(r) : r[i] = t) <=> (\E i \in 1 .. Len(s) : s[i] = t) \/ t = x
  BY <1>1, ConsElements
<1> HIDE DEF s, x, r
<1>5. DistinctStacks'
  BY <1>3, <1>4, SMT DEF DistinctStacks
<1>6. \A t \in Task : Stack(w, t)' <=> Stack(w, t) \/ t = x
  BY <1>3, <1>4 DEF Stack, s
<1>7. \A u \in Worker \ {w}, t \in Task : Stack(u, t)' <=> Stack(u, t)
  BY <1>3 DEF Stack
<1>8. \A u \in Worker, t \in Task : Waiting(u, t)' <=> Waiting(u, t)
  BY <1>2 DEF Waiting
<1>9. \A u \in Worker, t \in Task : Queued(u, t)' <=> Waiting(u, t)' \/ Stack(u, t)'
  BY DEF Queued, Waiting, Stack
<1> QED
  BY <1>5, <1>6, <1>7, <1>8, <1>9, QueuedIs DEF x
-----------------------------------------------------------------------------
\* Steps that leave every task where it is.
LEMMA PlacementFrame ==
  ASSUME Types, Control, Placement, NEW w \in Worker, WorkerStep(w), Bookkeeping(w)
  PROVE  Placement'
<1>1. UNCHANGED <<next, initial, additional, task, pushed, runs>>
  BY BookkeepingFrame, Split
<1>2. \A u \in Worker : /\ pc'[u] \in PopPC <=> pc[u] \in PopPC
                        /\ pc'[u] \in ExecPC <=> pc[u] \in ExecPC
  <2>0. pc \in [Worker -> PC]
    BY DEF Types
  <2>1. /\ pc'[w] \in PopPC <=> pc[w] \in PopPC
        /\ pc'[w] \in ExecPC <=> pc[w] \in ExecPC
    <3> USE <2>0 DEF PopPC, ExecPC, Goto
    <3>1. CASE Waits(w)
      BY <3>1 DEF Waits, Idle, TestRunning, TestInitial, TestAdditional, Quit, Take
    <3>2. CASE Handles(w)
      BY <3>2 DEF Handles, CatchFirst, CatchLater, Drained, DrainGive
    <3>3. CASE Counts(w) \/ Wakes(w)
      BY <3>3 DEF Counts, Wakes, DecInitial, DecAdditional, PushIncrement, PushWake, PushGive
    <3>4. CASE \E v \in Worker : PopNone(w, v)
      BY <3>4 DEF PopNone
    <3> QED
      BY <3>1, <3>2, <3>3, <3>4 DEF Bookkeeping
  <2> QED
    BY <2>1, Others
<1>3. Failed => Failed'
  <2>1. exception => exception'
    BY DEF Bookkeeping, Waits, Handles, Counts, Wakes, PopNone, Idle, TestRunning, TestInitial,
           TestAdditional, Quit, Take, CatchFirst, CatchLater, Drained, DrainGive, DecInitial,
           DecAdditional, PushIncrement, PushWake, PushGive
  <2>2. pc[w] = "catch" => CatchFirst(w) \/ CatchLater(w)
    BY DEF Bookkeeping, Waits, Handles, Counts, Wakes, PopNone, Idle, TestRunning, TestInitial,
           TestAdditional, Quit, Take, Drained, DrainGive, DecInitial,
           DecAdditional, PushIncrement, PushWake, PushGive
  <2>3. pc[w] = "catch" => exception'
    <3>1. CatchFirst(w) => exception'
      BY DEF CatchFirst
    <3>2. CatchLater(w) => exception'
      BY SMT DEF CatchLater
    <3> QED
      BY <2>2, <3>1, <3>2
  <2> QED
    BY <2>1, <2>3, Others DEF Failed
<1>4. \A u \in Worker, t \in Task : /\ Queued(u, t)' <=> Queued(u, t)
                                    /\ Stack(u, t)' <=> Stack(u, t)
  BY <1>1 DEF Queued, Stack
<1>5. \A t \in Task : Seen(t)' <=> Seen(t)
  BY <1>1, <1>4 DEF Seen
<1>6. \A t \in Task, i \in Nat : Was(t, i)' <=> Was(t, i)
  BY <1>1 DEF Was
<1>7. DistinctStacks'
  BY <1>1 DEF Placement, DistinctStacks
<1>8. StackSpawned' /\ OneStack'
  BY <1>4 DEF Placement, StackSpawned, OneStack, Spawned
<1>9. QueuedIdle' /\ OneHolder'
  BY <1>1, <1>4 DEF Placement, QueuedIdle, OneHolder
<1>10. RunsExact'
  BY <1>1, <1>2 DEF Placement, RunsExact
<1>11. \A t \in Task : \A i \in 1 .. Len(Spawn[t]) : i \in Nat /\ Spawn[t][i] \in Task
  BY ConstantTypes, SeqElement, SMT
<1>12. PushedInOrder'
  BY <1>5, <1>6, <1>11 DEF Placement, PushedInOrder
<1>13. NothingLost'
  <2>1. \A u \in Worker : \A i \in 1 .. Len(initial[u]) : initial[u][i] \in Task
    BY ConstantTypes, SeqElement
  <2> QED
    BY <1>1, <1>3, <1>5, <1>6, <1>11, <2>1 DEF Placement, NothingLost
<1> QED
  BY <1>7, <1>8, <1>9, <1>10, <1>12, <1>13 DEF Placement

\* The elements of the constant sequences are tasks.
LEMMA SpawnTypes ==
  ASSUME Types
  PROVE  /\ \A t \in Task : \A i \in 1 .. Len(Spawn[t]) : i \in Nat /\ i >= 1 /\ Spawn[t][i] \in Task
         /\ \A u \in Worker : \A i \in 1 .. Len(initial[u]) : initial[u][i] \in Task
BY ConstantTypes, SeqElement, SMT

\* A worker takes a task out of a queue.
LEMMA PlacementPop ==
  ASSUME Types, Control, Placement, NEW w \in Worker, NEW v \in Worker, WorkerStep(w),
         PopInitial(w, v) \/ PopAdditional(w, v)
  PROVE  Placement'
<1> DEFINE x == task'[w]
<1>0. DistinctStacks /\ StackSpawned /\ OneStack /\ QueuedIdle /\ OneHolder /\ RunsExact
      /\ PushedInOrder /\ NothingLost
  BY DEF Placement
<1>1. x \in Task /\ Takes(v, x) /\ DistinctStacks'
  <2>1. CASE PopInitial(w, v)
    <3>1. DistinctStacks'
      BY <1>0, <2>1 DEF PopInitial, DistinctStacks
    <3> QED
      BY <1>0, <2>1, <3>1, PopInitialTakes
  <2>2. CASE PopAdditional(w, v)
    BY <1>0, <2>2, PopAdditionalTakes
  <2> QED
    BY <2>1, <2>2
<1>2. /\ pc[w] = "pop" /\ pc'[w] \in PopPC /\ task[w] = NoTask
      /\ UNCHANGED <<runs, pushed, exception, initial>>
  <2>1. pc \in [Worker -> PC] /\ initial' = initial
    BY Split DEF Types
  <2> QED
    BY <2>1 DEF PopInitial, PopAdditional, Goto, PopPC, Control, ControlOf, ExecPC
<1>3. \A u \in Worker \ {w} : task'[u] = task[u] /\ pc'[u] = pc[u]
  BY Others
<1> HIDE DEF x
<1>4. \A u \in Worker, t \in Task : /\ Queued(u, t)' <=> Queued(u, t) /\ t # x
                                    /\ Stack(u, t)' => Stack(u, t)
  BY <1>1 DEF Takes
<1>5. Queued(v, x) /\ runs[x] = 0 /\ \A u \in Worker : task[u] # x
  BY <1>0, <1>1 DEF Takes, QueuedIdle
<1>6. NoTask \notin Task
  BY QueueAssumption
<1>7. task'[w] = x /\ \A u \in Worker, t \in Task : t # x => (task'[u] = t <=> task[u] = t)
  BY <1>2, <1>3, <1>6 DEF x
<1>8. \A t \in Task : Seen(t)' <=> Seen(t)
  <2>1. \A t \in Task : t = x => Seen(t) /\ Seen(t)'
    BY <1>5, <1>7, SMT DEF Seen
  <2>2. \A t \in Task \ {x} : Seen(t)' <=> Seen(t)
    <3>1. runs' = runs
      BY <1>2
    <3>2. \A u \in Worker, t \in Task \ {x} : (Queued(u, t)' <=> Queued(u, t)) /\ (task'[u] = t <=> task[u] = t)
      BY <1>4, <1>7
    <3> QED
      BY <3>1, <3>2 DEF Seen
  <2> QED
    BY <2>1, <2>2
<1>9. \A t \in Task, i \in Nat : Was(t, i)' <=> Was(t, i)
  BY <1>2, <1>5, <1>7, SMT DEF Was
<1>10. StackSpawned' /\ OneStack'
  BY <1>0, <1>4 DEF StackSpawned, OneStack, Spawned
<1>11. QueuedIdle'
  <2>1. \A u \in Worker, t \in Task : Queued(u, t)' => Queued(u, t) /\ t # x
    BY <1>4
  <2>2. runs' = runs /\ \A u \in Worker, t \in Task \ {x} : task'[u] = t <=> task[u] = t
    BY <1>2, <1>7
  <2> QED
    BY <1>0, <2>1, <2>2, SMT DEF QueuedIdle
<1>12. OneHolder'
  BY <1>0, <1>3, <1>5, <1>7, SMT DEF OneHolder
<1>13. RunsExact'
  <2>1. pc'[w] \notin ExecPC
    BY <1>2 DEF PopPC, ExecPC
  <2> QED
    <3>1. runs' = runs /\ runs'[task'[w]] = 0
      BY <1>2, <1>5, <1>7
    <3>2. \A u \in Worker \ {w} : task'[u] = task[u] /\ pc'[u] = pc[u]
      BY <1>3
    <3> QED
      BY <1>0, <2>1, <3>1, <3>2, SMT DEF RunsExact
<1>14. PushedInOrder'
  BY <1>0, <1>8, <1>9, SpawnTypes DEF PushedInOrder
<1>15. Failed' <=> Failed
  <2>1. pc'[w] # "catch"
    BY <1>2 DEF PopPC
  <2> QED
    BY <1>2, <1>3, <2>1 DEF Failed
<1>16. NothingLost'
  BY <1>0, <1>2, <1>8, <1>9, <1>15, SpawnTypes DEF NothingLost
<1> QED
  BY <1>1, <1>10, <1>11, <1>12, <1>13, <1>14, <1>16 DEF Placement

\* pop_task returns: the task is executed, or dropped.
LEMMA PlacementPopReturn ==
  ASSUME Types, Control, Placement, NEW w \in Worker, WorkerStep(w), PopReturn(w)
  PROVE  Placement'
<1> DEFINE x == task[w]
<1>0. DistinctStacks /\ StackSpawned /\ OneStack /\ QueuedIdle /\ OneHolder /\ RunsExact
      /\ PushedInOrder /\ NothingLost
  BY DEF Placement
<1>1. /\ pc[w] = "set_running" /\ x \in Task /\ runs[x] = 0 /\ pushed[w] = 0
      /\ UNCHANGED <<next, initial, additional, pushed, exception>>
  BY <1>0, Split DEF PopReturn, Control, ControlOf, PopPC, ExecPC, RunsExact, Types
<1>2. \A u \in Worker \ {w} : task'[u] = task[u] /\ pc'[u] = pc[u] /\ task[u] # x
  BY <1>0, <1>1, Others, QueueAssumption DEF OneHolder
<1>3. \A u \in Worker, t \in Task : /\ Queued(u, t)' <=> Queued(u, t)
                                    /\ Stack(u, t)' <=> Stack(u, t)
  BY <1>1 DEF Queued, Stack
<1>4. DistinctStacks' /\ StackSpawned' /\ OneStack'
  BY <1>0, <1>1, <1>3 DEF DistinctStacks, StackSpawned, OneStack, Spawned
<1>5. \A u \in Worker : ~Queued(u, x)
  BY <1>0, <1>1 DEF QueuedIdle
<1>6. pc \in [Worker -> PC] /\ runs \in [Task -> Nat] /\ task \in [Worker -> Task \cup {NoTask}]
      /\ NoTask \notin Task
  BY QueueAssumption DEF Types
<1> HIDE DEF x
<1>7. CASE ~draining[w]
  <2>1. /\ pc'[w] = "exec" /\ task' = task /\ runs'[x] = 1
        /\ \A t \in Task \ {x} : runs'[t] = runs[t]
    <3>1. /\ pc' = [pc EXCEPT ![w] = "exec"] /\ task' = task
          /\ runs' = [runs EXCEPT ![x] = @ + 1]
      BY <1>7 DEF PopReturn, Goto, x
    <3> QED
      BY <1>1, <1>6, <3>1, SMT
  <2>2. \A t \in Task : Seen(t)' <=> Seen(t)
    <3>1. Seen(x) /\ Seen(x)'
      BY <2>1 DEF Seen, x
    <3> QED
      BY <1>3, <2>1, <3>1 DEF Seen
  <2>3. \A t \in Task, i \in Nat : i >= 1 => (Was(t, i)' <=> Was(t, i))
    <3>1. \A t \in Task, i \in Nat : t = x /\ i >= 1 => ~Was(t, i) /\ ~Was(t, i)'
      BY <1>1, <2>1, SMT DEF Was, x
    <3>2. \A t \in Task, i \in Nat : t # x => (Was(t, i)' <=> Was(t, i))
      BY <1>1, <2>1 DEF Was
    <3> QED
      BY <3>1, <3>2
  <2>4. QueuedIdle' /\ OneHolder'
    BY <1>0, <1>3, <1>5, <2>1, SMT DEF QueuedIdle, OneHolder
  <2>5. RunsExact'
    <3>1. \A t \in Task : runs'[t] \in {0, 1}
      BY <1>0, <2>1 DEF RunsExact
    <3>2. runs'[task'[w]] = 1 /\ pc'[w] \notin PopPC
      BY <2>1 DEF PopPC, x
    <3>3. \A u \in Worker \ {w} : pc'[u] \in PopPC \cup ExecPC =>
            task'[u] \in Task \ {x} /\ runs'[task'[u]] = runs[task[u]]
      BY <1>2, <1>6, <2>1 DEF Control, ControlOf
    <3> QED
      BY <1>0, <1>2, <3>1, <3>2, <3>3 DEF RunsExact
  <2>6. PushedInOrder'
    BY <1>0, <2>2, <2>3, SpawnTypes DEF PushedInOrder
  <2>7. Failed' <=> Failed
    BY <1>1, <1>2, <2>1 DEF Failed
  <2>8. NothingLost'
    BY <1>0, <1>1, <2>2, <2>3, <2>7, SpawnTypes DEF NothingLost
  <2> QED
    BY <1>4, <2>4, <2>5, <2>6, <2>8 DEF Placement
<1>8. CASE draining[w]
  <2>1. pc'[w] = "pop" /\ task'[w] = NoTask /\ runs' = runs
    BY <1>6, <1>8 DEF PopReturn, Goto
  <2>2. \A u \in Worker, t \in Task : task'[u] = t <=> task[u] = t /\ t # x
    BY <1>2, <1>6, <2>1 DEF x
  <2>3. \A t \in Task : Seen(t)' => Seen(t)
    BY <1>3, <2>1, <2>2 DEF Seen
  <2>4. \A t \in Task, i \in Nat : Was(t, i)' <=> Was(t, i)
    BY <1>1, <2>1, <2>2, SMT DEF Was
  <2>5. QueuedIdle' /\ OneHolder'
    <3>1. QueuedIdle'
      BY <1>0, <1>3, <2>1, <2>2, SMT DEF QueuedIdle
    <3>2. OneHolder'
      BY <1>0, <1>2, <2>1 DEF OneHolder
    <3> QED
      BY <3>1, <3>2
  <2>6. RunsExact'
    <3>1. pc'[w] \notin PopPC \cup ExecPC
      BY <2>1 DEF PopPC, ExecPC
    <3> QED
      BY <1>0, <1>2, <2>1, <3>1 DEF RunsExact
  <2>7. PushedInOrder'
    BY <1>0, <2>3, <2>4, SpawnTypes DEF PushedInOrder
  <2>8. Failed'
    BY <1>1, <1>8 DEF Control, ControlOf, Failed
  <2> QED
    BY <1>4, <2>5, <2>6, <2>7, <2>8 DEF Placement, NothingLost
<1> QED
  BY <1>7, <1>8

\* What is pushed was nowhere before.
LEMMA PushIsNew ==
  ASSUME Types, Control, Placement, NEW w \in Worker, PushNode(w)
  PROVE  ~Seen(NextPush(w)) /\ ~Was(task[w], pushed[w] + 1)
<1>1. /\ task[w] \in Task /\ pushed[w] + 1 \in 1 .. Len(Spawn[task[w]]) /\ pushed[w] \in Nat
  BY PushTypes DEF Types
<1>2. ~Was(task[w], pushed[w] + 1)
  BY <1>1, SMT DEF Was
<1> QED
  BY <1>1, <1>2 DEF Placement, PushedInOrder, NextPush

LEMMA SpawnedOnce ==
  \A s, t \in Task : \A i \in 1 .. Len(Spawn[s]), j \in 1 .. Len(Spawn[t]) :
    Spawn[s][i] = Spawn[t][j] => s = t /\ i = j
BY TaskAssumption

LEMMA PlacementPush ==
  ASSUME Types, Control, Placement, NEW w \in Worker, WorkerStep(w), PushNode(w)
  PROVE  Placement'
<1> DEFINE x == NextPush(w)
           p == task[w]
           k == pushed[w] + 1
<1>0. DistinctStacks /\ StackSpawned /\ OneStack /\ QueuedIdle /\ OneHolder /\ RunsExact
      /\ PushedInOrder /\ NothingLost
  BY DEF Placement
<1>1. /\ x \in Task /\ p \in Task /\ k \in 1 .. Len(Spawn[p]) /\ x = Spawn[p][k]
      /\ runs[p] = 1 /\ pc[w] \in ExecPC /\ pushed[w] \in Nat
  BY <1>0, PushTypes DEF NextPush, RunsExact, Types
<1>2. ~Seen(x) /\ ~Was(p, k)
  BY PushIsNew
<1>3. \A u \in Worker : ~Queued(u, x) /\ task[u] # x /\ ~Stack(u, x)
  BY <1>2, QueuedIs DEF Seen
<1>4. runs[x] = 0
  BY <1>0, <1>1, <1>2 DEF Seen, RunsExact
<1>5. /\ DistinctStacks'
      /\ \A u \in Worker, t \in Task :
           /\ Stack(u, t)' <=> Stack(u, t) \/ (u = w /\ t = x)
           /\ Queued(u, t)' <=> Queued(u, t) \/ (u = w /\ t = x)
  BY <1>0, <1>3, PushNodeAdds
<1>6. /\ task' = task /\ runs' = runs /\ exception' = exception /\ initial' = initial
      /\ pushed'[w] = k /\ pc'[w] = "push_wake"
      /\ \A u \in Worker \ {w} : pushed'[u] = pushed[u] /\ pc'[u] = pc[u]
      /\ \A u \in Worker \ {w} : task[u] # p
  <2>1. pc \in [Worker -> PC] /\ pushed \in [Worker -> Nat] /\ p # NoTask
    BY <1>1, QueueAssumption DEF Types
  <2>2. /\ task' = task /\ runs' = runs /\ exception' = exception
        /\ pushed'[w] = k /\ pc'[w] = "push_wake"
    BY <2>1 DEF PushNode, Goto
  <2>3. \A u \in Worker \ {w} : task[u] # p
    BY <1>0, <2>1 DEF OneHolder
  <2> QED
    BY <2>2, <2>3, Split, Others
<1>7. Spawned(x)
  BY <1>1 DEF Spawned
<1>8. \A s \in Task : \A i \in 1 .. Len(Spawn[s]) : Spawn[s][i] = x => s = p /\ i = k
  BY <1>1, SpawnedOnce, SMT
<1> HIDE DEF x, p, k
<1>9. \A t \in Task : Seen(t)' <=> Seen(t) \/ t = x
  BY <1>5, <1>6 DEF Seen
<1>13. \A t \in Task, i \in Nat : Was(t, i)' <=> Was(t, i) \/ (t = p /\ i = k)
  <2>1. \A t \in Task, i \in Nat : t # p => (Was(t, i)' <=> Was(t, i))
    BY <1>6 DEF Was, p
  <2>2. \A t \in Task, i \in Nat : t = p => (Was(t, i)' <=> i <= k)
    BY <1>1, <1>6 DEF Was, p
  <2>3. \A t \in Task, i \in Nat : t = p => (Was(t, i) <=> i <= pushed[w])
    BY <1>1, <1>6 DEF Was, p
  <2>4. \A i \in Nat : i <= k <=> i <= pushed[w] \/ i = k
    BY <1>1, SMT DEF k
  <2> QED
    BY <2>1, <2>2, <2>3, <2>4
<1>14. StackSpawned'
  BY <1>0, <1>5, <1>7 DEF StackSpawned, Spawned
<1>15. OneStack'
  BY <1>0, <1>3, <1>5, SMT DEF OneStack
<1>16. QueuedIdle' /\ OneHolder'
  BY <1>0, <1>3, <1>4, <1>5, <1>6 DEF QueuedIdle, OneHolder
<1>17. RunsExact'
  <2>1. pc'[w] \in ExecPC /\ pc'[w] \notin PopPC
    BY <1>6 DEF ExecPC, PopPC
  <2> QED
    BY <1>0, <1>1, <1>6, <2>1 DEF RunsExact, p
<1>18. PushedInOrder'
  <2>1. ASSUME NEW t \in Task, NEW i \in 1 .. Len(Spawn[t]), Seen(Spawn[t][i])' PROVE Was(t, i)'
    <3>1. i \in Nat /\ Spawn[t][i] \in Task
      BY SpawnTypes
    <3>2. CASE Spawn[t][i] = x
      BY <1>8, <1>13, <3>1, <3>2
    <3>3. CASE Seen(Spawn[t][i])
      BY <1>0, <1>13, <3>1, <3>3 DEF PushedInOrder
    <3> QED
      BY <1>9, <2>1, <3>1, <3>2, <3>3
  <2> QED
    BY <2>1 DEF PushedInOrder
<1>19. Failed' <=> Failed
  <2>1. pc[w] # "catch"
    BY <1>1 DEF ExecPC
  <2> QED
    BY <1>6, <2>1 DEF Failed
<1>20. NothingLost'
  <2>1. ASSUME ~Failed, NEW t \in Task, NEW i \in 1 .. Len(Spawn[t]), Was(t, i)'
        PROVE  Seen(Spawn[t][i])'
    <3>1. i \in Nat /\ Spawn[t][i] \in Task
      BY SpawnTypes
    <3>2. CASE t = p /\ i = k
      BY <1>1, <1>9, <3>2
    <3>3. CASE Was(t, i)
      BY <1>0, <1>9, <2>1, <3>1, <3>3 DEF NothingLost
    <3> QED
      BY <1>13, <2>1, <3>1, <3>2, <3>3
  <2>2. ASSUME ~Failed, NEW u \in Worker, NEW i \in 1 .. Len(initial[u])
        PROVE  Seen(initial[u][i])'
    <3>1. initial[u][i] \in Task /\ Seen(initial[u][i])
      BY <1>0, <2>2, SpawnTypes DEF NothingLost
    <3>2. \A t \in Task : t = initial[u][i] => Seen(t)'
      BY <1>9, <3>1
    <3> QED
      BY <1>6, <3>1, <3>2
  <2> QED
    BY <1>6, <1>19, <2>1, <2>2 DEF NothingLost
<1> QED
  BY <1>5, <1>14, <1>15, <1>16, <1>17, <1>18, <1>20 DEF Placement

\* An executor returns or throws.
LEMMA PlacementEnd ==
  ASSUME Types, Control, Placement, NEW w \in Worker, WorkerStep(w), Return(w) \/ Throw(w)
  PROVE  Placement'
<1> DEFINE x == task[w]
<1>0. DistinctStacks /\ StackSpawned /\ OneStack /\ QueuedIdle /\ OneHolder /\ RunsExact
      /\ PushedInOrder /\ NothingLost
  BY DEF Placement
<1>1. /\ pc[w] = "exec" /\ x \in Task /\ runs[x] = 1
      /\ UNCHANGED <<next, initial, additional, runs, exception>>
      /\ pushed[w] \in Nat /\ Len(Spawn[x]) \in Nat
  <2>1. pc[w] = "exec" /\ UNCHANGED <<next, initial, additional, runs, exception>>
    BY Split DEF Return, Throw
  <2>2. x \in Task
    BY <2>1 DEF Control, ControlOf, ExecPC, Types
  <2> QED
    BY <1>0, <2>1, <2>2, ConstantTypes DEF RunsExact, ExecPC, Types
<1>2. task'[w] = NoTask /\ pc'[w] \in {"pop", "catch"} /\ NoTask \notin Task
  <2>1. task \in [Worker -> Task \cup {NoTask}] /\ pc \in [Worker -> PC]
    BY DEF Types
  <2> QED
    BY <2>1, QueueAssumption DEF Return, Throw, Goto
<1>3. \A u \in Worker \ {w} : /\ task'[u] = task[u] /\ pc'[u] = pc[u] /\ pushed'[u] = pushed[u]
                              /\ task[u] # x
  BY <1>0, <1>1, Others, QueueAssumption DEF OneHolder
<1>4. \A u \in Worker, t \in Task : /\ Queued(u, t)' <=> Queued(u, t)
                                    /\ Stack(u, t)' <=> Stack(u, t)
  BY <1>1 DEF Queued, Stack
<1>5. DistinctStacks' /\ StackSpawned' /\ OneStack'
  <2>1. DistinctStacks'
    BY <1>0, <1>1 DEF DistinctStacks
  <2>2. StackSpawned'
    BY <1>0, <1>1, <1>4 DEF StackSpawned, Spawned
  <2>3. OneStack'
    BY <1>0, <1>4 DEF OneStack
  <2> QED
    BY <2>1, <2>2, <2>3
<1> HIDE DEF x
<1>6. \A u \in Worker, t \in Task : task'[u] = t <=> task[u] = t /\ t # x
  BY <1>2, <1>3 DEF x
<1>7. \A t \in Task : Seen(t)' <=> Seen(t)
  BY <1>1, <1>4, <1>6, SMT DEF Seen
<1>8. \A t \in Task, i \in Nat : Was(t, i) => Was(t, i)'
  <2>1. runs' = runs /\ \A u \in Worker, t \in Task : task'[u] = t => u # w /\ task[u] = t
    BY <1>1, <1>2, <1>6
  <2>2. \A u \in Worker \ {w} : pushed'[u] = pushed[u]
    BY <1>3
  <2> QED
    BY <2>1, <2>2 DEF Was
<1>9. \A t \in Task, i \in Nat : t # x => (Was(t, i)' => Was(t, i))
  BY <1>1, <1>3, <1>6 DEF Was, x
<1>10. QueuedIdle' /\ OneHolder'
  <2>1. QueuedIdle'
    <3>1. runs' = runs
      BY <1>1
    <3>2. \A u \in Worker, t \in Task : Queued(u, t)' => Queued(u, t)
      BY <1>4
    <3>3. \A u \in Worker, t \in Task : task'[u] = t => task[u] = t
      BY <1>6
    <3> QED
      BY <1>0, <3>1, <3>2, <3>3 DEF QueuedIdle
  <2>2. OneHolder'
    BY <1>0, <1>2, <1>3 DEF OneHolder
  <2> QED
    BY <2>1, <2>2
<1>11. RunsExact'
  <2>1. pc'[w] \notin PopPC \cup ExecPC
    BY <1>2 DEF PopPC, ExecPC
  <2> QED
    BY <1>0, <1>1, <1>3, <2>1, SMT DEF RunsExact
<1>12. PushedInOrder'
  BY <1>0, <1>7, <1>8, SpawnTypes DEF PushedInOrder
<1>13. NothingLost'
  <2>1. CASE Throw(w)
    <3>1. pc'[w] = "catch"
      BY <2>1 DEF Throw, Goto, Types
    <3>2. Failed'
      BY <3>1 DEF Failed
    <3> QED
      BY <3>2 DEF NothingLost
  <2>2. CASE Return(w)
    <3>1. pc'[w] = "pop" /\ pushed[w] = Len(Spawn[x])
      BY <2>2 DEF Return, Goto, Types, x
    <3>2. Failed' <=> Failed
      BY <1>1, <1>3, <3>1 DEF Failed
    <3>3. \A t \in Task, i \in Nat : t = x /\ i \in 1 .. Len(Spawn[t]) => Was(t, i)
      <4>1. runs[x] = 1 /\ \A u \in Worker : task[u] = x => u = w
        BY <1>1, <1>3
      <4> QED
        BY <3>1, <4>1, SMT DEF Was
    <3>4. \A t \in Task : \A i \in 1 .. Len(Spawn[t]) : Was(t, i)' => Was(t, i)
      BY <1>9, <3>3, SpawnTypes
    <3> QED
      BY <1>0, <1>1, <1>7, <3>2, <3>4, SpawnTypes DEF NothingLost
  <2> QED
    BY <2>1, <2>2
<1> QED
  BY <1>5, <1>10, <1>11, <1>12, <1>13 DEF Placement

LEMMA PlacementStep ==
  ASSUME Types, Control, Placement, NEW w \in Worker, WorkerStep(w)
  PROVE  Placement'
BY Split, PlacementFrame, PlacementPop, PlacementPopReturn, PlacementPush, PlacementEnd
-----------------------------------------------------------------------------
LEMMA PlacementInit == Init => Placement
<1> SUFFICES ASSUME Init PROVE Placement
  OBVIOUS
<1>1. Types
  BY BaseInit DEF Base
<1> QED
  <2>1. \A w \in Worker : Len(additional[w]) = 0
    BY DEF Init
  <2>2. \A w \in Worker, t \in Task : ~Stack(w, t)
    BY <2>1, SMT DEF Stack
  <2>3. DistinctStacks /\ StackSpawned /\ OneStack
    BY <2>1, <2>2, SMT DEF DistinctStacks, StackSpawned, OneStack
  <2>4. \A w \in Worker : task[w] = NoTask /\ pc[w] = "pop" /\ next[w] = 0
    BY DEF Init
  <2>5. \A t \in Task : runs[t] = 0 /\ t # NoTask
    BY QueueAssumption DEF Init
  <2>6. QueuedIdle /\ OneHolder
    BY <2>4, <2>5 DEF QueuedIdle, OneHolder
  <2>7. RunsExact
    BY <2>4, <2>5 DEF RunsExact, PopPC, ExecPC
  <2>8. PushedInOrder
    <3>1. ASSUME NEW t \in Task, NEW i \in 1 .. Len(Spawn[t]) PROVE ~Seen(Spawn[t][i])
      <4>1. Spawn[t][i] \in Task /\ Spawned(Spawn[t][i])
        BY <1>1, SpawnTypes DEF Spawned
      <4>2. \A w \in Worker : ~Waiting(w, Spawn[t][i])
        BY <1>1, <4>1, WaitingRange, AddedNotSpawned DEF Waiting
      <4>3. \A w \in Worker : ~Queued(w, Spawn[t][i])
        BY <2>2, <4>1, <4>2, QueuedIs
      <4>4. runs[Spawn[t][i]] # 1 /\ \A w \in Worker : task[w] # Spawn[t][i]
        BY <2>4, <2>5, <4>1, SMT
      <4> QED
        BY <4>3, <4>4 DEF Seen
    <3> QED
      BY <3>1 DEF PushedInOrder
  <2>9. NothingLost
    <3>1. ASSUME NEW w \in Worker, NEW i \in 1 .. Len(initial[w]) PROVE Seen(initial[w][i])
      <4>1. i \in next[w] + 1 .. Len(initial[w])
        BY <2>4, SMT
      <4>2. Waiting(w, initial[w][i])
        BY <4>1 DEF Waiting
      <4> QED
        BY <4>2, QueuedIs DEF Seen
    <3>2. \A t \in Task, i \in Nat : ~Was(t, i)
      BY <2>5, SMT DEF Was
    <3> QED
      BY <1>1, <3>1, <3>2, SpawnTypes DEF NothingLost
  <2> QED
    BY <2>3, <2>6, <2>7, <2>8, <2>9 DEF Placement

LEMMA PlacementNext == Base /\ Placement /\ [Next]_vars => Placement'
<1> SUFFICES ASSUME Base, Placement, [Next]_vars PROVE Placement'
  OBVIOUS
<1>1. ASSUME NEW w \in Worker, WorkerStep(w) PROVE Placement'
  BY <1>1, PlacementStep DEF Base
<1>2. CASE UNCHANGED vars
  <2>0. UNCHANGED <<next, initial, additional, task, pushed, runs, exception, pc>> /\ Types
    BY <1>2 DEF vars, Base
  <2> USE <2>0
  <2>4. /\ \A w \in Worker, t \in Task : /\ Queued(w, t)' <=> Queued(w, t)
                                         /\ Stack(w, t)' <=> Stack(w, t)
        /\ \A t \in Task, i \in Nat : Was(t, i)' <=> Was(t, i)
        /\ Failed' <=> Failed
    BY DEF Queued, Stack, Was, Failed
  <2>5. \A t \in Task : Seen(t)' <=> Seen(t)
    BY <2>4 DEF Seen
  <2>1. DistinctStacks' /\ StackSpawned' /\ OneStack'
    BY <2>4 DEF Placement, DistinctStacks, StackSpawned, OneStack, Spawned
  <2>2. QueuedIdle'
    BY <2>4 DEF Placement, QueuedIdle
  <2>6. OneHolder' /\ RunsExact'
    BY DEF Placement, OneHolder, RunsExact
  <2>7. PushedInOrder'
    BY <2>4, <2>5, SpawnTypes DEF Placement, PushedInOrder
  <2>8. NothingLost'
    BY <2>4, <2>5, SpawnTypes DEF Placement, NothingLost
  <2> QED
    BY <2>1, <2>2, <2>6, <2>7, <2>8 DEF Placement
<1> QED
  BY <1>1, <1>2 DEF Next, Finished

IInv == Types /\ Control /\ OwnQueueFirst /\ Placement

\* In every state of run_all a worker is where its variables say, and every
\* task is queued with one worker, in the hand of one, or done.
THEOREM Invariance == Spec => []IInv
<1>1. IInv <=> Base /\ Placement
  BY DEF IInv, Base
<1> QED
  BY <1>1, PlacementInit, PlacementNext, QueueBase, PTL DEF Spec

\* No executor is called twice on a task, however the workers steal.
THEOREM QueueRunsOnce == Spec => []RunsAtMostOnce
<1>1. IInv => RunsAtMostOnce
  BY SMT DEF IInv, Placement, RunsExact, RunsAtMostOnce
<1> QED
  BY <1>1, Invariance, PTL

LEMMA EmptyQueue ==
  ASSUME Types, NEW w \in Worker, ~HasInitial(w), additional[w] = <<>>, NEW t \in Task
  PROVE  ~Queued(w, t)
<1>1. next[w] >= Len(initial[w]) /\ next[w] \in Nat /\ Len(initial[w]) \in Nat
  <2>1. next[w] \in Nat /\ Len(initial[w]) \in Nat
    BY ConstantTypes DEF Types
  <2> QED
    BY <2>1, SMT DEF HasInitial
<1>2. Len(additional[w]) = 0
  <2>1. additional[w] \in Seq(Task)
    BY DEF Types
  <2> QED
    BY <2>1, SeqEmpty
<1> QED
  BY <1>1, <1>2, SMT DEF Queued

LEMMA NothingLeft == IInv => NothingLeftBehind
<1> SUFFICES ASSUME IInv, AllDone PROVE
      /\ \A w \in Worker : ~running[w]
      /\ ~exception =>
           /\ \A w \in Worker : ~HasInitial(w) /\ additional[w] = <<>>
           /\ \A w \in Worker : \A i \in 1 .. Len(initial[w]) : runs[initial[w][i]] = 1
           /\ \A t \in Task : runs[t] = 1 =>
                \A i \in 1 .. Len(Spawn[t]) : runs[Spawn[t][i]] = 1
  BY DEF NothingLeftBehind
<1>0. Types /\ Control /\ OwnQueueFirst /\ NothingLost
  BY DEF IInv, Placement
<1>1. \A w \in Worker : pc[w] = "done" /\ task[w] = NoTask /\ ~running[w]
  BY <1>0 DEF AllDone, Control, ControlOf, Stopped, PopPC, ExecPC
<1> SUFFICES ASSUME ~exception PROVE
      /\ \A w \in Worker : ~HasInitial(w) /\ additional[w] = <<>>
      /\ \A w \in Worker : \A i \in 1 .. Len(initial[w]) : runs[initial[w][i]] = 1
      /\ \A t \in Task : runs[t] = 1 =>
           \A i \in 1 .. Len(Spawn[t]) : runs[Spawn[t][i]] = 1
  BY <1>1
<1>2. \A w \in Worker : ~HasInitial(w) /\ additional[w] = <<>>
  <2>1. \A w \in Worker : ~draining[w]
    BY <1>0 DEF Control, ControlOf
  <2> QED
    BY <1>0, <1>1, <2>1 DEF OwnQueueFirst, OwnQueueOf, PopPC, ExecPC
<1>3. \A t \in Task : Seen(t) => runs[t] = 1
  <2>1. \A w \in Worker, t \in Task : ~Queued(w, t)
    BY <1>0, <1>2, EmptyQueue
  <2> QED
    BY <1>1, <2>1, QueueAssumption DEF Seen
<1>4. ~Failed
  BY <1>1 DEF Failed
<1>5. \A t \in Task, i \in Nat : runs[t] = 1 => Was(t, i)
  BY <1>1, QueueAssumption DEF Was
<1>6. \A w \in Worker : \A i \in 1 .. Len(initial[w]) : runs[initial[w][i]] = 1
  BY <1>0, <1>3, <1>4, SpawnTypes DEF NothingLost
<1>7. \A t \in Task : runs[t] = 1 => \A i \in 1 .. Len(Spawn[t]) : runs[Spawn[t][i]] = 1
  BY <1>0, <1>3, <1>4, <1>5, SpawnTypes DEF NothingLost
<1> QED
  BY <1>2, <1>6, <1>7

\* When run_all's workers have returned without an exception, the checks at
\* its end succeed, and every task that was added or pushed has run.
THEOREM QueueCompletes == Spec => []NothingLeftBehind
BY NothingLeft, Invariance, PTL
=============================================================================

------------------------ MODULE WorkQueuePoolProofs ------------------------
(***************************************************************************)
(* run_all implements WorkPool, for every number of workers and every set  *)
(* of tasks.  Seen from the pool, only the history and the tasks in hand   *)
(* matter: a task in hand that has not run is still to be done, one in     *)
(* hand that has run is being executed.                                    *)
(***************************************************************************)
EXTENDS WorkQueueProofs

\* First-order steps go to Zenon; a step about numbers or updated functions
\* names SMT.
USE Zenon

Added == {t \in Task : \E w \in Worker : \E i \in 1 .. Len(initial[w]) : initial[w][i] = t}
Todo == {t \in Task : \E w \in Worker : Queued(w, t) \/ Popped(w, t)}
Active == {t \in Task : \E w \in Worker : Executing(w, t)}
Ended == {t \in Task : runs[t] > 0 /\ \A w \in Worker : ~Executing(w, t)}

InHand(t) == \E w \in Worker : task[w] = t
InQueue(t) == \E w \in Worker : Queued(w, t)

TodoView == \A t \in Task : t \in Todo <=> InQueue(t) \/ (InHand(t) /\ runs[t] = 0)
ActiveView == \A t \in Task : t \in Active <=> InHand(t) /\ runs[t] = 1
EndedView == \A t \in Task : t \in Ended <=> ~InHand(t) /\ runs[t] = 1
SeenView == \A t \in Task : Seen(t) <=> t \in Todo \cup Active \cup Ended
QueueView == \A t \in Task : InQueue(t) => runs[t] = 0 /\ ~InHand(t)
DoneView == AllDone => Active = {} /\ (Failed \/ Todo = {})

View == TodoView /\ ActiveView /\ EndedView /\ SeenView /\ QueueView /\ DoneView

LEMMA ViewHolds == IInv => View
<1> SUFFICES ASSUME IInv PROVE View
  OBVIOUS
<1>0. Types /\ Control /\ RunsExact /\ QueuedIdle
  BY DEF IInv, Placement
<1>1. ASSUME NEW w \in Worker, NEW t \in Task
      PROVE  /\ Popped(w, t) <=> task[w] = t /\ runs[t] = 0
             /\ Executing(w, t) <=> task[w] = t /\ runs[t] = 1
  <2>1. task[w] = t => pc[w] \in PopPC \cup ExecPC
    BY <1>0, QueueAssumption DEF Control, ControlOf
  <2>2. pc[w] \in PopPC => runs[task[w]] = 0
    BY <1>0 DEF RunsExact
  <2>3. pc[w] \in ExecPC => runs[task[w]] = 1
    BY <1>0 DEF RunsExact
  <2> QED
    BY <2>1, <2>2, <2>3, SMT DEF Popped, Executing
<1>2. ASSUME NEW t \in Task
      PROVE  /\ runs[t] \in {0, 1}
             /\ t \in Todo <=> InQueue(t) \/ (InHand(t) /\ runs[t] = 0)
             /\ t \in Active <=> InHand(t) /\ runs[t] = 1
             /\ t \in Ended <=> ~InHand(t) /\ runs[t] = 1
             /\ InQueue(t) => runs[t] = 0 /\ ~InHand(t)
  <2>1. runs[t] \in {0, 1}
    BY <1>0 DEF RunsExact
  <2>2. InQueue(t) => runs[t] = 0 /\ ~InHand(t)
    BY <1>0 DEF QueuedIdle, InQueue, InHand
  <2>3. t \in Todo <=> InQueue(t) \/ (InHand(t) /\ runs[t] = 0)
    BY <1>1 DEF Todo, InQueue, InHand
  <2>4. t \in Active <=> InHand(t) /\ runs[t] = 1
    BY <1>1 DEF Active, InHand
  <2>5. t \in Ended <=> ~InHand(t) /\ runs[t] = 1
    <3>1. runs[t] > 0 <=> runs[t] = 1
      BY <2>1, SMT
    <3> QED
      BY <1>1, <3>1 DEF Ended, InHand
  <2> QED
    BY <2>1, <2>2, <2>3, <2>4, <2>5
<1>3. \A t \in Task : Seen(t) <=> t \in Todo \cup Active \cup Ended
  BY <1>2 DEF Seen, InQueue, InHand
<1>4. ASSUME AllDone PROVE Active = {} /\ (Failed \/ Todo = {})
  <2>1. \A w \in Worker : pc[w] \notin PopPC /\ pc[w] \notin ExecPC
    BY <1>4 DEF AllDone, PopPC, ExecPC
  <2>2. Active = {}
    BY <2>1 DEF Active, Executing
  <2>3. ASSUME ~Failed PROVE Todo = {}
    <3>1. \A w \in Worker : ~HasInitial(w) /\ additional[w] = <<>>
      BY <1>4, <2>3, NothingLeft DEF NothingLeftBehind, Failed
    <3>3. \A w \in Worker, t \in Task : ~Queued(w, t)
      BY <1>0, <3>1, EmptyQueue
    <3> QED
      BY <2>1, <3>3 DEF Todo, Popped
  <2> QED
    BY <2>2, <2>3
<1> QED
  BY <1>2, <1>3, <1>4 DEF View, TodoView, ActiveView, EndedView, SeenView, QueueView, DoneView

LEMMA ViewHoldsNext == IInv' => View'
BY ViewHolds, PTL

LEMMA FailedIsBoolean ==
  /\ Failed' <=> Failed => Failed' = Failed
  /\ Failed' => Failed' = TRUE
  /\ ~Failed => Failed = FALSE
BY DEF Failed

LEMMA AllDoneIsBoolean ==
  /\ AllDone' <=> AllDone => AllDone' = AllDone
  /\ AllDone' => AllDone' = TRUE
  /\ ~AllDone => AllDone = FALSE
BY DEF AllDone

\* A worker that has returned takes no step.
LEMMA NotDone ==
  ASSUME NEW w \in Worker, WorkerStep(w)
  PROVE  ~AllDone
<1>1. pc[w] # "done"
  <2>1. CASE Bookkeeping(w)
    BY <2>1 DEF Bookkeeping, Waits, Handles, Counts, Wakes, PopNone, Idle, TestRunning, TestInitial,
                TestAdditional, Quit, Take, CatchFirst, CatchLater, Drained, DrainGive, DecInitial,
                DecAdditional, PushIncrement, PushWake, PushGive
  <2>2. CASE (\E v \in Worker : PopInitial(w, v) \/ PopAdditional(w, v)) \/ PopReturn(w)
    BY <2>2 DEF PopInitial, PopAdditional, PopReturn
  <2>3. CASE PushNode(w) \/ Return(w) \/ Throw(w)
    BY <2>3 DEF PushNode, Return, Throw
  <2> QED
    BY <2>1, <2>2, <2>3, Split
<1> QED
  BY <1>1 DEF AllDone


LEMMA TodoIs ==
  ASSUME NEW S, S \subseteq Task, \A t \in Task : t \in Todo' <=> t \in S
  PROVE  Todo' = S
BY DEF Todo

LEMMA ActiveIs ==
  ASSUME NEW S, S \subseteq Task, \A t \in Task : t \in Active' <=> t \in S
  PROVE  Active' = S
BY DEF Active

LEMMA EndedIs ==
  ASSUME NEW S, S \subseteq Task, \A t \in Task : t \in Ended' <=> t \in S
  PROVE  Ended' = S
BY DEF Ended

PoolFrame == UNCHANGED <<Todo, Active, Ended, Failed, AllDone>>

\* Taking a task from a queue changes nothing that the pool shows.
LEMMA PoolPop ==
  ASSUME IInv, View, View', NEW w \in Worker, NEW v \in Worker, WorkerStep(w),
         PopInitial(w, v) \/ PopAdditional(w, v)
  PROVE  PoolFrame
<1> DEFINE x == task'[w]
<1>0. Types /\ Control /\ DistinctStacks /\ StackSpawned /\ OneStack /\ QueuedIdle
  BY DEF IInv, Placement
<1>1. x \in Task /\ Takes(v, x)
  BY <1>0, PopInitialTakes, PopAdditionalTakes
<1>2. /\ pc[w] = "pop" /\ pc'[w] \in PopPC /\ task[w] = NoTask /\ runs' = runs
      /\ exception' = exception /\ NoTask \notin Task
  BY <1>0, QueueAssumption DEF PopInitial, PopAdditional, Goto, PopPC, Control, ControlOf, ExecPC, Types
<1>3. \A u \in Worker \ {w} : task'[u] = task[u] /\ pc'[u] = pc[u]
  BY <1>0, Others
<1>4. Queued(v, x) /\ runs[x] = 0
  BY <1>0, <1>1 DEF Takes, QueuedIdle
<1> HIDE DEF x
<1>5. \A t \in Task : /\ InQueue(t)' <=> InQueue(t) /\ t # x
                      /\ InHand(t)' <=> InHand(t) \/ t = x
  BY <1>1, <1>2, <1>3 DEF InQueue, InHand, Takes, x
<1>6. InQueue(x)
  BY <1>1, <1>4 DEF InQueue
<1>7. \A t \in Task : t \in Todo' <=> t \in Todo
  BY <1>2, <1>4, <1>5, <1>6 DEF View, TodoView
<1>13. \A t \in Task : t \in Active' <=> t \in Active
  BY <1>2, <1>4, <1>5, SMT DEF View, ActiveView
<1>14. \A t \in Task : t \in Ended' <=> t \in Ended
  BY <1>2, <1>4, <1>5, SMT DEF View, EndedView
<1>8. Todo' = Todo
  BY <1>7, TodoIs DEF Todo
<1>9. Active' = Active
  BY <1>13, ActiveIs DEF Active
<1>10. Ended' = Ended
  BY <1>14, EndedIs DEF Ended
<1>11. Failed' = Failed
  <2>1. pc'[w] # "catch" /\ pc[w] # "catch"
    BY <1>2 DEF PopPC
  <2>2. Failed' <=> Failed
    BY <1>2, <1>3, <2>1 DEF Failed
  <2> QED
    BY <2>2, FailedIsBoolean
<1>12. AllDone' = AllDone
  <2>1. pc'[w] # "done" /\ pc[w] # "done"
    BY <1>2 DEF PopPC
  <2>2. AllDone' <=> AllDone
    BY <2>1 DEF AllDone
  <2> QED
    BY <2>2, AllDoneIsBoolean
<1> QED
  BY <1>8, <1>9, <1>10, <1>11, <1>12 DEF PoolFrame

\* Nor does the bookkeeping, but for the return of the last worker.
LEMMA PoolBookkeeping ==
  ASSUME IInv, View, View', NEW w \in Worker, WorkerStep(w), Bookkeeping(w)
  PROVE  UNCHANGED <<Todo, Active, Ended, Failed>>
<1>0. Types /\ pc \in [Worker -> PC]
  BY DEF IInv, Types
<1>1. UNCHANGED <<next, initial, additional, task, runs>>
  BY BookkeepingFrame, Split
<1>2. \A t \in Task : (InQueue(t)' <=> InQueue(t)) /\ (InHand(t)' <=> InHand(t))
  BY <1>1 DEF InQueue, InHand, Queued
<1>3. \A t \in Task : t \in Todo' <=> t \in Todo
  BY <1>1, <1>2 DEF View, TodoView
<1>9. \A t \in Task : t \in Active' <=> t \in Active
  BY <1>1, <1>2 DEF View, ActiveView
<1>10. \A t \in Task : t \in Ended' <=> t \in Ended
  BY <1>1, <1>2 DEF View, EndedView
<1>4. Todo' = Todo
  BY <1>3, TodoIs DEF Todo
<1>5. Active' = Active
  BY <1>9, ActiveIs DEF Active
<1>6. Ended' = Ended
  BY <1>10, EndedIs DEF Ended
<1>7. Failed' <=> Failed
  <2>1. CASE CatchFirst(w)
    <3>1. Failed
      BY <2>1 DEF CatchFirst, Failed
    <3>2. Failed'
      BY <2>1 DEF CatchFirst, Failed
    <3> QED
      BY <3>1, <3>2
  <2>2. CASE CatchLater(w)
    <3>1. Failed
      BY <2>2 DEF CatchLater, Failed
    <3>2. Failed'
      BY <2>2 DEF CatchLater, Failed
    <3> QED
      BY <3>1, <3>2
  <2>3. CASE ~CatchFirst(w) /\ ~CatchLater(w)
    <3>1. /\ pc[w] # "catch" /\ exception' = exception
          /\ \E l \in PC \ {"catch"} : Goto(w, l)
      <4> USE DEF PC, PopPC, ExecPC
      <4>1. CASE Waits(w)
        BY <4>1 DEF Waits, Idle, TestRunning, TestInitial, TestAdditional, Quit, Take
      <4>2. CASE Drained(w) \/ DrainGive(w) \/ Counts(w)
        BY <4>2 DEF Drained, DrainGive, Counts, DecInitial, DecAdditional
      <4>3. CASE Wakes(w)
        BY <4>3 DEF Wakes, PushIncrement, PushWake, PushGive
      <4>4. CASE \E v \in Worker : PopNone(w, v)
        BY <4>4 DEF PopNone
      <4> QED
        BY <2>3, <4>1, <4>2, <4>3, <4>4 DEF Bookkeeping, Handles
    <3>2. pc'[w] # "catch"
      BY <1>0, <3>1 DEF Goto
    <3>3. \A u \in Worker \ {w} : pc'[u] = pc[u]
      BY <1>0, Others
    <3> QED
      BY <3>1, <3>2, <3>3 DEF Failed
  <2> QED
    BY <2>1, <2>2, <2>3
<1>8. Failed' = Failed
  BY <1>7, FailedIsBoolean
<1> QED
  BY <1>4, <1>5, <1>6, <1>8

PoolStart(t) ==
  /\ t \in Todo
  /\ Todo' = Todo \ {t}
  /\ Active' = Active \cup {t}
  /\ UNCHANGED <<Ended, Failed, AllDone>>

PoolDrop(t) ==
  /\ Failed
  /\ t \in Todo
  /\ Todo' = Todo \ {t}
  /\ UNCHANGED <<Active, Ended, Failed, AllDone>>

\* A popped task is executed, or dropped after an exception.
LEMMA PoolPopReturn ==
  ASSUME IInv, View, View', NEW w \in Worker, WorkerStep(w), PopReturn(w)
  PROVE  \E t \in Task : PoolStart(t) \/ PoolDrop(t)
<1> DEFINE x == task[w]
<1>0. Types /\ Control /\ OneHolder /\ RunsExact
  BY DEF IInv, Placement
<1>1. /\ pc[w] = "set_running" /\ x \in Task /\ runs[x] = 0
      /\ UNCHANGED <<next, initial, additional, exception>>
  BY <1>0, Split DEF PopReturn, Control, ControlOf, PopPC, ExecPC, RunsExact, Types
<1>2. \A u \in Worker \ {w} : task'[u] = task[u] /\ pc'[u] = pc[u] /\ task[u] # x
  <2>1. \A u \in Worker \ {w} : task'[u] = task[u] /\ pc'[u] = pc[u]
    BY <1>0, Others
  <2>2. \A u \in Worker \ {w} : task[u] # x
    BY <1>0, <1>1, QueueAssumption DEF OneHolder
  <2> QED
    BY <2>1, <2>2
<1>3. pc \in [Worker -> PC] /\ runs \in [Task -> Nat] /\ task \in [Worker -> Task \cup {NoTask}]
      /\ NoTask \notin Task
  BY <1>0, QueueAssumption DEF Types
<1>4. \A t \in Task : InQueue(t)' <=> InQueue(t)
  BY <1>1 DEF InQueue, Queued
<1>5. InHand(x) /\ x \in Todo /\ ~InQueue(x)
  BY <1>1 DEF InHand, View, TodoView, QueueView
<1>6. pc'[w] \in {"exec", "pop"}
  BY <1>3 DEF PopReturn, Goto
<1>7. Failed' = Failed
  <2>1. Failed' <=> Failed
    BY <1>1, <1>2, <1>6 DEF Failed
  <2> QED
    BY <2>1, FailedIsBoolean
<1>8. AllDone' = AllDone
  <2>1. ~AllDone' /\ ~AllDone
    BY <1>1, <1>6 DEF AllDone
  <2> QED
    BY <2>1, AllDoneIsBoolean
<1> HIDE DEF x
<1>9. CASE ~draining[w]
  <2>1. /\ task' = task /\ runs'[x] = 1
        /\ \A t \in Task \ {x} : runs'[t] = runs[t]
    BY <1>1, <1>3, <1>9, SMT DEF PopReturn, x
  <2>2. \A t \in Task : InHand(t)' <=> InHand(t)
    BY <2>1 DEF InHand
  <2>3. \A t \in Task : t \in Todo' <=> t \in Todo \ {x}
    <3>1. TodoView /\ TodoView'
      BY DEF View
    <3>2. x \notin Todo'
      BY <1>1, <1>4, <1>5, <2>1, <3>1, SMT DEF TodoView
    <3>3. \A t \in Task \ {x} : t \in Todo' <=> t \in Todo
      BY <1>4, <2>1, <2>2, <3>1 DEF TodoView
    <3> QED
      BY <1>1, <3>2, <3>3
  <2>7. \A t \in Task : t \in Active' <=> t \in Active \cup {x}
    <3>1. ActiveView /\ ActiveView'
      BY DEF View
    <3>2. x \in Active'
      BY <1>1, <1>5, <2>1, <2>2, <3>1 DEF ActiveView
    <3>3. \A t \in Task \ {x} : t \in Active' <=> t \in Active
      BY <2>1, <2>2, <3>1 DEF ActiveView
    <3> QED
      BY <1>1, <3>2, <3>3
  <2>8. \A t \in Task : t \in Ended' <=> t \in Ended
    BY <1>1, <1>5, <2>1, <2>2, SMT DEF View, EndedView
  <2>4. Todo' = Todo \ {x}
    BY <2>3, TodoIs DEF Todo
  <2>5. Active' = Active \cup {x}
    BY <1>1, <2>7, ActiveIs, SMT DEF Active
  <2>6. Ended' = Ended
    BY <2>8, EndedIs DEF Ended
  <2> QED
    BY <1>1, <1>5, <1>7, <1>8, <2>4, <2>5, <2>6 DEF PoolStart
<1>10. CASE draining[w]
  <2>1. task'[w] = NoTask /\ runs' = runs
    BY <1>3, <1>10 DEF PopReturn
  <2>2. \A t \in Task : InHand(t)' <=> InHand(t) /\ t # x
    BY <1>2, <1>3, <2>1 DEF InHand, x
  <2>3. \A t \in Task : t \in Todo' <=> t \in Todo \ {x}
    BY <1>4, <1>5, <2>1, <2>2 DEF View, TodoView
  <2>8. \A t \in Task : t \in Active' <=> t \in Active
    BY <1>1, <2>1, <2>2, SMT DEF View, ActiveView
  <2>9. \A t \in Task : t \in Ended' <=> t \in Ended
    BY <1>1, <2>1, <2>2, SMT DEF View, EndedView
  <2>4. Todo' = Todo \ {x}
    BY <2>3, TodoIs DEF Todo
  <2>5. Active' = Active
    BY <2>8, ActiveIs DEF Active
  <2>6. Ended' = Ended
    BY <2>9, EndedIs DEF Ended
  <2>7. Failed
    BY <1>0, <1>10 DEF Control, ControlOf, Failed
  <2> QED
    BY <1>1, <1>5, <1>7, <1>8, <2>4, <2>5, <2>6, <2>7 DEF PoolDrop
<1> QED
  BY <1>9, <1>10

Pushes(t) == {Spawn[t][i] : i \in DOMAIN Spawn[t]}

LEMMA PushesAre ==
  ASSUME Types, NEW t \in Task
  PROVE  /\ DOMAIN Spawn[t] = 1 .. Len(Spawn[t])
         /\ \A c \in Pushes(t) : \E i \in 1 .. Len(Spawn[t]) : c = Spawn[t][i]
BY ConstantTypes, SeqLen DEF Pushes

PoolPush(t, c) ==
  /\ can_push
  /\ t \in Active
  /\ c \in Pushes(t)
  /\ c \notin Todo \cup Active \cup Ended
  /\ Todo' = Todo \cup {c}
  /\ UNCHANGED <<Active, Ended, Failed, AllDone>>

\* An executor pushes a task that was nowhere before.
LEMMA PoolPushNode ==
  ASSUME IInv, View, View', NEW w \in Worker, WorkerStep(w), PushNode(w)
  PROVE  \E t \in Task : \E c \in Task : PoolPush(t, c)
<1> DEFINE x == NextPush(w)
           p == task[w]
           k == pushed[w] + 1
<1>0. Types /\ Control /\ Placement /\ DistinctStacks /\ RunsExact
  BY DEF IInv, Placement
<1>1. /\ x \in Task /\ p \in Task /\ k \in 1 .. Len(Spawn[p]) /\ x = Spawn[p][k]
      /\ runs[p] = 1 /\ pc[w] \in ExecPC /\ can_push
  BY <1>0, PushTypes DEF NextPush, RunsExact
<1>2. ~Seen(x)
  BY <1>0, PushIsNew
<1>3. \A u \in Worker : ~Queued(u, x) /\ task[u] # x /\ ~Stack(u, x)
  BY <1>2, QueuedIs DEF Seen
<1>4. \A u \in Worker, t \in Task : Queued(u, t)' <=> Queued(u, t) \/ (u = w /\ t = x)
  BY <1>0, <1>3, PushNodeAdds
<1>5. /\ task' = task /\ runs' = runs /\ exception' = exception /\ pc'[w] = "push_wake"
      /\ \A u \in Worker \ {w} : pc'[u] = pc[u]
  BY <1>0, Others DEF PushNode, Goto, Types
<1>6. x \in Pushes(p)
  BY <1>0, <1>1, PushesAre DEF Pushes
<1>7. p \in Active
  BY <1>1 DEF View, ActiveView, InHand
<1> HIDE DEF x, p, k
<1>8. \A t \in Task : /\ InQueue(t)' <=> InQueue(t) \/ t = x
                      /\ InHand(t)' <=> InHand(t)
  BY <1>4, <1>5 DEF InQueue, InHand
<1>9. x \notin Todo \cup Active \cup Ended
  BY <1>1, <1>2 DEF View, SeenView
<1>10. \A t \in Task : t \in Todo' <=> t \in Todo \cup {x}
  BY <1>5, <1>8 DEF View, TodoView
<1>16. \A t \in Task : t \in Active' <=> t \in Active
  BY <1>5, <1>8 DEF View, ActiveView
<1>17. \A t \in Task : t \in Ended' <=> t \in Ended
  BY <1>5, <1>8 DEF View, EndedView
<1>11. Todo' = Todo \cup {x}
  BY <1>1, <1>10, TodoIs, SMT DEF Todo
<1>12. Active' = Active
  BY <1>16, ActiveIs DEF Active
<1>13. Ended' = Ended
  BY <1>17, EndedIs DEF Ended
<1>14. Failed' = Failed
  <2>1. pc[w] # "catch"
    BY <1>1 DEF ExecPC
  <2>2. Failed' <=> Failed
    BY <1>5, <2>1 DEF Failed
  <2> QED
    BY <2>2, FailedIsBoolean
<1>15. AllDone' = AllDone
  <2>1. ~AllDone' /\ ~AllDone
    BY <1>5, NotDone DEF AllDone
  <2> QED
    BY <2>1, AllDoneIsBoolean
<1> QED
  BY <1>1, <1>6, <1>7, <1>9, <1>11, <1>12, <1>13, <1>14, <1>15 DEF PoolPush

PoolEnd(t) ==
  /\ t \in Active
  /\ Failed \/ Pushes(t) \subseteq Todo \cup Active \cup Ended
  /\ Active' = Active \ {t}
  /\ Ended' = Ended \cup {t}
  /\ UNCHANGED <<Todo, Failed, AllDone>>

PoolFail(t) ==
  /\ t \in Active
  /\ t \in MayThrow \/ (~can_push /\ Pushes(t) # {})
  /\ Active' = Active \ {t}
  /\ Ended' = Ended \cup {t}
  /\ Failed' = TRUE
  /\ UNCHANGED <<Todo, AllDone>>

\* An executor returns, all its pushes done, or throws.
LEMMA PoolReturnOrThrow ==
  ASSUME IInv, View, View', NEW w \in Worker, WorkerStep(w), Return(w) \/ Throw(w)
  PROVE  \E t \in Task : PoolEnd(t) \/ PoolFail(t)
<1> DEFINE x == task[w]
<1>0. Types /\ Control /\ RunsExact /\ OneHolder /\ NothingLost
  BY DEF IInv, Placement
<1>1. /\ pc[w] = "exec" /\ x \in Task /\ runs[x] = 1
      /\ UNCHANGED <<next, initial, additional, runs, exception>>
  <2>1. pc[w] = "exec" /\ UNCHANGED <<next, initial, additional, runs, exception>>
    BY Split DEF Return, Throw
  <2>2. x \in Task
    BY <1>0, <2>1 DEF Control, ControlOf, ExecPC, Types
  <2> QED
    BY <1>0, <2>1, <2>2 DEF RunsExact, ExecPC
<1>2. /\ task \in [Worker -> Task \cup {NoTask}] /\ pc \in [Worker -> PC]
      /\ NoTask \notin Task /\ pushed[w] \in Nat
  BY <1>0, QueueAssumption DEF Types
<1>3. task'[w] = NoTask /\ pc'[w] \in {"pop", "catch"}
  BY <1>2 DEF Return, Throw, Goto
<1>4. \A u \in Worker \ {w} : task'[u] = task[u] /\ pc'[u] = pc[u] /\ task[u] # x
  BY <1>0, <1>1, <1>2, Others DEF OneHolder
<1>5. InHand(x)
  BY <1>1 DEF InHand
<1> HIDE DEF x
<1>6. \A t \in Task : /\ InQueue(t)' <=> InQueue(t)
                      /\ InHand(t)' <=> InHand(t) /\ t # x
  BY <1>1, <1>2, <1>3, <1>4 DEF InQueue, Queued, InHand, x
<1>7. \A t \in Task : t \in Todo' <=> t \in Todo
  BY <1>1, <1>6, SMT DEF View, TodoView
<1>14. x \in Active /\ \A t \in Task : t \in Active' <=> t \in Active \ {x}
  BY <1>1, <1>5, <1>6 DEF View, ActiveView
<1>15. \A t \in Task : t \in Ended' <=> t \in Ended \cup {x}
  BY <1>1, <1>5, <1>6 DEF View, EndedView
<1>8. Todo' = Todo
  BY <1>7, TodoIs DEF Todo
<1>9. Active' = Active \ {x}
  BY <1>14, ActiveIs DEF Active
<1>10. Ended' = Ended \cup {x}
  BY <1>1, <1>15, EndedIs DEF Ended
<1>11. AllDone' = AllDone
  <2>1. ~AllDone' /\ ~AllDone
    BY <1>3, NotDone DEF AllDone
  <2> QED
    BY <2>1, AllDoneIsBoolean
<1>12. CASE Return(w)
  <2>1. pc'[w] = "pop" /\ pushed[w] = Len(Spawn[x])
    BY <1>2, <1>12 DEF Return, Goto, x
  <2>2. Failed' = Failed
    <3>1. Failed' <=> Failed
      BY <1>1, <1>4, <2>1 DEF Failed
    <3> QED
      BY <3>1, FailedIsBoolean
  <2>3. ASSUME ~Failed PROVE Pushes(x) \subseteq Todo \cup Active \cup Ended
    <3>1. \A i \in 1 .. Len(Spawn[x]) : Was(x, i)
      BY <1>1, <1>2, <1>4, <2>1, SMT DEF Was, x
    <3>2. \A i \in 1 .. Len(Spawn[x]) : Seen(Spawn[x][i]) /\ Spawn[x][i] \in Task
      BY <1>0, <1>1, <2>3, <3>1, SpawnTypes DEF NothingLost
    <3>3. \A i \in 1 .. Len(Spawn[x]) : Spawn[x][i] \in Todo \cup Active \cup Ended
      BY <3>2 DEF View, SeenView
    <3> QED
      BY <1>0, <1>1, <3>3, PushesAre, SMT
  <2> QED
    BY <1>1, <1>14, <1>8, <1>9, <1>10, <1>11, <2>2, <2>3 DEF PoolEnd
<1>13. CASE Throw(w)
  <2>1. pc'[w] = "catch" /\ (x \in MayThrow \/ (~can_push /\ pushed[w] < Len(Spawn[x])))
    BY <1>2, <1>13 DEF Throw, Goto, x
  <2>2. Failed' = TRUE
    <3>1. Failed'
      BY <2>1 DEF Failed
    <3> QED
      BY <3>1, FailedIsBoolean
  <2>3. ASSUME pushed[w] < Len(Spawn[x]) PROVE Pushes(x) # {}
    <3>1. Len(Spawn[x]) \in Nat
      BY <1>0, <1>1, ConstantTypes
    <3>2. 1 \in 1 .. Len(Spawn[x])
      BY <1>2, <2>3, <3>1, SMT
    <3>3. 1 \in DOMAIN Spawn[x]
      BY <1>0, <1>1, <3>2, PushesAre
    <3> QED
      BY <3>3 DEF Pushes
  <2> QED
    BY <1>1, <1>14, <1>8, <1>9, <1>10, <1>11, <2>1, <2>2, <2>3 DEF PoolFail
<1> QED
  BY <1>12, <1>13

PoolReturn ==
  /\ ~AllDone
  /\ Active = {}
  /\ Failed \/ Todo = {}
  /\ AllDone' = TRUE
  /\ UNCHANGED <<Todo, Active, Ended, Failed>>

PoolQueue == can_push' = can_push /\ Added' = Added

LEMMA PoolNext ==
  ASSUME PoolQueue,
         \/ \E t \in Task : PoolStart(t) \/ PoolDrop(t) \/ PoolEnd(t) \/ PoolFail(t)
         \/ \E t \in Task : \E c \in Task : PoolPush(t, c)
         \/ PoolReturn
  PROVE  Pool!Next
<1>0. UNCHANGED Pool!queue
  BY DEF PoolQueue, Pool!queue, Added
<1>1. ASSUME NEW t \in Task, PoolStart(t) PROVE Pool!Start(t)
  BY <1>1 DEF PoolStart, Pool!Start, Todo, Active, Ended, Failed
<1>2. ASSUME NEW t \in Task, PoolDrop(t) PROVE Pool!Drop(t)
  BY <1>2 DEF PoolDrop, Pool!Drop, Todo, Active, Ended, Failed
<1>3. ASSUME NEW t \in Task, PoolEnd(t) PROVE Pool!End(t)
  BY <1>3 DEF PoolEnd, Pool!End, Pool!Pushable, Pushes, Todo, Active, Ended, Failed
<1>4. ASSUME NEW t \in Task, PoolFail(t) PROVE Pool!Fail(t)
  BY <1>4 DEF PoolFail, Pool!Fail, Pool!Pushable, Pushes, Todo, Active, Ended, Failed
<1>5. ASSUME NEW t \in Task, NEW c \in Task, PoolPush(t, c) PROVE Pool!Push(t, c)
  BY <1>5 DEF PoolPush, Pool!Push, Pool!Pushable, Pushes, Todo, Active, Ended, Failed
<1>6. ASSUME PoolReturn PROVE Pool!Return
  BY <1>6 DEF PoolReturn, Pool!Return, Todo, Active, Ended, Failed
<1> QED
  BY <1>0, <1>1, <1>2, <1>3, <1>4, <1>5, <1>6 DEF Pool!Next

LEMMA PoolStutters ==
  ASSUME PoolQueue, PoolFrame
  PROVE  UNCHANGED Pool!vars
BY DEF PoolQueue, PoolFrame, Pool!vars, Pool!queue, Added, Todo, Active, Ended, Failed

LEMMA PoolInit == Init => Pool!Init
<1> SUFFICES ASSUME Init PROVE Pool!Init
  OBVIOUS
<1>0. Types
  BY BaseInit DEF Base
<1>1. can_push \in BOOLEAN
  BY <1>0, ConstantTypes
<1>2. \A w \in Worker : pc[w] = "pop" /\ next[w] = 0 /\ Len(additional[w]) = 0
  BY DEF Init
<1>3. \A w \in Worker : pc[w] \notin PopPC /\ pc[w] \notin ExecPC /\ pc[w] # "catch" /\ pc[w] # "done"
  BY <1>2 DEF PopPC, ExecPC
<1>4. \A w \in Worker, t \in Task :
        Queued(w, t) <=> \E i \in 1 .. Len(initial[w]) : initial[w][i] = t
  BY <1>2, SMT DEF Queued
<1>5. Todo = Added
  BY <1>3, <1>4, SMT DEF Todo, Added, Popped
<1>6. Active = {}
  BY <1>3 DEF Active, Executing
<1>7. Ended = {}
  BY SMT DEF Ended, Init
<1>8. Failed = FALSE
  <2>1. ~Failed
    BY <1>3 DEF Failed, Init
  <2> QED
    BY <2>1, FailedIsBoolean
<1>9. AllDone = FALSE
  <2>1. 0 \in Worker
    BY QueueAssumption, SMT DEF Worker
  <2>2. ~AllDone
    BY <1>3, <2>1 DEF AllDone
  <2> QED
    BY <2>2, AllDoneIsBoolean
<1>10. Added \subseteq Task
  BY DEF Added
<1> QED
  BY <1>1, <1>5, <1>6, <1>7, <1>8, <1>9, <1>10 DEF Pool!Init, Added, Todo, Active, Ended, Failed

LEMMA PoolStep == IInv /\ IInv' /\ [Next]_vars => [Pool!Next]_(Pool!vars)
<1> SUFFICES ASSUME IInv, IInv', [Next]_vars PROVE [Pool!Next]_(Pool!vars)
  OBVIOUS
<1>0. View /\ View'
  BY ViewHolds, ViewHoldsNext
<1>1. ASSUME NEW w \in Worker, WorkerStep(w) PROVE [Pool!Next]_(Pool!vars)
  <2>0. PoolQueue
    BY <1>1, Split DEF PoolQueue, Added
  <2>1. ASSUME NEW v \in Worker, PopInitial(w, v) \/ PopAdditional(w, v) PROVE PoolFrame
    BY <1>0, <1>1, <2>1, PoolPop
  <2>2. CASE Bookkeeping(w)
    <3>1. UNCHANGED <<Todo, Active, Ended, Failed>> /\ ~AllDone
      BY <1>0, <1>1, <2>2, PoolBookkeeping, NotDone
    <3>2. CASE AllDone'
      <4>1. Active' = {} /\ (Failed' \/ Todo' = {}) /\ AllDone' = TRUE
        BY <1>0, <3>2, AllDoneIsBoolean DEF View, DoneView
      <4>2. PoolReturn
        BY <3>1, <4>1 DEF PoolReturn
      <4> QED
        BY <2>0, <4>2, PoolNext
    <3>3. CASE ~AllDone'
      <4>1. AllDone' = AllDone
        BY <3>1, <3>3, AllDoneIsBoolean
      <4>2. PoolFrame
        BY <3>1, <4>1 DEF PoolFrame
      <4> QED
        BY <2>0, <4>2, PoolStutters
    <3> QED
      BY <3>2, <3>3
  <2>3. CASE PopReturn(w)
    BY <1>0, <1>1, <2>0, <2>3, PoolPopReturn, PoolNext
  <2>4. CASE PushNode(w)
    BY <1>0, <1>1, <2>0, <2>4, PoolPushNode, PoolNext
  <2>5. CASE Return(w) \/ Throw(w)
    BY <1>0, <1>1, <2>0, <2>5, PoolReturnOrThrow, PoolNext
  <2> QED
    BY <1>1, <2>0, <2>1, <2>2, <2>3, <2>4, <2>5, Split, PoolStutters
<1>2. CASE UNCHANGED vars
  <2>1. PoolQueue /\ PoolFrame
    BY <1>2 DEF PoolQueue, PoolFrame, Added, Todo, Active, Ended, Failed, AllDone, Queued, Popped,
                Executing, vars
  <2> QED
    BY <2>1, PoolStutters
<1> QED
  BY <1>1, <1>2 DEF Next, Finished

\* The refinement: run_all, with its stealing, counters and semaphore, is a
\* pool that starts each task once, never abandons an execution, drops tasks
\* only after a failure, and returns when nothing is left to do.
THEOREM QueueImplementsPool == Spec => PoolSpec
<1>1. Init => Pool!Init
  BY PoolInit
<1>2. IInv /\ IInv' /\ [Next]_vars => [Pool!Next]_(Pool!vars)
  BY PoolStep
<1> QED
  BY <1>1, <1>2, Invariance, PTL DEF Spec, PoolSpec, Pool!Spec
=============================================================================

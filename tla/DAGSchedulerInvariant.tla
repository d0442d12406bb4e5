------------------------ MODULE DAGSchedulerInvariant -----------------------
(***************************************************************************)
(* The inductive invariant of PriorityThreadPoolDAGScheduler, for every    *)
(* graph of tasks without a cycle, whatever functions the actions register *)
(* and on any number of threads; what its parts say of the constants and of *)
(* one another; and the steps that touch neither a count nor what is posted. *)
(***************************************************************************)
EXTENDS DAGScheduler, FiniteSetTheorems, TLAPS

\* First-order steps go to Zenon; a step about numbers or updated functions
\* names SMT.
USE Zenon

BodyPC   == {"run", "augment"}
NotifyPC == {"notify", "schedule", "schedule_post"}
FinishPC == {"erase", "increment"} \cup NotifyPC
MainPC   == {"add", "ready", "schedule", "schedule_post", "join", "returned"}

\* The action was handed to the pool.
Posted(a) == a \in pending \/ calls[a] = 1

\* A continuation that waits for its task, and one that b is about to post.
Held(f) == \E i \in 1 .. Len(continuations[TaskOf[f]]) : continuations[TaskOf[f]][i] = f
Taken(b, f) == \E i \in 1 .. Len(conts[b]) : conts[b][i] = f

\* x has counted a and not yet posted it.
Gives(x, a) ==
  \/ pc[x] = "schedule_post" /\ target[x] = a
  \/ x \in Action /\ pc[x] = "augment" /\ NextFunction(x) = a
  \/ x \in Action /\ pc[x] = "post" /\ Taken(x, a)

\* The actions that the wait count of their task includes.
Live(a) ==
  \/ a \in pending
  \/ pc[a] \in BodyPC \cup {"decrement"}
  \/ \E x \in Actor : Gives(x, a)
Counted(t) == {a \in Action : TaskOf[a] = t /\ Live(a)}

\* The dependencies of t that have not told it that they are done.
Awaits(t, u) ==
  /\ t \in waiting_for[u]
  /\ \A a \in Action : TaskOf[a] = u /\ pc[a] \in NotifyPC => t \in left[a]
Open(t) == {u \in Task : Awaits(t, u)}

AllRun(t) == \A a \in Action : TaskOf[a] = t => HasRun(a)
PlainRun(t) == \A a \in Action : TaskOf[a] = t /\ Plain[a] => HasRun(a)
-----------------------------------------------------------------------------
\* The type invariant, but for the sign of the wait counts, which follows from
\* what they count.
Types ==
  /\ added \subseteq Dependency
  /\ waiting_for \in [Task -> SUBSET Task]
  /\ wait_counts \in [Task -> Int]
  /\ continuations \in [Task -> Seq(Action)]
  /\ ready \subseteq Task
  /\ pc \in [Actor -> ActorPC]
  /\ augmented \in [Action -> Nat]
  /\ conts \in [Action -> Seq(Action)]
  /\ left \in [Action -> SUBSET Task]
  /\ target \in [Actor -> Task \cup {NoTask}]
  /\ calls \in [Action -> Nat]
  /\ pending \subseteq Action
  /\ active \subseteq Action

\* What the place of an action says of its variables.
LifeOf(a) ==
  /\ calls[a] \in {0, 1}
  /\ a \in active <=> pc[a] # "none"
  /\ a \in pending => calls[a] = 0
  /\ pc[a] # "none" => calls[a] = 1
  /\ augmented[a] <= Len(Augment[a])
  /\ calls[a] = 0 => augmented[a] = 0
  /\ pc[a] = "augment" => /\ augmented[a] < Len(Augment[a])
                          /\ NextFunction(a) \notin Continuation
  /\ HasRun(a) => augmented[a] = Len(Augment[a])
  /\ conts[a] # <<>> <=> pc[a] \in {"increment", "post"}
  /\ target[a] # NoTask <=> pc[a] \in {"schedule", "schedule_post"}
  /\ pc[a] \notin {"add", "ready", "join", "returned"}
Life == \A a \in Action : LifeOf(a)

\* What the place of the caller of run says.
Owner ==
  /\ pc[Main] \in MainPC
  /\ target[Main] # NoTask <=> pc[Main] \in {"schedule", "schedule_post"}
  /\ pc[Main] = "add" => ready = {} /\ \A a \in Action : ~Posted(a)
  /\ pc[Main] # "add" => added = Dependency
  /\ pc[Main] \in {"join", "returned"} => ready = {}
  /\ pc[Main] = "returned" => pending = {} /\ active = {} /\ \A a \in Action : HasRun(a)

\* A function was registered: it was posted, or is kept for later.
Known(f) ==
  \/ Posted(f)
  \/ f \in Continuation /\ (Held(f) \/ \E b \in Action : Taken(b, f))

Registered ==
  \A a \in Action : \A k \in 1 .. Len(Augment[a]) :
    k <= augmented[a] <=> Known(Augment[a][k])

ContinuationsKept ==
  /\ \A t \in Task : \A i \in 1 .. Len(continuations[t]) :
       /\ continuations[t][i] \in Continuation
       /\ TaskOf[continuations[t][i]] = t
       /\ \A j \in 1 .. Len(continuations[t]) :
            continuations[t][i] = continuations[t][j] => i = j
  /\ \A b \in Action : \A i \in 1 .. Len(conts[b]) :
       /\ conts[b][i] \in Continuation
       /\ TaskOf[conts[b][i]] = TaskOf[b]
       /\ \A j \in 1 .. Len(conts[b]) : conts[b][i] = conts[b][j] => i = j

\* A continuation is in one place.
OnePlace ==
  \A f \in Action :
    /\ Held(f) => ~Posted(f) /\ \A b \in Action : ~Taken(b, f)
    /\ \A b \in Action : Taken(b, f) =>
         ~Posted(f) /\ \A c \in Action : Taken(c, f) => b = c

\* A task is scheduled when nothing is left to wait for, by one actor.
Scheduling ==
  \A t \in Task :
    /\ \A x \in Actor : target[x] = t =>
         ~Posted(t) /\ t \notin ready /\ \A y \in Actor : target[y] = t => x = y
    /\ t \in ready => ~Posted(t)
    /\ (Posted(t) \/ t \in ready \/ \E x \in Actor : target[x] = t)
         <=> pc[Main] # "add" /\ Open(t) = {}

Rooted == \A a \in Action : Posted(a) => Posted(TaskOf[a])

WaitCountExact ==
  \A t \in Task : wait_counts[t] = Cardinality(Open(t)) + Cardinality(Counted(t))

\* The action that brings the count to zero is alone with its task, and when
\* it finds no continuation the task is done.
Finishing ==
  \A a \in Action : pc[a] \in FinishPC =>
    /\ \A b \in Action : TaskOf[b] = TaskOf[a] =>
         ~Live(b) /\ (pc[b] \in FinishPC => a = b)
    /\ pc[a] \in NotifyPC => AllRun(TaskOf[a]) /\ left[a] \subseteq waiting_for[TaskOf[a]]

\* A task that was posted has an action left, or is done and has told so.
Carried ==
  \A t \in Task : Posted(t) =>
    \/ \E a \in Action : TaskOf[a] = t /\ (Live(a) \/ pc[a] \in FinishPC)
    \/ AllRun(t) /\ waiting_for[t] = {}

\* Whoever no longer waits for a task was told by it when it was done.
Told ==
  /\ \A t, u \in Task : t \in waiting_for[u] => <<t, u>> \in added
  /\ \A t, u \in Task : <<t, u>> \in added /\ ~Awaits(t, u) => AllRun(u)

\* A continuation leaves its task's list when all other actions have run.
Released ==
  \A c \in Continuation :
    Posted(c) \/ (\E b \in Action : Taken(b, c)) => PlainRun(TaskOf[c])

IInv ==
  /\ Types
  /\ Life
  /\ Owner
  /\ Registered
  /\ ContinuationsKept
  /\ OnePlace
  /\ Scheduling
  /\ Rooted
  /\ WaitCountExact
  /\ Finishing
  /\ Carried
  /\ Told
  /\ Released
  /\ ~aborted
-----------------------------------------------------------------------------
(***************************************************************************)
(* Sequences, finite sets and the constants.                               *)
(***************************************************************************)
LEMMA SeqFacts ==
  ASSUME NEW S, NEW s \in Seq(S)
  PROVE  /\ Len(s) \in Nat
         /\ s = <<>> <=> Len(s) = 0
         /\ \A i \in 1 .. Len(s) : s[i] \in S
BY SMT

LEMMA SeqHeadTail ==
  ASSUME NEW S, NEW s \in Seq(S), s # <<>>
  PROVE  /\ Head(s) \in S /\ Head(s) = s[1]
         /\ Tail(s) \in Seq(S) /\ Len(Tail(s)) = Len(s) - 1
         /\ \A i \in 1 .. Len(Tail(s)) : Tail(s)[i] = s[i + 1]
BY SMT

LEMMA SeqAppend ==
  ASSUME NEW S, NEW s \in Seq(S), NEW e \in S
  PROVE  /\ Append(s, e) \in Seq(S) /\ Len(Append(s, e)) = Len(s) + 1
         /\ \A i \in 1 .. Len(s) : Append(s, e)[i] = s[i]
         /\ Append(s, e)[Len(s) + 1] = e
BY SMT

LEMMA Finite ==
  ASSUME NEW S \in SUBSET Action
  PROVE  IsFiniteSet(S) /\ Cardinality(S) \in Nat
BY DAGAssumption, FS_Subset, FS_CardinalityType

LEMMA OneMore ==
  ASSUME NEW S \in SUBSET Action, NEW a, a \notin S
  PROVE  Cardinality(S \cup {a}) = Cardinality(S) + 1
BY Finite, FS_AddElement

LEMMA OneLess ==
  ASSUME NEW S \in SUBSET Action, NEW a \in S
  PROVE  Cardinality(S \ {a}) = Cardinality(S) - 1 /\ Cardinality(S) > 0
<1>1. IsFiniteSet(S) /\ Cardinality(S) \in Nat
  BY Finite
<1>2. Cardinality(S \ {a}) = Cardinality(S) - 1
  BY <1>1, FS_RemoveElement
<1>3. Cardinality(S \ {a}) \in Nat
  BY Finite
<1> QED
  BY <1>1, <1>2, <1>3, SMT

LEMMA Nobody ==
  ASSUME NEW S \in SUBSET Action
  PROVE  Cardinality(S) = 0 <=> S = {}
BY Finite, FS_EmptySet

LEMMA Constants ==
  /\ Task \subseteq Action /\ Action \subseteq Actor /\ Main \in Actor /\ Main \notin Action
  /\ NoTask \notin Task
  /\ \A a \in Action : TaskOf[a] \in Task /\ Len(Augment[a]) \in Nat
  /\ \A t \in Task : TaskOf[t] = t
  /\ \A a \in Action : \A k \in 1 .. Len(Augment[a]) :
       Augment[a][k] \in Action \ Task /\ TaskOf[Augment[a][k]] = TaskOf[a]
<1>1. \A a \in Action : Augment[a] \in Seq(Action \ Task)
  BY DAGAssumption
<1>2. \A a \in Action : Len(Augment[a]) \in Nat
  BY <1>1, SeqFacts
<1>3. \A a \in Action : \A k \in 1 .. Len(Augment[a]) : Augment[a][k] \in Action \ Task
  BY <1>1, SeqFacts
<1> QED
  BY <1>2, <1>3, DAGAssumption DEF Actor

\* Every function has an action that registers it, and one only.
LEMMA Registrar ==
  /\ \A f \in Action \ Task : \E a \in Action : \E k \in 1 .. Len(Augment[a]) : Augment[a][k] = f
  /\ \A a, b \in Action : \A j \in 1 .. Len(Augment[a]), k \in 1 .. Len(Augment[b]) :
       Augment[a][j] = Augment[b][k] => a = b /\ j = k
<1> DEFINE S == Task \cup {f \in Action : \E a \in Action : \E k \in 1 .. Len(Augment[a]) :
                                            Augment[a][k] = f}
<1>1. S \in SUBSET Action /\ Task \subseteq S
  BY Constants
<1>2. \A a \in S : \A k \in 1 .. Len(Augment[a]) : Augment[a][k] \in S
  BY <1>1, Constants
<1> HIDE DEF S
<1>3. S = Action
  BY <1>1, <1>2, AcyclicAssumption
<1>4. \A f \in Action \ Task : \E a \in Action : \E k \in 1 .. Len(Augment[a]) : Augment[a][k] = f
  BY <1>3 DEF S
<1> QED
  BY <1>4, AcyclicAssumption
-----------------------------------------------------------------------------
(***************************************************************************)
(* A step belongs to the caller of run or to an action, and changes only   *)
(* that one's local variables.                                             *)
(***************************************************************************)
OtherLocals(x) ==
  /\ \A y \in Actor \ {x} : pc'[y] = pc[y] /\ target'[y] = target[y]
  /\ \A y \in Action \ {x} : /\ augmented'[y] = augmented[y] /\ conts'[y] = conts[y]
                             /\ left'[y] = left[y] /\ calls'[y] = calls[y]

LEMMA MainIsLocal ==
  ASSUME Types, MainStep
  PROVE  /\ OtherLocals(Main)
         /\ UNCHANGED <<augmented, conts, left, calls>>
<1>1. pc \in [Actor -> ActorPC] /\ target \in [Actor -> Task \cup {NoTask}]
  BY DEF Types
<1>2. CASE \E d \in Dependency : AddDependency(d)
  BY <1>1, <1>2 DEF AddDependency, OtherLocals
<1>3. CASE Run \/ JoinBegin \/ RunEnd
  BY <1>1, <1>3 DEF Run, JoinBegin, RunEnd, Goto, OtherLocals
<1>4. CASE \E t \in Task : ScheduleReady(t)
  BY <1>1, <1>4 DEF ScheduleReady, Goto, OtherLocals
<1>5. CASE ScheduleIncrement(Main) \/ SchedulePost(Main)
  BY <1>1, <1>5 DEF ScheduleIncrement, SchedulePost, Goto, OtherLocals
<1> QED
  BY <1>2, <1>3, <1>4, <1>5 DEF MainStep

LEMMA ActionIsLocal ==
  ASSUME Types, NEW a \in Action, Start(a) \/ ActionStep(a)
  PROVE  OtherLocals(a)
<1>1. /\ pc \in [Actor -> ActorPC] /\ target \in [Actor -> Task \cup {NoTask}]
      /\ augmented \in [Action -> Nat] /\ conts \in [Action -> Seq(Action)]
      /\ left \in [Action -> SUBSET Task] /\ calls \in [Action -> Nat]
  BY DEF Types
<1>2. CASE Start(a)
  BY <1>1, <1>2 DEF Start, Goto, OtherLocals
<1>3. CASE PushContinuation(a)
  BY <1>1, <1>3 DEF PushContinuation, OtherLocals
<1>4. CASE AugmentIncrement(a)
  BY <1>1, <1>4 DEF AugmentIncrement, Goto, OtherLocals
<1>5. CASE AugmentPost(a)
  BY <1>1, <1>5 DEF AugmentPost, Goto, OtherLocals
<1>6. CASE BodyEnds(a) \/ Decrement(a)
  BY <1>1, <1>6 DEF BodyEnds, Decrement, Goto, OtherLocals
<1>7. CASE GetAndErase(a)
  BY <1>1, <1>7 DEF GetAndErase, Goto, OtherLocals
<1>8. CASE ContinuationsIncrement(a)
  BY <1>1, <1>8 DEF ContinuationsIncrement, Goto, OtherLocals
<1>9. CASE ContinuationPost(a)
  BY <1>1, <1>9 DEF ContinuationPost, Goto, OtherLocals
<1>10. CASE \E t \in Task : Notify(a, t)
  BY <1>1, <1>10 DEF Notify, Goto, OtherLocals
<1>11. CASE NotifyEnd(a)
  BY <1>1, <1>11 DEF NotifyEnd, Goto, OtherLocals
<1>12. CASE ScheduleIncrement(a)
  BY <1>1, <1>12 DEF ScheduleIncrement, Goto, OtherLocals
<1>13. CASE SchedulePost(a)
  BY <1>1, <1>13 DEF SchedulePost, Goto, OtherLocals
<1>14. CASE End(a)
  BY <1>1, <1>14 DEF End, Goto, OtherLocals
<1> QED
  BY <1>2, <1>3, <1>4, <1>5, <1>6, <1>7, <1>8, <1>9, <1>10, <1>11, <1>12, <1>13, <1>14
     DEF ActionStep

\* Who schedules has a task to schedule.
LEMMA HasTarget ==
  ASSUME Types, Life, Owner, NEW x \in Actor, pc[x] \in {"schedule", "schedule_post"}
  PROVE  target[x] \in Task
BY Constants, SMT DEF Types, Life, LifeOf, Owner, Actor

LEMMA NextIsFunction ==
  ASSUME Types, NEW a \in Action, augmented[a] < Len(Augment[a])
  PROVE  /\ augmented[a] + 1 \in 1 .. Len(Augment[a])
         /\ NextFunction(a) = Augment[a][augmented[a] + 1]
         /\ NextFunction(a) \in Action \ Task
         /\ TaskOf[NextFunction(a)] = TaskOf[a]
<1>1. augmented[a] \in Nat /\ Len(Augment[a]) \in Nat
  BY Constants DEF Types
<1>2. augmented[a] + 1 \in 1 .. Len(Augment[a])
  BY <1>1, SMT
<1> QED
  BY <1>2, Constants DEF NextFunction

LEMMA MainTypes ==
  ASSUME Types, Life, Owner, MainStep
  PROVE  Types'
<1> USE DEF Types
<1>0. UNCHANGED <<augmented, conts, left, calls>>
  BY MainIsLocal
<1>1. CASE \E d \in Dependency : AddDependency(d)
  <2>1. PICK d \in Dependency : AddDependency(d)
    BY <1>1
  <2>2. d[1] \in Task /\ d[2] \in Task
    BY DAGAssumption
  <2>3. waiting_for' \in [Task -> SUBSET Task]
    BY <2>1, <2>2 DEF AddDependency
  <2>4. wait_counts' \in [Task -> Int]
    BY <2>1, <2>2, SMT DEF AddDependency, Count
  <2>5. added' \subseteq Dependency
    BY <2>1 DEF AddDependency
  <2> QED
    BY <1>0, <2>1, <2>3, <2>4, <2>5, SMT DEF AddDependency, pool
<1>2. CASE Run
  BY <1>0, <1>2, Constants, SMT DEF Run, Goto, ActorPC, pool
<1>3. CASE \E t \in Task : ScheduleReady(t)
  BY <1>0, <1>3, Constants, SMT DEF ScheduleReady, Goto, ActorPC, pool
<1>4. CASE ScheduleIncrement(Main)
  <2>1. target[Main] \in Task
    BY <1>4, HasTarget, Constants DEF ScheduleIncrement
  <2> QED
    BY <1>0, <1>4, <2>1, Constants, SMT DEF ScheduleIncrement, Count, Goto, ActorPC, pool
<1>5. CASE SchedulePost(Main)
  <2>1. target[Main] \in Task
    BY <1>5, HasTarget, Constants DEF SchedulePost
  <2>2. pending' = pending \cup {target[Main]} /\ active' = active
    BY <1>5 DEF SchedulePost, Pool!Post
  <2>3. pending' \subseteq Action /\ active' \subseteq Action
    BY <2>1, <2>2, Constants, SMT
  <2> QED
    BY <1>0, <1>5, <2>1, <2>3, Constants, SMT DEF SchedulePost, Goto, ActorPC
<1>6. CASE JoinBegin
  BY <1>0, <1>6, Constants, SMT DEF JoinBegin, Goto, ActorPC, pool
<1>7. CASE RunEnd
  <2>1. pending' = pending /\ active' = active
    BY <1>7 DEF RunEnd, Pool!Joined
  <2>2. continuations' \in [Task -> Seq(Action)]
    BY <1>7, SMT DEF RunEnd
  <2>3. wait_counts' \in [Task -> Int] /\ waiting_for' \in [Task -> SUBSET Task]
    BY <1>7, SMT DEF RunEnd
  <2> QED
    BY <1>0, <1>7, <2>1, <2>2, <2>3, Constants, SMT DEF RunEnd, Goto, ActorPC
<1> QED
  BY <1>1, <1>2, <1>3, <1>4, <1>5, <1>6, <1>7 DEF MainStep

LEMMA ActionTypes ==
  ASSUME Types, Life, Owner, NEW a \in Action, Start(a) \/ ActionStep(a)
  PROVE  Types'
<1> USE DEF Types
<1>0. TaskOf[a] \in Task /\ a \in Actor
  BY Constants
<1>1. CASE Start(a)
  <2>1. pending' = pending \ {a} /\ active' = active \cup {a}
    BY <1>1 DEF Start, Pool!Start
  <2> QED
    BY <1>0, <1>1, <2>1, SMT DEF Start, Goto, ActorPC
<1>2. CASE PushContinuation(a)
  <2>1. NextFunction(a) \in Action
    BY <1>2, NextIsFunction DEF PushContinuation
  <2>2. Append(continuations[TaskOf[a]], NextFunction(a)) \in Seq(Action)
    BY <1>0, <2>1, SeqAppend
  <2>3. continuations' \in [Task -> Seq(Action)]
    BY <1>0, <1>2, <2>2 DEF PushContinuation
  <2>4. augmented' \in [Action -> Nat]
    BY <1>2, SMT DEF PushContinuation
  <2> QED
    BY <1>2, <2>3, <2>4 DEF PushContinuation, pool
<1>3. CASE AugmentIncrement(a)
  BY <1>0, <1>3, SMT DEF AugmentIncrement, Count, Goto, ActorPC, pool
<1>4. CASE AugmentPost(a)
  <2>1. NextFunction(a) \in Action
    BY <1>4, NextIsFunction DEF AugmentPost, Life, LifeOf
  <2>2. pending' = pending \cup {NextFunction(a)} /\ active' = active
    BY <1>4 DEF AugmentPost, Pool!Post
  <2> QED
    BY <1>0, <1>4, <2>1, <2>2, SMT DEF AugmentPost, Goto, ActorPC
<1>5. CASE BodyEnds(a)
  BY <1>0, <1>5 DEF BodyEnds, Goto, ActorPC, pool
<1>6. CASE Decrement(a)
  BY <1>0, <1>6, SMT DEF Decrement, Count, Goto, ActorPC, pool
<1>7. CASE GetAndErase(a)
  <2>1. continuations[TaskOf[a]] \in Seq(Action) /\ waiting_for[TaskOf[a]] \in SUBSET Task
    BY <1>0
  <2>2. conts' \in [Action -> Seq(Action)] /\ continuations' \in [Task -> Seq(Action)]
    BY <1>0, <1>7, <2>1, SMT DEF GetAndErase
  <2>3. left' \in [Action -> SUBSET Task]
    BY <1>7, <2>1 DEF GetAndErase
  <2>4. pc' \in [Actor -> ActorPC]
    <3>1. \E s \in {"notify", "increment"} : pc' = [pc EXCEPT ![a] = s]
      BY <1>7 DEF GetAndErase, Goto
    <3> QED
      BY <1>0, <3>1, SMT DEF ActorPC
  <2> QED
    BY <1>7, <2>2, <2>3, <2>4 DEF GetAndErase, pool
<1>8. CASE ContinuationsIncrement(a)
  <2>1. Len(conts[a]) \in Nat
    BY SeqFacts
  <2> QED
    BY <1>0, <1>8, <2>1, SMT DEF ContinuationsIncrement, Count, Goto, ActorPC, pool
<1>9. CASE ContinuationPost(a)
  <2>1. conts[a] \in Seq(Action) /\ conts[a] # <<>>
    BY <1>9 DEF ContinuationPost, Life, LifeOf
  <2>2. Head(conts[a]) \in Action /\ Tail(conts[a]) \in Seq(Action)
    BY <2>1, SeqHeadTail
  <2>3. pending' = pending \cup {Head(conts[a])} /\ active' = active
    BY <1>9 DEF ContinuationPost, Pool!Post
  <2> QED
    BY <1>0, <1>9, <2>2, <2>3 DEF ContinuationPost, Goto, ActorPC
<1>10. CASE \E t \in Task : Notify(a, t)
  <2>1. PICK t \in Task : Notify(a, t)
    BY <1>10
  <2>2. left' \in [Action -> SUBSET Task] /\ wait_counts' \in [Task -> Int]
    BY <2>1, SMT DEF Notify, Count
  <2>3. target' \in [Actor -> Task \cup {NoTask}]
    BY <1>0, <2>1 DEF Notify
  <2>4. pc' \in [Actor -> ActorPC]
    BY <1>0, <2>1 DEF Notify, Goto, ActorPC
  <2> QED
    BY <2>1, <2>2, <2>3, <2>4 DEF Notify, pool
<1>11. CASE NotifyEnd(a)
  BY <1>0, <1>11 DEF NotifyEnd, Goto, ActorPC, pool
<1>12. CASE ScheduleIncrement(a)
  <2>1. target[a] \in Task
    BY <1>0, <1>12, HasTarget DEF ScheduleIncrement
  <2> QED
    BY <1>0, <1>12, <2>1, SMT DEF ScheduleIncrement, Count, Goto, ActorPC, pool
<1>13. CASE SchedulePost(a)
  <2>1. target[a] \in Action
    BY <1>0, <1>13, HasTarget, Constants DEF SchedulePost
  <2>2. pending' = pending \cup {target[a]} /\ active' = active
    BY <1>13 DEF SchedulePost, Pool!Post
  <2> QED
    BY <1>0, <1>13, <2>1, <2>2 DEF SchedulePost, Goto, ActorPC
<1>14. CASE End(a)
  <2>1. active' = active \ {a} /\ pending' = pending
    BY <1>14 DEF End, Pool!End
  <2> QED
    BY <1>0, <1>14, <2>1 DEF End, Goto, ActorPC
<1> QED
  BY <1>1, <1>2, <1>3, <1>4, <1>5, <1>6, <1>7, <1>8, <1>9, <1>10, <1>11, <1>12, <1>13, <1>14
     DEF ActionStep
-----------------------------------------------------------------------------
(***************************************************************************)
(* What a step leaves alone.                                               *)
(***************************************************************************)
LivePC == BodyPC \cup {"decrement"}

\* Why c counts, as far as x is concerned.
Part(x, c) == c \in pending \/ (c = x /\ pc[c] \in LivePC) \/ Gives(x, c)

LEMMA OthersGive ==
  ASSUME Types, NEW x \in Actor, OtherLocals(x)
  PROVE  /\ \A y \in Actor \ {x}, c \in Action : Gives(y, c)' <=> Gives(y, c)
         /\ \A y \in Action \ {x}, c \in Action : Taken(y, c)' <=> Taken(y, c)
         /\ \A y \in Action \ {x} : HasRun(y)' <=> HasRun(y)
<1>1. \A y \in Actor \ {x} : pc'[y] = pc[y] /\ target'[y] = target[y]
  BY DEF OtherLocals
<1>2. \A y \in Action \ {x} : /\ augmented'[y] = augmented[y] /\ conts'[y] = conts[y]
                              /\ calls'[y] = calls[y] /\ pc'[y] = pc[y]
  BY Constants DEF OtherLocals
<1>3. \A y \in Action \ {x}, c \in Action : Taken(y, c)' <=> Taken(y, c)
  BY <1>2 DEF Taken
<1>4. \A y \in Action \ {x} : NextFunction(y)' = NextFunction(y)
  BY <1>2 DEF NextFunction
<1>5. \A y \in Actor \ {x}, c \in Action : Gives(y, c)' <=> Gives(y, c)
  BY <1>1, <1>3, <1>4 DEF Gives
<1>6. \A y \in Action \ {x} : HasRun(y)' <=> HasRun(y)
  BY <1>2 DEF HasRun
<1> QED
  BY <1>3, <1>5, <1>6

LEMMA LiveParts ==
  ASSUME NEW x \in Actor, NEW c \in Action
  PROVE  Live(c) <=> \/ Part(x, c)
                     \/ c # x /\ pc[c] \in LivePC
                     \/ \E y \in Actor \ {x} : Gives(y, c)
BY DEF Live, Part, LivePC

LEMMA LiveSame ==
  ASSUME Types, NEW x \in Actor, OtherLocals(x), NEW c \in Action, Part(x, c)' <=> Part(x, c)
  PROVE  Live(c)' <=> Live(c)
<1>1. Live(c)' <=> \/ Part(x, c)'
                   \/ c # x /\ pc'[c] \in LivePC
                   \/ \E y \in Actor \ {x} : Gives(y, c)'
  BY DEF Live, Part, LivePC
<1>2. c # x => pc'[c] = pc[c]
  BY Constants DEF OtherLocals
<1> QED
  BY <1>1, <1>2, LiveParts, OthersGive

LEMMA CountedSame ==
  ASSUME \A c \in Action : Live(c)' <=> Live(c), NEW t \in Task
  PROVE  Counted(t)' = Counted(t)
BY DEF Counted

LEMMA OpenSame ==
  ASSUME \A t, u \in Task : Awaits(t, u)' <=> Awaits(t, u), NEW t \in Task
  PROVE  Open(t)' = Open(t)
BY DEF Open

LEMMA AwaitsSame ==
  ASSUME UNCHANGED <<waiting_for, left>>,
         \A c \in Action : pc'[c] \in NotifyPC <=> pc[c] \in NotifyPC,
         NEW t \in Task, NEW u \in Task
  PROVE  Awaits(t, u)' <=> Awaits(t, u)
BY DEF Awaits

LEMMA HeldSame ==
  ASSUME UNCHANGED <<continuations, conts>>
  PROVE  /\ \A f \in Action : Held(f)' <=> Held(f)
         /\ \A b, f \in Action : Taken(b, f)' <=> Taken(b, f)
         /\ ContinuationsKept => ContinuationsKept'
BY SMT DEF Held, Taken, ContinuationsKept

\* What holds of finished tasks survives if everything that has run stays run.
LEMMA RunKept ==
  ASSUME \A c \in Action : HasRun(c) => HasRun(c)', NEW t \in Task
  PROVE  (AllRun(t) => AllRun(t)') /\ (PlainRun(t) => PlainRun(t)')
BY DEF AllRun, PlainRun

\* A step that posts, counts, registers and finishes nothing.
LEMMA Frame ==
  ASSUME IInv, UNCHANGED <<added, waiting_for, wait_counts, continuations, augmented, conts, left>>,
         \A c \in Action : /\ Posted(c)' <=> Posted(c)
                           /\ Live(c)' <=> Live(c)
                           /\ HasRun(c) => HasRun(c)'
                           /\ pc'[c] \in NotifyPC <=> pc[c] \in NotifyPC
                           /\ pc'[c] \in FinishPC <=> pc[c] \in FinishPC
  PROVE  /\ Registered' /\ ContinuationsKept' /\ OnePlace' /\ Rooted' /\ WaitCountExact'
         /\ Finishing' /\ Carried' /\ Told' /\ Released'
         /\ \A t \in Task : Open(t)' = Open(t)
<1> USE DEF IInv
<1>1. \A f \in Action : Held(f)' <=> Held(f)
  BY HeldSame
<1>2. \A b, f \in Action : Taken(b, f)' <=> Taken(b, f)
  BY HeldSame
<1>3. \A t, u \in Task : Awaits(t, u)' <=> Awaits(t, u)
  BY AwaitsSame
<1>4. \A t \in Task : Open(t)' = Open(t) /\ Counted(t)' = Counted(t)
  BY <1>3, OpenSame, CountedSame
<1>5. \A t \in Task : (AllRun(t) => AllRun(t)') /\ (PlainRun(t) => PlainRun(t)')
  BY RunKept
<1>6. \A f \in Action : Known(f)' <=> Known(f)
  BY <1>1, <1>2 DEF Known
<1>7. Registered'
  BY <1>6, Constants DEF Registered
<1>8. ContinuationsKept'
  BY HeldSame
<1>9. OnePlace'
  BY <1>1, <1>2 DEF OnePlace
<1>10. Rooted'
  BY Constants DEF Rooted
<1>11. WaitCountExact'
  BY <1>4 DEF WaitCountExact
<1>12. Finishing'
  BY <1>5, Constants DEF Finishing
<1>13. Carried'
  BY <1>5, Constants, SMT DEF Carried
<1>14. Told'
  BY <1>3, <1>5 DEF Told
<1>15. Released'
  BY <1>2, <1>5, Constants, DAGAssumption DEF Released
<1> QED
  BY <1>4, <1>7, <1>8, <1>9, <1>10, <1>11, <1>12, <1>13, <1>14, <1>15
-----------------------------------------------------------------------------
(***************************************************************************)
(* Consequences of the invariant.                                          *)
(***************************************************************************)
\* What is counted and not yet posted was never posted, and is given by an
\* action of its task, unless it is the task itself.
LEMMA GivenFacts ==
  ASSUME IInv, NEW x \in Actor, NEW c \in Action, Gives(x, c)
  PROVE  /\ ~Posted(c)
         /\ \/ c \in Task /\ target[x] = c
            \/ x \in Action /\ calls[x] = 1 /\ TaskOf[x] = TaskOf[c] /\ c \notin Task
<1> USE DEF IInv
<1>1. CASE pc[x] = "schedule_post" /\ target[x] = c
  <2>1. c \in Task
    BY <1>1, HasTarget
  <2> QED
    BY <1>1, <2>1 DEF Scheduling
<1>2. CASE x \in Action /\ pc[x] = "augment" /\ NextFunction(x) = c
  <2>1. calls[x] = 1 /\ augmented[x] < Len(Augment[x]) /\ c \notin Continuation
    BY <1>2 DEF Life, LifeOf
  <2>2. augmented[x] \in Nat
    BY <1>2 DEF Types
  <2>3. ~Known(c)
    BY <1>2, <2>1, <2>2, NextIsFunction, SMT DEF Registered
  <2> QED
    BY <1>2, <2>1, <2>3, NextIsFunction DEF Known
<1>3. CASE x \in Action /\ pc[x] = "post" /\ Taken(x, c)
  <2>1. calls[x] = 1
    BY <1>3 DEF Life, LifeOf
  <2>2. c \in Continuation /\ TaskOf[c] = TaskOf[x]
    BY <1>3, SMT DEF ContinuationsKept, Taken
  <2>3. ~Posted(c)
    BY <1>3 DEF OnePlace
  <2> QED
    BY <1>3, <2>1, <2>2, <2>3, DAGAssumption
<1> QED
  BY <1>1, <1>2, <1>3 DEF Gives

\* A task with an action that counts was posted or is about to be.
LEMMA LiveBegun ==
  ASSUME IInv, NEW c \in Action, Live(c)
  PROVE  \/ Posted(TaskOf[c])
         \/ c = TaskOf[c] /\ \E x \in Actor : target[x] = c /\ pc[x] = "schedule_post"
<1> USE DEF IInv
<1>1. CASE c \in pending
  BY <1>1 DEF Posted, Rooted
<1>2. CASE pc[c] \in LivePC
  BY <1>2 DEF Life, LifeOf, LivePC, BodyPC, Posted, Rooted
<1>3. CASE \E x \in Actor : Gives(x, c)
  <2>1. PICK x \in Actor : Gives(x, c)
    BY <1>3
  <2>2. CASE c \in Task /\ target[x] = c
    <3>1. pc[x] = "schedule_post" \/ (x \in Action /\ pc[x] \in {"augment", "post"})
      BY <2>1 DEF Gives
    <3>2. target[x] # NoTask
      BY <2>2, Constants
    <3>3. x \in Action => pc[x] \in {"schedule", "schedule_post"}
      BY <3>2 DEF Life, LifeOf
    <3> QED
      BY <2>2, <3>1, <3>3, Constants
  <2>3. CASE x \in Action /\ calls[x] = 1 /\ TaskOf[x] = TaskOf[c]
    <3>1. Posted(x)
      BY <2>3 DEF Posted
    <3> QED
      BY <2>3, <3>1 DEF Rooted
  <2> QED
    BY <2>1, <2>2, <2>3, GivenFacts
<1> QED
  BY <1>1, <1>2, <1>3 DEF Live, LivePC

LEMMA LifeOthers ==
  ASSUME Types, Life, NEW x \in Actor, OtherLocals(x), NEW y \in Action, y # x,
         y \in active' <=> y \in active,
         y \in pending' => y \in pending \/ calls[y] = 0
  PROVE  LifeOf(y)'
<1>1. /\ pc'[y] = pc[y] /\ target'[y] = target[y] /\ augmented'[y] = augmented[y]
      /\ conts'[y] = conts[y] /\ calls'[y] = calls[y]
  BY Constants DEF OtherLocals
<1>2. LifeOf(y)
  BY DEF Life
<1> QED
  BY <1>1, <1>2 DEF LifeOf, HasRun, NextFunction

\* While an action runs, the caller of run is between its first post and its
\* return, and stays where it is.
LEMMA OwnerKept ==
  ASSUME IInv, NEW a \in Action, Start(a) \/ ActionStep(a)
  PROVE  /\ Posted(a)
         /\ pc[Main] \notin {"add", "returned"} /\ pc'[Main] = pc[Main]
         /\ UNCHANGED <<added, ready>> /\ Owner'
<1> USE DEF IInv
<1>1. a \in pending \/ pc[a] # "none"
  <2>1. CASE Start(a)
    BY <2>1 DEF Start, Pool!Start
  <2>2. CASE ActionStep(a)
    BY <2>2 DEF ActionStep, PushContinuation, AugmentIncrement, AugmentPost, BodyEnds, Decrement,
                GetAndErase, ContinuationsIncrement, ContinuationPost, Notify, NotifyEnd,
                ScheduleIncrement, SchedulePost, End
  <2> QED
    BY <2>1, <2>2
<1>2. Posted(a) /\ ~(pending = {} /\ active = {})
  BY <1>1 DEF Posted, Life, LifeOf
<1>3. pc[Main] \notin {"add", "returned"}
  BY <1>2 DEF Owner
<1>4. pc'[Main] = pc[Main] /\ target'[Main] = target[Main]
  BY ActionIsLocal, Constants, SMT DEF OtherLocals
<1>5. UNCHANGED <<added, ready>>
  <2>1. CASE Start(a)
    BY <2>1 DEF Start
  <2>2. CASE ActionStep(a)
    BY <2>2 DEF ActionStep, PushContinuation, AugmentIncrement, AugmentPost, BodyEnds, Decrement,
                GetAndErase, ContinuationsIncrement, ContinuationPost, Notify, NotifyEnd,
                ScheduleIncrement, SchedulePost, End
  <2> QED
    BY <2>1, <2>2
<1> QED
  BY <1>2, <1>3, <1>4, <1>5 DEF Owner

\* A step of an action that neither posts nor counts anything and is not about
\* other tasks.
LEMMA Quiet ==
  ASSUME IInv, NEW a \in Action, Start(a) \/ ActionStep(a), LifeOf(a)', ~aborted',
         UNCHANGED <<waiting_for, wait_counts, continuations, augmented, conts, left, target>>,
         \A c \in Action : /\ Posted(c)' <=> Posted(c)
                           /\ Part(a, c)' <=> Part(a, c)
                           /\ c # a => /\ c \in active' <=> c \in active
                                       /\ c \in pending' => c \in pending,
         HasRun(a) => HasRun(a)',
         pc'[a] \in NotifyPC <=> pc[a] \in NotifyPC,
         pc'[a] \in FinishPC <=> pc[a] \in FinishPC
  PROVE  IInv'
<1>1. Types /\ Life /\ Owner /\ Scheduling
  BY DEF IInv
<1>2. OtherLocals(a) /\ Types'
  BY <1>1, ActionIsLocal, ActionTypes
<1>3. UNCHANGED <<added, ready>> /\ Owner' /\ pc'[Main] = pc[Main]
  BY OwnerKept
<1>4. Life'
  BY <1>1, <1>2, LifeOthers, Constants, SMT DEF Life
<1>5. \A c \in Action : Live(c)' <=> Live(c)
  BY <1>1, <1>2, LiveSame, Constants
<1>6. \A c \in Action : /\ HasRun(c) => HasRun(c)'
                        /\ pc'[c] \in NotifyPC <=> pc[c] \in NotifyPC
                        /\ pc'[c] \in FinishPC <=> pc[c] \in FinishPC
  BY <1>1, <1>2, OthersGive, Constants, SMT DEF OtherLocals
<1>7. /\ Registered' /\ ContinuationsKept' /\ OnePlace' /\ Rooted' /\ WaitCountExact'
      /\ Finishing' /\ Carried' /\ Told' /\ Released'
      /\ \A t \in Task : Open(t)' = Open(t)
  BY <1>3, <1>5, <1>6, Frame
<1>8. Scheduling'
  BY <1>1, <1>3, <1>7, Constants, SMT DEF Scheduling
<1> QED
  BY <1>2, <1>3, <1>4, <1>7, <1>8 DEF IInv
-----------------------------------------------------------------------------
(***************************************************************************)
(* The invariant holds at first, and every step keeps it.                  *)
(***************************************************************************)
LEMMA InitIInv == Init => IInv
<1> SUFFICES ASSUME Init PROVE IInv
  OBVIOUS
<1>1. pending = {} /\ active = {}
  BY DEF Init, Pool!Init
<1>2. \A a \in Action : /\ pc[a] = "none" /\ calls[a] = 0 /\ augmented[a] = 0 /\ conts[a] = <<>>
                        /\ target[a] = NoTask
  BY Constants DEF Init
<1>3. pc[Main] = "add" /\ target[Main] = NoTask /\ ready = {} /\ added = {}
  BY Constants DEF Init
<1>4. \A t \in Task : waiting_for[t] = {} /\ wait_counts[t] = 0 /\ continuations[t] = <<>>
  BY DEF Init
<1>5. Types
  BY <1>1, SMT DEF Init, Types, ActorPC
<1>6. Life
  BY <1>1, <1>2, Constants, SMT DEF Life, LifeOf, HasRun
<1>7. \A a \in Action : ~Posted(a) /\ ~Held(a) /\ \A b \in Action : ~Taken(b, a)
  BY <1>1, <1>2, <1>4, Constants, SMT DEF Posted, Held, Taken
<1>8. Owner
  BY <1>3, <1>7 DEF Owner, MainPC
<1>9. Registered
  BY <1>2, <1>7, Constants, SMT DEF Registered, Known
<1>10. ContinuationsKept
  BY <1>2, <1>4, SMT DEF ContinuationsKept
<1>11. OnePlace /\ Rooted
  BY <1>7 DEF OnePlace, Rooted
<1>12. \A x \in Actor : target[x] = NoTask /\ pc[x] \in {"none", "add"}
  BY <1>2, <1>3 DEF Actor
<1>13. Scheduling
  BY <1>3, <1>7, <1>12, Constants DEF Scheduling
<1>14. \A a \in Action : ~Live(a)
  BY <1>1, <1>2, <1>12 DEF Live, Gives, BodyPC
<1>15. \A t \in Task : Counted(t) = {} /\ Open(t) = {}
  BY <1>4, <1>14 DEF Counted, Open, Awaits
<1>16. WaitCountExact
  <2>1. Cardinality({}) = 0
    BY FS_EmptySet
  <2>2. \A t \in Task : Cardinality(Open(t)) = 0 /\ Cardinality(Counted(t)) = 0
    BY <1>15, <2>1
  <2> QED
    BY <1>4, <2>2, SMT DEF WaitCountExact
<1>17. Finishing
  BY <1>2 DEF Finishing, FinishPC, NotifyPC
<1>18. Carried
  BY <1>7, Constants DEF Carried
<1>19. Told
  BY <1>3, <1>4 DEF Told
<1>20. Released
  BY <1>7, DAGAssumption DEF Released
<1> QED
  BY <1>5, <1>6, <1>8, <1>9, <1>10, <1>11, <1>13, <1>16, <1>17, <1>18, <1>19, <1>20
     DEF IInv, Init

LEMMA StartIInv ==
  ASSUME IInv, NEW a \in Action, Start(a)
  PROVE  IInv'
<1>1. Types /\ LifeOf(a) /\ Life
  BY DEF IInv, Life
<1>2. pending' = pending \ {a} /\ active' = active \cup {a} /\ a \in pending
  BY DEF Start, Pool!Start
<1>3. pc[a] = "none" /\ calls[a] = 0 /\ pc'[a] = "run" /\ calls'[a] = 1
  <2>1. calls[a] = 0 /\ pc[a] = "none"
    BY <1>1, <1>2, SMT DEF LifeOf
  <2> QED
    BY <1>1, <2>1, Constants, SMT DEF Start, Goto, Types
<1>4. OtherLocals(a)
  BY <1>1, ActionIsLocal
<1>5. LifeOf(a)'
  <2>1. UNCHANGED <<augmented, conts, target>>
    BY DEF Start
  <2> QED
    BY <1>1, <1>2, <1>3, <2>1 DEF LifeOf, HasRun
<1>6. \A c \in Action : Posted(c)' <=> Posted(c)
  BY <1>1, <1>2, <1>3, <1>4 DEF Posted, OtherLocals
<1>7. \A c \in Action : ~Gives(a, c)'
  BY <1>3 DEF Gives
<1>8. \A c \in Action : Part(a, c)' <=> Part(a, c)
  <2>1. \A c \in Action : ~Gives(a, c)
    BY <1>3 DEF Gives
  <2> QED
    BY <1>2, <1>3, <1>7, <2>1 DEF Part, LivePC, BodyPC
<1>9. HasRun(a) => HasRun(a)'
  BY <1>3, SMT DEF HasRun
<1>10. ~(pc'[a] \in FinishPC) /\ ~(pc[a] \in FinishPC) /\ ~(pc'[a] \in NotifyPC) /\ ~(pc[a] \in NotifyPC)
  BY <1>3 DEF FinishPC, NotifyPC
<1>11. /\ UNCHANGED <<waiting_for, wait_counts, continuations, augmented, conts, left, target>>
       /\ ~aborted'
  BY DEF Start, IInv
<1> QED
  BY <1>2, <1>5, <1>6, <1>8, <1>9, <1>10, <1>11, Quiet

LEMMA EndIInv ==
  ASSUME IInv, NEW a \in Action, End(a)
  PROVE  IInv'
<1>0. ActionStep(a)
  BY DEF ActionStep
<1>1. Types /\ LifeOf(a) /\ Life
  BY DEF IInv, Life
<1>2. pending' = pending /\ active' = active \ {a}
  BY DEF End, Pool!End
<1>3. pc[a] = "end" /\ pc'[a] = "none"
  BY <1>1, Constants, SMT DEF End, Goto, Types
<1>4. /\ UNCHANGED <<waiting_for, wait_counts, continuations, augmented, conts, left, target, calls>>
      /\ ~aborted'
  BY DEF End, IInv
<1>5. LifeOf(a)'
  BY <1>1, <1>2, <1>3, <1>4 DEF LifeOf, HasRun
<1>6. \A c \in Action : Posted(c)' <=> Posted(c)
  BY <1>2, <1>4 DEF Posted
<1>7. \A c \in Action : Part(a, c)' <=> Part(a, c)
  BY <1>2, <1>3 DEF Part, Gives, LivePC, BodyPC
<1>8. HasRun(a) => HasRun(a)'
  BY <1>3, <1>4 DEF HasRun
<1>9. ~(pc'[a] \in FinishPC) /\ ~(pc[a] \in FinishPC) /\ ~(pc'[a] \in NotifyPC) /\ ~(pc[a] \in NotifyPC)
  BY <1>3 DEF FinishPC, NotifyPC
<1> QED
  BY <1>0, <1>2, <1>4, <1>5, <1>6, <1>7, <1>8, <1>9, Quiet

LEMMA BodyEndsIInv ==
  ASSUME IInv, NEW a \in Action, BodyEnds(a)
  PROVE  IInv'
<1>0. ActionStep(a)
  BY DEF ActionStep
<1>1. Types /\ LifeOf(a) /\ Life
  BY DEF IInv, Life
<1>2. pending' = pending /\ active' = active
  BY DEF BodyEnds, pool
<1>3. pc[a] = "run" /\ pc'[a] = "decrement" /\ augmented[a] = Len(Augment[a])
  BY <1>1, Constants, SMT DEF BodyEnds, Goto, Types
<1>4. /\ UNCHANGED <<waiting_for, wait_counts, continuations, augmented, conts, left, target, calls>>
      /\ ~aborted'
  BY DEF BodyEnds, IInv
<1>5. LifeOf(a)'
  BY <1>1, <1>2, <1>3, <1>4 DEF LifeOf, HasRun
<1>6. \A c \in Action : Posted(c)' <=> Posted(c)
  BY <1>2, <1>4 DEF Posted
<1>7. \A c \in Action : Part(a, c)' <=> Part(a, c)
  BY <1>2, <1>3 DEF Part, Gives, LivePC, BodyPC
<1>8. HasRun(a) => HasRun(a)'
  BY <1>3, <1>4 DEF HasRun
<1>9. ~(pc'[a] \in FinishPC) /\ ~(pc[a] \in FinishPC) /\ ~(pc'[a] \in NotifyPC) /\ ~(pc[a] \in NotifyPC)
  BY <1>3 DEF FinishPC, NotifyPC
<1> QED
  BY <1>0, <1>2, <1>4, <1>5, <1>6, <1>7, <1>8, <1>9, Quiet

\* What the step of an action has to show besides what follows for all of them.
LEMMA ActionKeeps ==
  ASSUME IInv, NEW a \in Action, Start(a) \/ ActionStep(a), LifeOf(a)', ~aborted',
         \A c \in Action : c # a => /\ c \in active' <=> c \in active
                                    /\ c \in pending' => c \in pending \/ calls[c] = 0,
         Registered', ContinuationsKept', OnePlace', Scheduling', Rooted', WaitCountExact',
         Finishing', Carried', Told', Released'
  PROVE  IInv'
<1>1. Types /\ Life /\ Owner
  BY DEF IInv
<1>2. OtherLocals(a) /\ Types' /\ Owner'
  BY <1>1, ActionIsLocal, ActionTypes, OwnerKept
<1>3. Life'
  BY <1>1, <1>2, LifeOthers, Constants, SMT DEF Life
<1> QED
  BY <1>2, <1>3 DEF IInv

\* The function that an action is about to register is new.
LEMMA NextIsNew ==
  ASSUME IInv, NEW a \in Action, pc[a] \in BodyPC, NEW f, f = NextFunction(a),
         augmented[a] < Len(Augment[a])
  PROVE  /\ f \in Action \ Task /\ TaskOf[f] = TaskOf[a] /\ ~Known(f)
         /\ \A y \in Actor : Gives(y, f) => y = a /\ pc[a] = "augment"
<1>1. Types /\ Life /\ Registered
  BY DEF IInv
<1>2. /\ f \in Action \ Task /\ TaskOf[f] = TaskOf[a]
      /\ augmented[a] + 1 \in 1 .. Len(Augment[a]) /\ f = Augment[a][augmented[a] + 1]
  BY <1>1, NextIsFunction
<1>3. ~(augmented[a] + 1 <= augmented[a])
  BY <1>1, SMT DEF Types
<1>4. ~Known(f)
  BY <1>1, <1>2, <1>3 DEF Registered
<1>5. ASSUME NEW y \in Actor, Gives(y, f) PROVE y = a /\ pc[a] = "augment"
  <2>1. CASE pc[y] = "schedule_post" /\ target[y] = f
    BY <1>1, <1>2, <2>1, HasTarget DEF IInv
  <2>2. CASE y \in Action /\ pc[y] = "augment" /\ NextFunction(y) = f
    <3>1. augmented[y] < Len(Augment[y])
      BY <1>1, <2>2 DEF Life, LifeOf
    <3>2. augmented[y] + 1 \in 1 .. Len(Augment[y]) /\ f = Augment[y][augmented[y] + 1]
      BY <1>1, <2>2, <3>1, NextIsFunction
    <3>3. PICK j \in 1 .. Len(Augment[a]) : f = Augment[a][j]
      BY <1>2
    <3>4. PICK k \in 1 .. Len(Augment[y]) : f = Augment[y][k]
      BY <3>2
    <3>5. a = y
      BY <2>2, <3>3, <3>4, Registrar
    <3> QED
      BY <2>2, <3>5
  <2>3. CASE y \in Action /\ pc[y] = "post" /\ Taken(y, f)
    <3>1. f \in Continuation
      BY <2>3, SMT DEF IInv, ContinuationsKept, Taken
    <3> QED
      BY <1>4, <2>3, <3>1 DEF Known
  <2> QED
    BY <1>5, <2>1, <2>2, <2>3 DEF Gives
<1> QED
  BY <1>2, <1>4, <1>5
=============================================================================

------------------------- MODULE DAGSchedulerProofs -------------------------
(***************************************************************************)
(* The remaining steps of PriorityThreadPoolDAGScheduler keep the          *)
(* invariant, and what follows, for every graph of tasks without a cycle,  *)
(* whatever functions the actions register and on any number of threads:   *)
(* every action runs once, after the dependencies of its task,             *)
(* continuations last, and no assertion fails.                             *)
(***************************************************************************)
EXTENDS DAGSchedulerCounting

\* First-order steps go to Zenon; a step about numbers or updated functions
\* names SMT.
USE Zenon

-----------------------------------------------------------------------------
(***************************************************************************)
(* The steps that keep continuations, and take them.                       *)
(***************************************************************************)
LEMMA PushContinuationIInv ==
  ASSUME IInv, NEW a \in Action, PushContinuation(a)
  PROVE  IInv'
<1>0. ActionStep(a)
  BY DEF ActionStep
<1>1. /\ Types /\ Life /\ LifeOf(a) /\ Scheduling /\ Registered /\ ContinuationsKept /\ OnePlace
      /\ Rooted /\ WaitCountExact /\ Finishing /\ Carried /\ Told /\ Released /\ a \in Actor
  BY Constants DEF IInv, Life
<1>2. PICK f : f = NextFunction(a)
  OBVIOUS
<1>3. PICK t \in Task : t = TaskOf[a]
  BY Constants
<1>4. /\ UNCHANGED <<added, waiting_for, wait_counts, ready, pc, conts, left, target,
                     calls, pending, active, aborted>>
      /\ pc[a] = "run" /\ augmented[a] < Len(Augment[a]) /\ f \in Continuation
      /\ continuations' = [continuations EXCEPT ![t] = Append(@, f)]
      /\ augmented' = [augmented EXCEPT ![a] = @ + 1]
  BY <1>2, <1>3 DEF PushContinuation, pool
<1>5. f \in Action \ Task /\ TaskOf[f] = t /\ ~Known(f)
  BY <1>2, <1>3, <1>4, NextIsNew DEF BodyPC
<1>6. /\ augmented'[a] = augmented[a] + 1 /\ augmented[a] \in Nat /\ Len(Augment[a]) \in Nat
      /\ \A b \in Action \ {a} : augmented'[b] = augmented[b]
  BY <1>1, <1>4, Constants, SMT DEF Types
<1>7. /\ continuations[t] \in Seq(Action) /\ Len(continuations[t]) \in Nat
      /\ continuations'[t] = Append(continuations[t], f)
      /\ \A u \in Task \ {t} : continuations'[u] = continuations[u]
  BY <1>1, <1>4, SeqFacts DEF Types
<1>8. /\ Len(continuations'[t]) = Len(continuations[t]) + 1
      /\ \A i \in 1 .. Len(continuations[t]) : continuations'[t][i] = continuations[t][i]
      /\ continuations'[t][Len(continuations[t]) + 1] = f
  BY <1>5, <1>7, SeqAppend, SMT
<1>9. \A g \in Action : Held(g)' <=> Held(g) \/ g = f
  <2>1. \A g \in Action : TaskOf[g] # t => (Held(g)' <=> Held(g)) /\ g # f
    BY <1>5, <1>7, Constants, SMT DEF Held
  <2>2. \A g \in Action : TaskOf[g] = t => (Held(g)' <=> Held(g) \/ g = f)
    <3>1. \A i : i \in 1 .. (Len(continuations[t]) + 1) <=>
                 i \in 1 .. Len(continuations[t]) \/ i = Len(continuations[t]) + 1
      BY <1>7, SMT
    <3>2. \A g : (\E i \in 1 .. Len(continuations'[t]) : continuations'[t][i] = g)
                 <=> (\E i \in 1 .. Len(continuations[t]) : continuations[t][i] = g) \/ g = f
      BY <1>8, <3>1
    <3> QED
      BY <3>2 DEF Held
  <2> QED
    BY <2>1, <2>2
<1>10. /\ \A b, g \in Action : Taken(b, g)' <=> Taken(b, g)
       /\ \A c \in Action : /\ Posted(c)' <=> Posted(c)
                            /\ HasRun(c)' <=> HasRun(c)
  BY <1>4 DEF Taken, Posted, HasRun
<1>11. \A c \in Action : Live(c)' <=> Live(c)
  <2>1. OtherLocals(a)
    BY <1>0, <1>1, ActionIsLocal
  <2>2. \A c \in Action : Part(a, c)' <=> Part(a, c)
    BY <1>4 DEF Part, Gives
  <2> QED
    BY <1>1, <2>1, <2>2, LiveSame
<1>12. \A u, v \in Task : Awaits(u, v)' <=> Awaits(u, v)
  BY <1>4, AwaitsSame
<1>13. \A u \in Task : /\ Open(u)' = Open(u) /\ Counted(u)' = Counted(u)
                       /\ AllRun(u) => AllRun(u)'
                       /\ PlainRun(u) => PlainRun(u)'
  BY <1>10, <1>11, <1>12, OpenSame, CountedSame, RunKept
<1>14. Registered'
  <2>1. \A g \in Action : Known(g)' <=> Known(g) \/ g = f
    BY <1>4, <1>9, <1>10 DEF Known
  <2>2. \A b \in Action : \A k \in 1 .. Len(Augment[b]) :
          Augment[b][k] = f <=> b = a /\ k = augmented[a] + 1
    <3>1. augmented[a] + 1 \in 1 .. Len(Augment[a]) /\ Augment[a][augmented[a] + 1] = f
      BY <1>1, <1>2, <1>4, NextIsFunction
    <3> QED
      BY <3>1, Registrar, SMT
  <2>3. ASSUME NEW b \in Action, NEW k \in 1 .. Len(Augment[b])
        PROVE  k <= augmented'[b] <=> Known(Augment[b][k])'
    <3>1. k <= augmented[b] <=> Known(Augment[b][k])
      BY <1>1 DEF Registered
    <3>2. Known(Augment[b][k])' <=> Known(Augment[b][k]) \/ (b = a /\ k = augmented[a] + 1)
      BY <2>1, <2>2, Constants, SMT
    <3>3. k <= augmented'[b] <=> k <= augmented[b] \/ (b = a /\ k = augmented[a] + 1)
      BY <1>6, Constants, SMT
    <3> QED
      BY <3>1, <3>2, <3>3
  <2> QED
    BY <2>3 DEF Registered
<1>15. ContinuationsKept'
  <2>1. \A i \in 1 .. Len(continuations[t]) : continuations[t][i] # f
    BY <1>4, <1>5 DEF Known, Held
  <2>2. \A i \in 1 .. Len(continuations'[t]) :
          /\ continuations'[t][i] \in Continuation
          /\ TaskOf[continuations'[t][i]] = t
          /\ \A j \in 1 .. Len(continuations'[t]) :
               continuations'[t][i] = continuations'[t][j] => i = j
    <3>1. \A i \in 1 .. Len(continuations'[t]) :
            i \in 1 .. Len(continuations[t]) \/ i = Len(continuations[t]) + 1
      BY <1>7, <1>8, SMT
    <3> QED
      BY <1>1, <1>4, <1>5, <1>8, <2>1, <3>1, SMT DEF ContinuationsKept
  <2> QED
    BY <1>1, <1>4, <1>7, <2>2, SMT DEF ContinuationsKept
<1>16. OnePlace'
  <2>1. ~Posted(f) /\ \A b \in Action : ~Taken(b, f)
    BY <1>4, <1>5 DEF Known
  <2> QED
    BY <1>1, <1>9, <1>10, <2>1, SMT DEF OnePlace
<1>17. Scheduling'
  BY <1>1, <1>4, <1>10, <1>13, Constants, SMT DEF Scheduling
<1>18. Rooted' /\ WaitCountExact' /\ Told'
  <2>1. Rooted'
    BY <1>1, <1>10, Constants DEF Rooted
  <2>2. WaitCountExact'
    BY <1>1, <1>4, <1>13 DEF WaitCountExact
  <2>3. Told'
    BY <1>1, <1>4, <1>12, <1>13 DEF Told
  <2> QED
    BY <2>1, <2>2, <2>3
<1>19. Finishing'
  BY <1>1, <1>4, <1>11, <1>13, Constants, SMT DEF Finishing
<1>20. Carried'
  BY <1>1, <1>4, <1>10, <1>11, <1>13, Constants DEF Carried
<1>21. Released'
  BY <1>1, <1>10, <1>13, Constants, DAGAssumption DEF Released
<1>22. LifeOf(a)'
  BY <1>1, <1>4, <1>6, SMT DEF LifeOf, HasRun
<1>23. \A c \in Action : c # a => /\ c \in active' <=> c \in active
                                  /\ c \in pending' => c \in pending \/ calls[c] = 0
  BY <1>4
<1>24. ~aborted'
  BY <1>4 DEF IInv
<1> QED
  BY <1>0, <1>14, <1>15, <1>16, <1>17, <1>18, <1>19, <1>20, <1>21, <1>22, <1>23, <1>24,
     ActionKeeps

\* The equation that defines Plain has a solution: the least set that holds the
\* tasks and what they register without a continuation.
LEMMA PlainEquation ==
  \A a \in Action : Plain[a] <=>
    \/ a \in Task
    \/ /\ a \notin Continuation
       /\ Plain[CHOOSE b \in Action : \E k \in 1 .. Len(Augment[b]) : Augment[b][k] = a]
<1> DEFINE By(a) == CHOOSE b \in Action : \E k \in 1 .. Len(Augment[b]) : Augment[b][k] = a
           Closed == {S \in SUBSET Action : \A a \in Action :
                        a \in Task \/ (a \notin Continuation /\ By(a) \in S) => a \in S}
           L == {a \in Action : \A S \in Closed : a \in S}
           Def(g) == [a \in Action |-> a \in Task \/ (a \notin Continuation /\ g[By(a)])]
           f == [a \in Action |-> a \in L]
<1>1. \A a \in Action \ Task : By(a) \in Action
  BY Registrar
<1> HIDE DEF By
<1>2. \A a \in Action : a \in Task \/ (a \notin Continuation /\ By(a) \in L) => a \in L
  BY <1>1
<1>3. \A a \in L : a \in Task \/ (a \notin Continuation /\ By(a) \in L)
  <2> DEFINE M == {a \in Action : a \in Task \/ (a \notin Continuation /\ By(a) \in L)}
  <2>1. M \subseteq L
    BY <1>2
  <2>2. M \in Closed
    BY <2>1
  <2> QED
    BY <2>2
<1>4. f = Def(f)
  <2>1. \A a \in Action : a \in L <=> a \in Task \/ (a \notin Continuation /\ By(a) \in L)
    BY <1>2, <1>3
  <2> HIDE DEF L
  <2>2. \A a \in Action : a \in L <=> a \in Task \/ (a \notin Continuation /\ f[By(a)])
    BY <1>1, <2>1
  <2> QED
    BY <2>2, SMT
<1>5. Plain = Def(Plain)
  <2>1. Plain = CHOOSE g : g = Def(g)
    BY DEF Plain, By
  <2> HIDE DEF Def, f
  <2> QED
    BY <1>4, <2>1
<1>6. \A a \in Action : Plain[a] = (a \in Task \/ (a \notin Continuation /\ Plain[By(a)]))
  <2>1. \A g, a : a \in Action =>
          Def(g)[a] = (a \in Task \/ (a \notin Continuation /\ g[By(a)]))
    OBVIOUS
  <2> HIDE DEF Def
  <2> QED
    BY <1>5, <2>1
<1> QED
  BY <1>6 DEF By

\* When the count of a task is zero all its actions have run, but for the
\* continuations that wait and what stems from them.
LEMMA ZeroMeansRun ==
  ASSUME IInv, NEW a \in Action, pc[a] = "erase"
  PROVE  /\ PlainRun(TaskOf[a])
         /\ continuations[TaskOf[a]] = <<>> => AllRun(TaskOf[a])
<1>1. Types /\ Life /\ Registered /\ ContinuationsKept /\ Finishing /\ Rooted
  BY DEF IInv
<1>2. PICK t \in Task : t = TaskOf[a]
  BY Constants
<1>3. \A b \in Action : TaskOf[b] = t => ~Live(b) /\ (pc[b] \in FinishPC => b = a)
  BY <1>1, <1>2 DEF Finishing, FinishPC
<1>4. \A b \in Action : TaskOf[b] = t /\ Posted(b) => HasRun(b)
  BY <1>1, <1>3, SMT DEF Posted, Live, HasRun, BodyPC, Types
<1>5. HasRun(t) /\ TaskOf[t] = t
  <2>1. Posted(a)
    BY <1>1 DEF Posted, Life, LifeOf
  <2> QED
    BY <1>1, <1>2, <1>4, <2>1, Constants DEF Rooted
<1>6. \A b, f \in Action : TaskOf[f] = t => ~Taken(b, f)
  <2> SUFFICES ASSUME NEW b \in Action, NEW f \in Action, TaskOf[f] = t, Taken(b, f)
               PROVE  FALSE
    OBVIOUS
  <2>1. TaskOf[b] = t
    BY <1>1, SMT DEF ContinuationsKept, Taken
  <2>2. conts[b] # <<>>
    <3>1. 1 .. Len(conts[b]) # {} /\ conts[b] \in Seq(Action)
      BY <1>1 DEF Taken, Types
    <3> QED
      BY <3>1, SeqFacts, SMT
  <2>3. pc[b] \in {"increment", "post"}
    BY <1>1, <2>2 DEF Life, LifeOf
  <2>4. CASE pc[b] = "increment"
    BY <1>3, <2>1, <2>4 DEF FinishPC
  <2>5. CASE pc[b] = "post"
    <3>1. Live(f)
      BY <2>5, Constants DEF Live, Gives
    <3> QED
      BY <1>3, <3>1
  <2> QED
    BY <2>3, <2>4, <2>5
<1>7. \A c \in Action : TaskOf[c] = t /\ HasRun(c) =>
        \A k \in 1 .. Len(Augment[c]) : HasRun(Augment[c][k])
                                        \/ (Augment[c][k] \in Continuation /\ Held(Augment[c][k]))
  <2> SUFFICES ASSUME NEW c \in Action, TaskOf[c] = t, HasRun(c), NEW k \in 1 .. Len(Augment[c])
               PROVE  \/ HasRun(Augment[c][k])
                      \/ Augment[c][k] \in Continuation /\ Held(Augment[c][k])
    OBVIOUS
  <2>1. augmented[c] = Len(Augment[c]) /\ Len(Augment[c]) \in Nat
    BY <1>1, Constants DEF Life, LifeOf
  <2>2. Known(Augment[c][k])
    BY <1>1, <2>1, SMT DEF Registered
  <2>3. Augment[c][k] \in Action /\ TaskOf[Augment[c][k]] = t
    BY Constants
  <2> QED
    BY <1>4, <1>6, <2>2, <2>3 DEF Known
<1>8. PlainRun(t)
  <2> DEFINE S == {c \in Action : TaskOf[c] # t \/ ~Plain[c] \/ HasRun(c)}
  <2>1. S \in SUBSET Action /\ Task \subseteq S
    BY <1>5, Constants, SMT
  <2>2. ASSUME NEW c \in S, NEW k \in 1 .. Len(Augment[c]) PROVE Augment[c][k] \in S
    <3>1. Augment[c][k] \in Action \ Task /\ TaskOf[Augment[c][k]] = TaskOf[c]
      BY Constants
    <3> SUFFICES ASSUME TaskOf[c] = t, Plain[Augment[c][k]] PROVE HasRun(Augment[c][k])
      BY <3>1
    <3>2. PICK g : g = Augment[c][k]
      OBVIOUS
    <3>3. g \notin Continuation
          /\ Plain[CHOOSE b \in Action : \E j \in 1 .. Len(Augment[b]) : Augment[b][j] = g]
      <4>1. g \in Action /\ g \notin Task /\ Plain[g]
        BY <3>1, <3>2
      <4> QED
        BY <4>1, PlainEquation
    <3>4. (CHOOSE b \in Action : \E j \in 1 .. Len(Augment[b]) : Augment[b][j] = g) = c
      <4>1. c \in Action /\ \E j \in 1 .. Len(Augment[c]) : Augment[c][j] = g
        BY <3>2
      <4>2. \A b \in Action : (\E j \in 1 .. Len(Augment[b]) : Augment[b][j] = g) => b = c
        BY <4>1, Registrar, SMT
      <4> QED
        BY <4>1, <4>2
    <3>5. HasRun(c)
      BY <3>3, <3>4
    <3> QED
      BY <1>7, <3>2, <3>3, <3>5
  <2> HIDE DEF S
  <2>3. S = Action
    BY <2>1, <2>2, AcyclicAssumption
  <2> QED
    BY <2>3 DEF S, PlainRun
<1>9. ASSUME continuations[t] = <<>> PROVE AllRun(t)
  <2> DEFINE S == {c \in Action : TaskOf[c] # t \/ HasRun(c)}
  <2>1. S \in SUBSET Action /\ Task \subseteq S
    BY <1>5, Constants, SMT
  <2>2. ASSUME NEW c \in S, NEW k \in 1 .. Len(Augment[c]) PROVE Augment[c][k] \in S
    <3>1. Augment[c][k] \in Action /\ TaskOf[Augment[c][k]] = TaskOf[c]
      BY Constants
    <3>2. TaskOf[c] = t => ~Held(Augment[c][k])
      BY <1>9, <3>1, SMT DEF Held
    <3> QED
      BY <1>7, <3>1, <3>2
  <2> HIDE DEF S
  <2>3. S = Action
    BY <2>1, <2>2, AcyclicAssumption
  <2> QED
    BY <2>3 DEF S, AllRun
<1> QED
  BY <1>2, <1>8, <1>9

LEMMA GetAndEraseIInv ==
  ASSUME IInv, NEW a \in Action, GetAndErase(a)
  PROVE  IInv'
<1>0. ActionStep(a)
  BY DEF ActionStep
<1>1. /\ Types /\ Life /\ LifeOf(a) /\ Scheduling /\ Registered /\ ContinuationsKept /\ OnePlace
      /\ Rooted /\ WaitCountExact /\ Finishing /\ Carried /\ Told /\ Released /\ a \in Actor
  BY Constants DEF IInv, Life
<1>2. PICK t \in Task : t = TaskOf[a]
  BY Constants
<1>3. PICK s : s = continuations[t]
  OBVIOUS
<1>4. /\ UNCHANGED <<added, waiting_for, wait_counts, ready, augmented, target,
                     calls, pending, active, aborted>>
      /\ pc[a] = "erase"
      /\ conts' = [conts EXCEPT ![a] = s]
      /\ continuations' = [continuations EXCEPT ![t] = <<>>]
      /\ pc' = [pc EXCEPT ![a] = IF s = <<>> THEN "notify" ELSE "increment"]
      /\ \/ s = <<>> /\ left' = [left EXCEPT ![a] = waiting_for[t]]
         \/ s # <<>> /\ left' = left
  BY <1>2, <1>3 DEF GetAndErase, Goto, pool
<1>5. /\ pc'[a] = (IF s = <<>> THEN "notify" ELSE "increment")
      /\ \A y \in Actor \ {a} : pc'[y] = pc[y]
  BY <1>1, <1>4 DEF Types
<1>6. /\ conts'[a] = s /\ \A b \in Action \ {a} : conts'[b] = conts[b]
      /\ continuations'[t] = <<>> /\ \A u \in Task \ {t} : continuations'[u] = continuations[u]
  BY <1>1, <1>4 DEF Types
<1>7. conts[a] = <<>> /\ s \in Seq(Action) /\ TaskOf[a] = t
  BY <1>1, <1>2, <1>3, <1>4 DEF LifeOf, Types
<1>8. \A b \in Action : TaskOf[b] = t => ~Live(b) /\ (pc[b] \in FinishPC => b = a)
  BY <1>1, <1>2, <1>4 DEF Finishing, FinishPC
<1>9. PlainRun(t) /\ (s = <<>> => AllRun(t))
  BY <1>2, <1>3, <1>4, ZeroMeansRun
<1>10. OtherLocals(a)
  BY <1>0, <1>1, ActionIsLocal
<1>11. /\ \A g \in Action : Held(g)' <=> Held(g) /\ TaskOf[g] # t
       /\ \A b, g \in Action : Taken(b, g)' <=> Taken(b, g) \/ (b = a /\ TaskOf[g] = t /\ Held(g))
  <2>1. \A g \in Action : Held(g)' <=> Held(g) /\ TaskOf[g] # t
    BY <1>6, Constants, SMT DEF Held
  <2>2. \A g \in Action : ~Taken(a, g)
    BY <1>7, SMT DEF Taken
  <2>3. \A g \in Action : Taken(a, g)' <=> \E i \in 1 .. Len(s) : s[i] = g
    BY <1>6 DEF Taken
  <2>4. \A g \in Action : (\E i \in 1 .. Len(s) : s[i] = g) => TaskOf[g] = t
    BY <1>1, <1>3, SMT DEF ContinuationsKept
  <2>5. \A g \in Action : TaskOf[g] = t => (Held(g) <=> \E i \in 1 .. Len(s) : s[i] = g)
    BY <1>3 DEF Held
  <2>6. \A b \in Action \ {a}, g \in Action : Taken(b, g)' <=> Taken(b, g)
    BY <1>1, <1>10, OthersGive
  <2> QED
    BY <2>1, <2>2, <2>3, <2>4, <2>5, <2>6
<1>12. \A c \in Action : /\ Posted(c)' <=> Posted(c)
                         /\ HasRun(c) => HasRun(c)'
                         /\ pc'[c] \in FinishPC <=> pc[c] \in FinishPC
                         /\ pc'[c] \in NotifyPC <=> pc[c] \in NotifyPC \/ (c = a /\ s = <<>>)
  BY <1>4, <1>5, Constants, SMT DEF Posted, HasRun, FinishPC, NotifyPC
<1>13. \A c \in Action : Live(c)' <=> Live(c)
  <2>1. \A c \in Action : ~Gives(a, c) /\ ~Gives(a, c)'
    BY <1>4, <1>5, SMT DEF Gives
  <2>2. \A c \in Action : Part(a, c)' <=> Part(a, c)
    BY <1>4, <1>5, <2>1, SMT DEF Part, LivePC, BodyPC
  <2> QED
    BY <1>1, <1>10, <2>2, LiveSame
<1>14. \A u, v \in Task : Awaits(u, v)' <=> Awaits(u, v)
  <2>1. \A b \in Action \ {a} : left'[b] = left[b]
    BY <1>10 DEF OtherLocals
  <2>2. s = <<>> => left'[a] = waiting_for[t]
    BY <1>1, <1>4 DEF Types
  <2>3. ASSUME NEW u \in Task, NEW v \in Task, v # t PROVE Awaits(u, v)' <=> Awaits(u, v)
    BY <1>4, <1>7, <1>12, <2>1, <2>3 DEF Awaits
  <2>4. ASSUME NEW u \in Task PROVE Awaits(u, t)' <=> Awaits(u, t)
    <3>1. \A b \in Action : TaskOf[b] = t => pc[b] \notin NotifyPC
      BY <1>4, <1>8 DEF FinishPC, NotifyPC
    <3>2. \A b \in Action : TaskOf[b] = t /\ pc'[b] \in NotifyPC => b = a /\ s = <<>>
      BY <1>12, <3>1
    <3> QED
      BY <1>4, <2>2, <3>1, <3>2 DEF Awaits
  <2> QED
    BY <2>3, <2>4
<1>15. \A u \in Task : /\ Open(u)' = Open(u) /\ Counted(u)' = Counted(u)
                       /\ AllRun(u) => AllRun(u)'
                       /\ PlainRun(u) => PlainRun(u)'
  BY <1>12, <1>13, <1>14, OpenSame, CountedSame, RunKept
<1>16. Registered'
  <2>1. \A g \in Action : Known(g)' <=> Known(g)
    BY <1>11, <1>12 DEF Known
  <2> QED
    BY <1>1, <1>4, <2>1, Constants DEF Registered
<1>17. ContinuationsKept'
  <2>1. \A u \in Task : \A i \in 1 .. Len(continuations'[u]) :
          /\ continuations'[u][i] \in Continuation
          /\ TaskOf[continuations'[u][i]] = u
          /\ \A j \in 1 .. Len(continuations'[u]) :
               continuations'[u][i] = continuations'[u][j] => i = j
    <3>1. 1 .. Len(continuations'[t]) = {}
      BY <1>6, SMT
    <3> QED
      BY <1>1, <1>6, <3>1, SMT DEF ContinuationsKept
  <2>2. \A b \in Action : \A i \in 1 .. Len(conts'[b]) :
          /\ conts'[b][i] \in Continuation
          /\ TaskOf[conts'[b][i]] = TaskOf[b]
          /\ \A j \in 1 .. Len(conts'[b]) : conts'[b][i] = conts'[b][j] => i = j
    BY <1>1, <1>3, <1>6, <1>7, SMT DEF ContinuationsKept
  <2> QED
    BY <2>1, <2>2 DEF ContinuationsKept
<1>18. OnePlace'
  BY <1>1, <1>11, <1>12 DEF OnePlace
<1>19. Scheduling'
  <2>1. pc'[Main] = pc[Main]
    BY <1>5, Constants
  <2> QED
    BY <1>1, <1>4, <1>12, <1>15, <2>1, Constants, SMT DEF Scheduling
<1>20. Rooted' /\ WaitCountExact' /\ Told'
  <2>1. Rooted'
    BY <1>1, <1>12, Constants DEF Rooted
  <2>2. WaitCountExact'
    BY <1>1, <1>4, <1>15 DEF WaitCountExact
  <2>3. Told'
    BY <1>1, <1>4, <1>14, <1>15 DEF Told
  <2> QED
    BY <2>1, <2>2, <2>3
<1>21. Finishing'
  <2> SUFFICES ASSUME NEW c \in Action, pc'[c] \in FinishPC
               PROVE  /\ \A b \in Action : TaskOf[b] = TaskOf[c] =>
                           ~Live(b)' /\ (pc'[b] \in FinishPC => c = b)
                      /\ pc'[c] \in NotifyPC =>
                           AllRun(TaskOf[c])' /\ left'[c] \subseteq waiting_for'[TaskOf[c]]
    BY DEF Finishing
  <2>1. \A b \in Action : TaskOf[b] = TaskOf[c] => ~Live(b)' /\ (pc'[b] \in FinishPC => c = b)
    BY <1>1, <1>12, <1>13 DEF Finishing
  <2>2. CASE c # a
    <3>1. left'[c] = left[c] /\ waiting_for' = waiting_for
      BY <1>4, <1>10, <2>2 DEF OtherLocals
    <3> QED
      BY <1>1, <1>12, <1>15, <2>1, <2>2, <3>1, Constants DEF Finishing
  <2>3. CASE c = a
    <3>1. s = <<>> => left'[a] = waiting_for[t]
      BY <1>1, <1>4 DEF Types
    <3>2. pc'[a] \in NotifyPC => s = <<>>
      BY <1>5 DEF NotifyPC
    <3> QED
      BY <1>4, <1>7, <1>9, <1>15, <2>1, <2>3, <3>1, <3>2
  <2> QED
    BY <2>2, <2>3
<1>22. Carried'
  BY <1>1, <1>4, <1>12, <1>13, <1>15, Constants DEF Carried
<1>23. Released'
  BY <1>1, <1>9, <1>11, <1>12, <1>15, Constants, DAGAssumption, SMT DEF Released
<1>24. LifeOf(a)'
  <2>1. pc'[a] \in {"notify", "increment"} /\ (pc'[a] = "increment" <=> s # <<>>)
    BY <1>5
  <2> QED
    BY <1>1, <1>4, <1>6, <2>1 DEF LifeOf, HasRun
<1>25. \A c \in Action : c # a => /\ c \in active' <=> c \in active
                                  /\ c \in pending' => c \in pending \/ calls[c] = 0
  BY <1>4
<1>26. ~aborted'
  BY <1>4 DEF IInv
<1> QED
  BY <1>0, <1>16, <1>17, <1>18, <1>19, <1>20, <1>21, <1>22, <1>23, <1>24, <1>25, <1>26,
     ActionKeeps
-----------------------------------------------------------------------------
(***************************************************************************)
(* The steps about dependencies.                                           *)
(***************************************************************************)
LEMMA EdgeFrame ==
  ASSUME IInv, UNCHANGED <<continuations, augmented, conts, calls, pending>>,
         \A c \in Action : (Live(c)' <=> Live(c)) /\ (HasRun(c) => HasRun(c)')
  PROVE  /\ Registered' /\ ContinuationsKept' /\ OnePlace' /\ Rooted' /\ Released'
         /\ \A c \in Action : Posted(c)' <=> Posted(c)
         /\ \A t \in Task : Counted(t)' = Counted(t) /\ (AllRun(t) => AllRun(t)')
<1> USE DEF IInv
<1>1. \A f \in Action : Held(f)' <=> Held(f)
  BY HeldSame
<1>2. \A b, f \in Action : Taken(b, f)' <=> Taken(b, f)
  BY HeldSame
<1>3. \A c \in Action : Posted(c)' <=> Posted(c)
  BY DEF Posted
<1>4. \A t \in Task : /\ Counted(t)' = Counted(t)
                      /\ AllRun(t) => AllRun(t)'
                      /\ PlainRun(t) => PlainRun(t)'
  BY RunKept, CountedSame
<1>5. Registered'
  <2>1. \A f \in Action : Known(f)' <=> Known(f)
    BY <1>1, <1>2, <1>3 DEF Known
  <2> QED
    BY <2>1, Constants DEF Registered
<1>6. ContinuationsKept'
  BY HeldSame
<1>7. OnePlace'
  BY <1>1, <1>2, <1>3 DEF OnePlace
<1>8. Rooted'
  BY <1>3, Constants DEF Rooted
<1>9. Released'
  BY <1>2, <1>3, <1>4, Constants, DAGAssumption DEF Released
<1> QED
  BY <1>3, <1>4, <1>5, <1>6, <1>7, <1>8, <1>9

LEMMA NotifyEndIInv ==
  ASSUME IInv, NEW a \in Action, NotifyEnd(a)
  PROVE  IInv'
<1>0. ActionStep(a)
  BY DEF ActionStep
<1>1. /\ Types /\ Life /\ LifeOf(a) /\ Scheduling /\ WaitCountExact /\ Finishing /\ Carried /\ Told
      /\ a \in Actor
  BY Constants DEF IInv, Life
<1>2. PICK t \in Task : t = TaskOf[a]
  BY Constants
<1>3. /\ UNCHANGED <<added, wait_counts, continuations, ready, augmented, conts, left, target,
                     calls, pending, active, aborted>>
      /\ pc[a] = "notify" /\ left[a] = {} /\ pc' = [pc EXCEPT ![a] = "end"]
      /\ waiting_for' = [waiting_for EXCEPT ![t] = {}]
  BY <1>2 DEF NotifyEnd, Goto, pool
<1>4. /\ pc'[a] = "end" /\ \A y \in Actor \ {a} : pc'[y] = pc[y]
      /\ waiting_for'[t] = {} /\ \A u \in Task \ {t} : waiting_for'[u] = waiting_for[u]
  BY <1>1, <1>3 DEF Types
<1>5. /\ AllRun(t)
      /\ \A b \in Action : TaskOf[b] = t => ~Live(b) /\ (pc[b] \in FinishPC => b = a)
  BY <1>1, <1>2, <1>3 DEF Finishing, FinishPC, NotifyPC
<1>6. \A c \in Action : /\ HasRun(c) => HasRun(c)'
                        /\ pc'[c] \in FinishPC <=> pc[c] \in FinishPC /\ c # a
                        /\ pc'[c] \in NotifyPC <=> pc[c] \in NotifyPC /\ c # a
  BY <1>3, <1>4, Constants DEF HasRun, FinishPC, NotifyPC
<1>7. \A c \in Action : Live(c)' <=> Live(c)
  <2>1. OtherLocals(a)
    BY <1>0, <1>1, ActionIsLocal
  <2>2. \A c \in Action : Part(a, c)' <=> Part(a, c)
    BY <1>3, <1>4 DEF Part, Gives, LivePC, BodyPC
  <2> QED
    BY <1>1, <2>1, <2>2, LiveSame
<1>8. /\ Registered' /\ ContinuationsKept' /\ OnePlace' /\ Rooted' /\ Released'
      /\ \A c \in Action : Posted(c)' <=> Posted(c)
      /\ \A u \in Task : Counted(u)' = Counted(u) /\ (AllRun(u) => AllRun(u)')
  BY <1>3, <1>6, <1>7, EdgeFrame
<1>9. \A u, v \in Task : Awaits(u, v)' <=> Awaits(u, v)
  <2>1. ASSUME NEW u \in Task, NEW v \in Task, v # t PROVE Awaits(u, v)' <=> Awaits(u, v)
    BY <1>2, <1>3, <1>4, <1>6, <2>1 DEF Awaits
  <2>2. ASSUME NEW u \in Task PROVE ~Awaits(u, t)' /\ ~Awaits(u, t)
    BY <1>2, <1>3, <1>4 DEF Awaits, NotifyPC
  <2> QED
    BY <2>1, <2>2
<1>10. \A u \in Task : Open(u)' = Open(u)
  BY <1>9, OpenSame
<1>11. Scheduling'
  <2>1. pc'[Main] = pc[Main]
    BY <1>4, Constants
  <2> QED
    BY <1>1, <1>3, <1>8, <1>10, <2>1, Constants, SMT DEF Scheduling
<1>12. WaitCountExact'
  BY <1>1, <1>3, <1>8, <1>10 DEF WaitCountExact
<1>13. Finishing'
  <2>1. \A c \in Action : pc'[c] \in FinishPC => TaskOf[c] # t
    BY <1>5, <1>6
  <2> QED
    BY <1>1, <1>3, <1>4, <1>6, <1>7, <1>8, <2>1, Constants, SMT DEF Finishing
<1>14. Carried'
  <2>1. \A u \in Task \ {t} : \A c \in Action : TaskOf[c] = u => c # a
    BY <1>2
  <2>2. \A u \in Task \ {t} : Posted(u)' =>
          \/ \E c \in Action : TaskOf[c] = u /\ (Live(c)' \/ pc'[c] \in FinishPC)
          \/ AllRun(u)' /\ waiting_for'[u] = {}
    BY <1>1, <1>4, <1>6, <1>7, <1>8, <2>1, Constants, SMT DEF Carried
  <2>3. AllRun(t)' /\ waiting_for'[t] = {}
    BY <1>4, <1>5, <1>8
  <2> QED
    BY <2>2, <2>3 DEF Carried
<1>15. Told'
  <2>1. \A u, v \in Task : u \in waiting_for'[v] => u \in waiting_for[v]
    BY <1>4
  <2> QED
    BY <1>1, <1>3, <1>8, <1>9, <2>1 DEF Told
<1>16. LifeOf(a)'
  BY <1>1, <1>3, <1>4 DEF LifeOf, HasRun
<1>17. \A c \in Action : c # a => /\ c \in active' <=> c \in active
                                  /\ c \in pending' => c \in pending \/ calls[c] = 0
  BY <1>3
<1>18. ~aborted'
  BY <1>3 DEF IInv
<1> QED
  BY <1>0, <1>8, <1>11, <1>12, <1>13, <1>14, <1>15, <1>16, <1>17, <1>18, ActionKeeps

LEMMA NotifyIInv ==
  ASSUME IInv, NEW a \in Action, NEW t \in Task, Notify(a, t)
  PROVE  IInv'
<1>0. ActionStep(a)
  BY DEF ActionStep
<1>1. /\ Types /\ Life /\ LifeOf(a) /\ Scheduling /\ WaitCountExact /\ Finishing /\ Carried /\ Told
      /\ a \in Actor
  BY Constants DEF IInv, Life
<1>2. PICK u \in Task : u = TaskOf[a]
  BY Constants
<1>3. /\ UNCHANGED <<added, waiting_for, continuations, ready, augmented, conts,
                     calls, pending, active, aborted>>
      /\ pc[a] = "notify" /\ t \in left[a]
      /\ left' = [left EXCEPT ![a] = @ \ {t}]
      /\ wait_counts' = [wait_counts EXCEPT ![t] = @ + (-1)]
      /\ \/ /\ wait_counts[t] = 1
            /\ target' = [target EXCEPT ![a] = t] /\ pc' = [pc EXCEPT ![a] = "schedule"]
         \/ wait_counts[t] # 1 /\ target' = target /\ pc' = pc
  BY DEF Notify, Goto, Count, pool
<1>4. /\ pc'[a] = (IF wait_counts[t] = 1 THEN "schedule" ELSE "notify")
      /\ target'[a] = (IF wait_counts[t] = 1 THEN t ELSE NoTask)
      /\ target[a] = NoTask
      /\ left'[a] = left[a] \ {t}
      /\ \A y \in Actor \ {a} : pc'[y] = pc[y] /\ target'[y] = target[y]
      /\ \A c \in Action \ {a} : left'[c] = left[c]
  <2>1. target[a] = NoTask
    BY <1>1, <1>3 DEF LifeOf
  <2> QED
    BY <1>1, <1>3, <2>1 DEF Types
<1>5. /\ AllRun(u) /\ left[a] \subseteq waiting_for[u]
      /\ \A b \in Action : TaskOf[b] = u => ~Live(b) /\ (pc[b] \in FinishPC => b = a)
  BY <1>1, <1>2, <1>3 DEF Finishing, FinishPC, NotifyPC
<1>6. \A c \in Action : /\ HasRun(c) => HasRun(c)'
                        /\ pc'[c] \in FinishPC <=> pc[c] \in FinishPC
                        /\ pc'[c] \in NotifyPC <=> pc[c] \in NotifyPC
  BY <1>3, <1>4, Constants DEF HasRun, FinishPC, NotifyPC
<1>7. \A c \in Action : Live(c)' <=> Live(c)
  <2>1. OtherLocals(a)
    BY <1>0, <1>1, ActionIsLocal
  <2>2. \A c \in Action : Part(a, c)' <=> Part(a, c)
    BY <1>3, <1>4 DEF Part, Gives, LivePC, BodyPC
  <2> QED
    BY <1>1, <2>1, <2>2, LiveSame
<1>8. /\ Registered' /\ ContinuationsKept' /\ OnePlace' /\ Rooted' /\ Released'
      /\ \A c \in Action : Posted(c)' <=> Posted(c)
      /\ \A v \in Task : Counted(v)' = Counted(v) /\ (AllRun(v) => AllRun(v)')
  BY <1>3, <1>6, <1>7, EdgeFrame
<1>9. /\ \A v, w \in Task : Awaits(v, w)' <=> Awaits(v, w) /\ ~(v = t /\ w = u)
      /\ Awaits(t, u)
  <2>1. ASSUME NEW v \in Task, NEW w \in Task, w # u PROVE Awaits(v, w)' <=> Awaits(v, w)
    BY <1>2, <1>3, <1>4, <1>6, <2>1 DEF Awaits
  <2>2. \A c \in Action : TaskOf[c] = u => (pc[c] \in NotifyPC <=> c = a)
    BY <1>2, <1>3, <1>5 DEF FinishPC, NotifyPC
  <2>3. ASSUME NEW v \in Task
        PROVE  /\ Awaits(v, u) <=> v \in waiting_for[u] /\ v \in left[a]
               /\ Awaits(v, u)' <=> v \in waiting_for[u] /\ v \in left'[a]
    BY <1>2, <1>3, <1>6, <2>2 DEF Awaits
  <2>4. ASSUME NEW v \in Task PROVE Awaits(v, u)' <=> Awaits(v, u) /\ v # t
    BY <1>4, <2>3
  <2>5. Awaits(t, u)
    BY <1>3, <1>5, <2>3
  <2> QED
    BY <2>1, <2>4, <2>5
<1>10. /\ \A v \in Task \ {t} : Open(v)' = Open(v)
       /\ Open(t)' = Open(t) \ {u} /\ u \in Open(t) /\ Open(t) \in SUBSET Action
  <2>1. \A v \in Task \ {t} : Open(v)' = Open(v)
    BY <1>9 DEF Open
  <2>2. Open(t)' = Open(t) \ {u}
    BY <1>9 DEF Open
  <2> QED
    BY <1>9, <2>1, <2>2, Constants DEF Open
<1>11. ~Posted(t) /\ t \notin ready /\ \A y \in Actor : target[y] # t
  BY <1>1, <1>10 DEF Scheduling
<1>12. wait_counts[t] = Cardinality(Open(t)) /\ Cardinality(Open(t)) \in Nat /\ Cardinality(Counted(t)) = 0
  <2>1. Counted(t) = {}
    BY <1>11, LiveBegun DEF Counted
  <2>2. Cardinality(Counted(t)) = 0 /\ Cardinality(Open(t)) \in Nat
    BY <1>10, <2>1, FS_EmptySet, Finite
  <2> QED
    BY <1>1, <2>2, SMT DEF WaitCountExact
<1>13. Cardinality(Open(t) \ {u}) = Cardinality(Open(t)) - 1
  BY <1>10, OneLess
<1>14. wait_counts[t] = 1 <=> Open(t)' = {}
  <2>1. Cardinality(Open(t) \ {u}) = 0 <=> Open(t) \ {u} = {}
    BY <1>10, Nobody
  <2>2. wait_counts[t] = 1 <=> Open(t) \ {u} = {}
    BY <1>12, <1>13, <2>1, SMT
  <2> QED
    BY <1>10, <2>2
<1>15. WaitCountExact'
  <2>1. wait_counts \in [Task -> Int]
    BY <1>1 DEF Types
  <2>2. \A v \in Task \ {t} : wait_counts'[v] = wait_counts[v]
    BY <1>3, <2>1
  <2>3. \A v \in Task \ {t} : wait_counts'[v] = Cardinality(Open(v))' + Cardinality(Counted(v))'
    BY <1>1, <1>8, <1>10, <2>2 DEF WaitCountExact
  <2>4. wait_counts'[t] = wait_counts[t] - 1
    BY <1>3, <2>1
  <2>5. Cardinality(Open(t))' = Cardinality(Open(t)) - 1 /\ Cardinality(Counted(t))' = 0
    BY <1>8, <1>10, <1>12, <1>13
  <2>6. wait_counts'[t] = Cardinality(Open(t))' + Cardinality(Counted(t))'
    BY <1>12, <2>4, <2>5, SMT
  <2> QED
    BY <2>3, <2>6 DEF WaitCountExact
<1>16. Scheduling'
  <2>1. pc'[Main] = pc[Main] /\ pc[Main] # "add"
    BY <1>0, OwnerKept
  <2>2. \A v \in Task : Posted(v)' <=> Posted(v)
    BY <1>8, Constants
  <2>3. \A y \in Actor, v \in Task \ {t} : target'[y] = v <=> target[y] = v
    BY <1>4, Constants, SMT
  <2>4. \A y \in Actor : target'[y] = t <=> y = a /\ wait_counts[t] = 1
    BY <1>4, <1>11, Constants, SMT
  <2>5. ASSUME NEW v \in Task
        PROVE  /\ \A y \in Actor : target'[y] = v =>
                    ~Posted(v)' /\ v \notin ready' /\ \A z \in Actor : target'[z] = v => y = z
               /\ v \in ready' => ~Posted(v)'
               /\ (Posted(v)' \/ v \in ready' \/ \E y \in Actor : target'[y] = v)
                    <=> pc'[Main] # "add" /\ Open(v)' = {}
    <3>1. CASE v = t
      BY <1>1, <1>3, <1>11, <1>14, <2>1, <2>2, <2>4, <3>1
    <3>2. CASE v # t
      BY <1>1, <1>3, <1>10, <2>1, <2>2, <2>3, <3>2, SMT DEF Scheduling
    <3> QED
      BY <3>1, <3>2
  <2> QED
    BY <2>5 DEF Scheduling
<1>17. Finishing'
  <2>1. \A c \in Action : left'[c] \subseteq left[c] /\ TaskOf[c] \in Task
    BY <1>4, Constants
  <2> SUFFICES ASSUME NEW c \in Action, pc'[c] \in FinishPC
               PROVE  /\ \A b \in Action : TaskOf[b] = TaskOf[c] =>
                           ~Live(b)' /\ (pc'[b] \in FinishPC => c = b)
                      /\ pc'[c] \in NotifyPC =>
                           AllRun(TaskOf[c])' /\ left'[c] \subseteq waiting_for'[TaskOf[c]]
    BY DEF Finishing
  <2>2. \A b \in Action : TaskOf[b] = TaskOf[c] => ~Live(b)' /\ (pc'[b] \in FinishPC => c = b)
    BY <1>1, <1>6, <1>7 DEF Finishing
  <2>3. pc[c] \in NotifyPC => AllRun(TaskOf[c]) /\ left[c] \subseteq waiting_for[TaskOf[c]]
    BY <1>1, <1>6 DEF Finishing
  <2> QED
    BY <1>3, <1>6, <1>8, <2>1, <2>2, <2>3
<1>18. Carried'
  BY <1>1, <1>3, <1>6, <1>7, <1>8, Constants DEF Carried
<1>19. Told'
  BY <1>1, <1>3, <1>5, <1>8, <1>9 DEF Told
<1>20. LifeOf(a)'
  <2>1. /\ pc'[a] \in {"schedule", "notify"}
        /\ target'[a] # NoTask <=> pc'[a] = "schedule"
    BY <1>4, Constants, SMT
  <2> QED
    BY <1>1, <1>3, <2>1 DEF LifeOf, HasRun
<1>21. \A c \in Action : c # a => /\ c \in active' <=> c \in active
                                  /\ c \in pending' => c \in pending \/ calls[c] = 0
  BY <1>3
<1>22. ~aborted'
  BY <1>3 DEF IInv
<1> QED
  BY <1>0, <1>8, <1>15, <1>16, <1>17, <1>18, <1>19, <1>20, <1>21, <1>22, ActionKeeps

\* The steps of the caller that post nothing and leave the actions alone.
LEMMA MainFrame ==
  ASSUME IInv, MainStep, UNCHANGED <<continuations, pending, active>>,
         pc[Main] \notin {"schedule_post"}, pc'[Main] \notin {"schedule_post"}
  PROVE  /\ Types' /\ Life' /\ Registered' /\ ContinuationsKept' /\ OnePlace' /\ Rooted' /\ Released'
         /\ UNCHANGED <<augmented, conts, left, calls>>
         /\ \A c \in Action : /\ Posted(c)' <=> Posted(c)
                              /\ Live(c)' <=> Live(c)
                              /\ HasRun(c)' <=> HasRun(c)
                              /\ pc'[c] = pc[c] /\ target'[c] = target[c]
         /\ \A t \in Task : Counted(t)' = Counted(t) /\ (AllRun(t) => AllRun(t)')
<1>1. Types /\ Life /\ Owner
  BY DEF IInv
<1>2. Types' /\ OtherLocals(Main) /\ UNCHANGED <<augmented, conts, left, calls>>
  BY <1>1, MainTypes, MainIsLocal
<1>3. Life'
  BY <1>1, <1>2, LifeOthers, Constants DEF Life
<1>4. \A c \in Action : pc'[c] = pc[c] /\ target'[c] = target[c]
  BY <1>2, Constants DEF OtherLocals
<1>5. \A c \in Action : HasRun(c)' <=> HasRun(c)
  BY <1>2, <1>4 DEF HasRun
<1>6. \A c \in Action : Live(c)' <=> Live(c)
  <2>1. \A c \in Action : Part(Main, c)' <=> Part(Main, c)
    BY Constants DEF Part, Gives
  <2> QED
    BY <1>1, <1>2, <2>1, LiveSame, Constants
<1>7. /\ Registered' /\ ContinuationsKept' /\ OnePlace' /\ Rooted' /\ Released'
      /\ \A c \in Action : Posted(c)' <=> Posted(c)
      /\ \A t \in Task : Counted(t)' = Counted(t) /\ (AllRun(t) => AllRun(t)')
  BY <1>2, <1>5, <1>6, EdgeFrame
<1> QED
  BY <1>2, <1>3, <1>4, <1>5, <1>6, <1>7

\* The steps of the caller that leave the dependencies alone as well.
LEMMA MainQuiet ==
  ASSUME IInv, Run \/ JoinBegin \/ \E t \in Task : ScheduleReady(t)
  PROVE  /\ Types' /\ Life' /\ Registered' /\ ContinuationsKept' /\ OnePlace' /\ Rooted' /\ Released'
         /\ WaitCountExact' /\ Finishing' /\ Carried' /\ Told' /\ ~aborted'
         /\ UNCHANGED <<added, wait_counts, calls, pending, active>>
         /\ \A c \in Action : /\ Posted(c)' <=> Posted(c)
                              /\ pc'[c] = pc[c] /\ target'[c] = target[c]
         /\ \A t \in Task : Open(t)' = Open(t)
<1>1. Types /\ WaitCountExact /\ Finishing /\ Carried /\ Told /\ ~aborted
  BY DEF IInv
<1>2. MainStep
  BY DEF MainStep
<1>3. /\ UNCHANGED <<added, waiting_for, wait_counts, continuations, pending, active, left, calls, aborted>>
      /\ pc[Main] \in {"add", "ready"} /\ pc'[Main] \in {"ready", "join", "schedule"}
  <2>1. pc \in [Actor -> ActorPC] /\ Main \in Actor
    BY <1>1, Constants DEF Types
  <2>2. CASE Run
    BY <2>1, <2>2 DEF Run, Goto, pool
  <2>3. CASE JoinBegin
    BY <2>1, <2>3 DEF JoinBegin, Goto, pool
  <2>4. CASE \E t \in Task : ScheduleReady(t)
    BY <2>1, <2>4 DEF ScheduleReady, Goto, pool
  <2> QED
    BY <2>2, <2>3, <2>4
<1>4. /\ Types' /\ Life' /\ Registered' /\ ContinuationsKept' /\ OnePlace' /\ Rooted' /\ Released'
      /\ \A c \in Action : /\ Posted(c)' <=> Posted(c)
                           /\ Live(c)' <=> Live(c)
                           /\ HasRun(c)' <=> HasRun(c)
                           /\ pc'[c] = pc[c] /\ target'[c] = target[c]
      /\ \A t \in Task : Counted(t)' = Counted(t) /\ (AllRun(t) => AllRun(t)')
  BY <1>2, <1>3, MainFrame
<1>5. \A t, u \in Task : Awaits(t, u)' <=> Awaits(t, u)
  BY <1>3, <1>4, AwaitsSame
<1>6. \A t \in Task : Open(t)' = Open(t)
  BY <1>5, OpenSame
<1>7. WaitCountExact'
  BY <1>1, <1>3, <1>4, <1>6 DEF WaitCountExact
<1>8. Finishing'
  BY <1>1, <1>3, <1>4, Constants DEF Finishing
<1>9. Carried'
  BY <1>1, <1>3, <1>4, Constants, SMT DEF Carried
<1>10. Told'
  BY <1>1, <1>3, <1>4, <1>5 DEF Told
<1> QED
  BY <1>1, <1>3, <1>4, <1>6, <1>7, <1>8, <1>9, <1>10

LEMMA RunIInv ==
  ASSUME IInv, Run
  PROVE  IInv'
<1>1. Types /\ Life /\ Owner /\ Scheduling /\ WaitCountExact
  BY DEF IInv
<1>2. /\ Types' /\ Life' /\ Registered' /\ ContinuationsKept' /\ OnePlace' /\ Rooted' /\ Released'
      /\ WaitCountExact' /\ Finishing' /\ Carried' /\ Told' /\ ~aborted'
      /\ UNCHANGED <<added, wait_counts, calls, pending, active>>
      /\ \A c \in Action : /\ Posted(c)' <=> Posted(c)
                           /\ pc'[c] = pc[c] /\ target'[c] = target[c]
      /\ \A t \in Task : Open(t)' = Open(t)
  BY MainQuiet
<1>3. /\ pc[Main] = "add" /\ pc'[Main] = "ready" /\ added = Dependency /\ target' = target
      /\ ready' = {t \in Task : wait_counts[t] = 0}
  BY <1>1, Constants, SMT DEF Run, Goto, Types
<1>4. \A a \in Action : ~Posted(a)
  BY <1>1, <1>3 DEF Owner
<1>5. \A x \in Actor : target[x] = NoTask
  <2>1. \A a \in Action : pc[a] = "none"
    BY <1>1, <1>4 DEF Posted, Life, LifeOf
  <2>2. \A a \in Action : target[a] = NoTask
    BY <1>1, <2>1 DEF Life, LifeOf
  <2> QED
    BY <1>1, <1>3, <2>2 DEF Owner, Actor
<1>6. \A t \in Task : t \in ready' <=> Open(t) = {}
  <2> SUFFICES ASSUME NEW t \in Task PROVE wait_counts[t] = 0 <=> Open(t) = {}
    BY <1>3
  <2>1. Counted(t) = {}
    BY <1>4, <1>5, LiveBegun, Constants, SMT DEF Counted
  <2>2. Cardinality(Counted(t)) = 0
    BY <2>1, FS_EmptySet
  <2>3. Open(t) \in SUBSET Action
    BY Constants DEF Open
  <2>4. Cardinality(Open(t)) \in Nat /\ (Cardinality(Open(t)) = 0 <=> Open(t) = {})
    BY <2>3, Finite, Nobody
  <2> QED
    BY <1>1, <2>2, <2>4, SMT DEF WaitCountExact
<1>7. Scheduling'
  BY <1>2, <1>3, <1>4, <1>5, <1>6, Constants, SMT DEF Scheduling
<1>8. Owner'
  BY <1>1, <1>2, <1>3 DEF Owner, MainPC
<1> QED
  BY <1>2, <1>7, <1>8 DEF IInv

LEMMA ScheduleReadyIInv ==
  ASSUME IInv, NEW t \in Task, ScheduleReady(t)
  PROVE  IInv'
<1>1. Types /\ Life /\ Owner /\ Scheduling
  BY DEF IInv
<1>2. /\ Types' /\ Life' /\ Registered' /\ ContinuationsKept' /\ OnePlace' /\ Rooted' /\ Released'
      /\ WaitCountExact' /\ Finishing' /\ Carried' /\ Told' /\ ~aborted'
      /\ UNCHANGED <<added, wait_counts, calls, pending, active>>
      /\ \A c \in Action : /\ Posted(c)' <=> Posted(c)
                           /\ pc'[c] = pc[c] /\ target'[c] = target[c]
      /\ \A u \in Task : Open(u)' = Open(u)
  BY MainQuiet
<1>3. /\ pc[Main] = "ready" /\ pc'[Main] = "schedule" /\ t \in ready /\ ready' = ready \ {t}
      /\ target'[Main] = t /\ target[Main] = NoTask
  BY <1>1, Constants, SMT DEF ScheduleReady, Goto, Types, Owner
<1>4. ~Posted(t) /\ \A x \in Actor : target[x] # t
  BY <1>1, <1>3 DEF Scheduling
<1>5. \A x \in Actor, u \in Task : target'[x] = u <=> target[x] = u \/ (x = Main /\ u = t)
  BY <1>2, <1>3, Constants, SMT DEF Actor
<1>6. \A u \in Task : Posted(u)' <=> Posted(u)
  BY <1>2, Constants
<1>7. ASSUME NEW u \in Task
      PROVE  /\ \A y \in Actor : target'[y] = u =>
                  ~Posted(u)' /\ u \notin ready' /\ \A z \in Actor : target'[z] = u => y = z
             /\ u \in ready' => ~Posted(u)'
             /\ (Posted(u)' \/ u \in ready' \/ \E y \in Actor : target'[y] = u)
                  <=> pc'[Main] # "add" /\ Open(u)' = {}
  <2>1. CASE u = t
    <3>1. Open(t) = {}
      BY <1>1, <1>3 DEF Scheduling
    <3> QED
      BY <1>2, <1>3, <1>4, <1>5, <1>6, <2>1, <3>1, Constants, SMT
  <2>2. CASE u # t
    BY <1>1, <1>2, <1>3, <1>5, <1>6, <2>2, SMT DEF Scheduling
  <2> QED
    BY <2>1, <2>2
<1>8. Scheduling'
  BY <1>7 DEF Scheduling
<1>9. Owner'
  BY <1>1, <1>2, <1>3, Constants DEF Owner, MainPC
<1> QED
  BY <1>2, <1>8, <1>9 DEF IInv

LEMMA JoinBeginIInv ==
  ASSUME IInv, JoinBegin
  PROVE  IInv'
<1>1. Types /\ Owner /\ Scheduling
  BY DEF IInv
<1>2. /\ Types' /\ Life' /\ Registered' /\ ContinuationsKept' /\ OnePlace' /\ Rooted' /\ Released'
      /\ WaitCountExact' /\ Finishing' /\ Carried' /\ Told' /\ ~aborted'
      /\ UNCHANGED <<added, wait_counts, calls, pending, active>>
      /\ \A c \in Action : /\ Posted(c)' <=> Posted(c)
                           /\ pc'[c] = pc[c] /\ target'[c] = target[c]
      /\ \A t \in Task : Open(t)' = Open(t)
  BY MainQuiet
<1>3. pc[Main] = "ready" /\ pc'[Main] = "join" /\ ready = {} /\ ready' = ready /\ target' = target
  BY <1>1, Constants, SMT DEF JoinBegin, Goto, Types
<1>4. Scheduling'
  BY <1>1, <1>2, <1>3, Constants, SMT DEF Scheduling
<1>5. Owner'
  BY <1>1, <1>2, <1>3 DEF Owner, MainPC
<1> QED
  BY <1>2, <1>4, <1>5 DEF IInv

LEMMA AddDependencyIInv ==
  ASSUME IInv, NEW d \in Dependency, AddDependency(d)
  PROVE  IInv'
<1>1. Types /\ Life /\ Owner /\ Scheduling /\ WaitCountExact /\ Finishing /\ Carried /\ Told /\ ~aborted
  BY DEF IInv
<1>2. PICK t \in Task, u \in Task : d = <<t, u>> /\ d[1] = t /\ d[2] = u
  BY DAGAssumption, SMT
<1>3. /\ UNCHANGED <<continuations, ready, pc, target, aborted, calls, pending, active>>
      /\ pc[Main] = "add" /\ <<t, u>> \notin added /\ added' = added \cup {<<t, u>>}
      /\ waiting_for' = [waiting_for EXCEPT ![u] = @ \cup {t}]
      /\ wait_counts' = [wait_counts EXCEPT ![t] = @ + 1]
  BY <1>2 DEF AddDependency, Count, pool
<1>4. /\ Types' /\ Life' /\ Registered' /\ ContinuationsKept' /\ OnePlace' /\ Rooted' /\ Released'
      /\ UNCHANGED <<augmented, conts, left, calls>>
      /\ \A c \in Action : /\ Posted(c)' <=> Posted(c)
                           /\ Live(c)' <=> Live(c)
                           /\ HasRun(c)' <=> HasRun(c)
      /\ \A v \in Task : Counted(v)' = Counted(v) /\ (AllRun(v) => AllRun(v)')
  <2>1. MainStep
    BY DEF MainStep
  <2> QED
    BY <1>3, <2>1, MainFrame
<1>5. \A a \in Action : ~Posted(a) /\ pc[a] = "none"
  <2>1. \A a \in Action : ~Posted(a)
    BY <1>1, <1>3 DEF Owner
  <2> QED
    BY <1>1, <2>1 DEF Posted, Life, LifeOf
<1>6. \A v, w \in Task : /\ Awaits(v, w) <=> v \in waiting_for[w]
                         /\ Awaits(v, w)' <=> v \in waiting_for'[w]
  BY <1>3, <1>5 DEF Awaits, NotifyPC
<1>7. /\ waiting_for'[u] = waiting_for[u] \cup {t} /\ t \notin waiting_for[u]
      /\ \A w \in Task \ {u} : waiting_for'[w] = waiting_for[w]
  BY <1>1, <1>3 DEF Types, Told
<1>8. /\ \A v \in Task \ {t} : Open(v)' = Open(v)
      /\ Open(t)' = Open(t) \cup {u} /\ u \notin Open(t) /\ Open(t) \in SUBSET Action
  <2>1. \A v \in Task \ {t} : Open(v)' = Open(v)
    BY <1>6, <1>7 DEF Open
  <2>2. Open(t)' = Open(t) \cup {u}
    BY <1>6, <1>7 DEF Open
  <2> QED
    BY <1>6, <1>7, <2>1, <2>2, Constants DEF Open
<1>9. WaitCountExact'
  <2>1. wait_counts \in [Task -> Int]
    BY <1>1 DEF Types
  <2>2. \A v \in Task \ {t} : wait_counts'[v] = Cardinality(Open(v))' + Cardinality(Counted(v))'
    BY <1>1, <1>3, <1>4, <1>8, <2>1 DEF WaitCountExact
  <2>3. Cardinality(Open(t))' = Cardinality(Open(t)) + 1 /\ Cardinality(Open(t)) \in Nat
    BY <1>8, OneMore, Finite
  <2>4. Cardinality(Counted(t)) \in Nat /\ Cardinality(Counted(t))' = Cardinality(Counted(t))
    BY <1>4, Finite DEF Counted
  <2>5. wait_counts'[t] = wait_counts[t] + 1
    BY <1>3, <2>1
  <2>6. wait_counts[t] = Cardinality(Open(t)) + Cardinality(Counted(t))
    BY <1>1 DEF WaitCountExact
  <2>7. wait_counts'[t] = Cardinality(Open(t))' + Cardinality(Counted(t))'
    BY <2>3, <2>4, <2>5, <2>6, SMT
  <2> QED
    BY <2>2, <2>7 DEF WaitCountExact
<1>10. Scheduling'
  BY <1>1, <1>3, <1>4, Constants DEF Scheduling
<1>11. Finishing'
  BY <1>3, <1>5 DEF Finishing, FinishPC, NotifyPC
<1>12. Carried'
  BY <1>4, <1>5, Constants DEF Carried
<1>13. Told'
  <2>1. \A v, w \in Task : v \in waiting_for'[w] => <<v, w>> \in added'
    BY <1>1, <1>3, <1>7 DEF Told
  <2>2. \A v, w \in Task : <<v, w>> \in added' /\ ~Awaits(v, w)' => AllRun(w)'
    <3> SUFFICES ASSUME NEW v \in Task, NEW w \in Task, <<v, w>> \in added', ~Awaits(v, w)'
                 PROVE  AllRun(w)'
      OBVIOUS
    <3>1. v \notin waiting_for'[w]
      BY <1>6
    <3>2. ~(v = t /\ w = u)
      BY <1>7, <3>1
    <3>3. <<v, w>> \in added /\ ~Awaits(v, w)
      BY <1>3, <1>6, <1>7, <3>1, <3>2
    <3> QED
      BY <1>1, <1>4, <3>3 DEF Told
  <2> QED
    BY <2>1, <2>2 DEF Told
<1>14. Owner'
  BY <1>1, <1>3, <1>4 DEF Owner
<1> QED
  BY <1>1, <1>3, <1>4, <1>9, <1>10, <1>11, <1>12, <1>13, <1>14 DEF IInv

\* When the pool is empty after the last ready task, every action has run: a
\* task that was never posted would wait for one that was never posted.
LEMMA JoinedMeansRun ==
  ASSUME IInv, pc[Main] = "join", pending = {}, active = {}
  PROVE  /\ \A a \in Action : HasRun(a) /\ ~Live(a) /\ pc[a] = "none" /\ Posted(a)
         /\ \A t \in Task : /\ AllRun(t) /\ waiting_for[t] = {}
                            /\ continuations[t] = <<>> /\ wait_counts[t] = 0
<1>1. /\ Types /\ Life /\ Owner /\ Scheduling /\ WaitCountExact /\ Carried /\ Told
      /\ ContinuationsKept /\ OnePlace
  BY DEF IInv
<1>2. \A a \in Action : pc[a] = "none" /\ target[a] = NoTask /\ conts[a] = <<>>
  BY <1>1 DEF Life, LifeOf
<1>3. \A x \in Actor : target[x] = NoTask /\ pc[x] \in {"none", "join"}
  BY <1>1, <1>2 DEF Owner, Actor
<1>4. \A a \in Action : ~Live(a) /\ pc[a] \notin FinishPC
  BY <1>2, <1>3 DEF Live, Gives, BodyPC, FinishPC, NotifyPC
<1>5. \A t \in Task : Posted(t) => AllRun(t) /\ waiting_for[t] = {}
  BY <1>1, <1>4 DEF Carried
<1>6. \A t \in Task : Posted(t)
  <2> DEFINE S == {t \in Task : ~Posted(t)}
  <2> SUFFICES ASSUME S # {} PROVE FALSE
    OBVIOUS
  <2>1. PICK t \in S : \A u \in S : <<t, u>> \notin Dependency
    BY AcyclicAssumption
  <2>2. Open(t) # {}
    BY <1>1, <1>3, Constants, SMT DEF Scheduling, Owner
  <2>3. PICK u \in Task : Awaits(t, u)
    BY <2>2 DEF Open
  <2>4. t \in waiting_for[u] /\ <<t, u>> \in Dependency
    BY <1>1, <2>3 DEF Awaits, Told, Types
  <2>5. Posted(u)
    BY <2>1, <2>4
  <2> QED
    BY <1>5, <2>4, <2>5
<1>7. \A t \in Task : AllRun(t) /\ waiting_for[t] = {}
  BY <1>5, <1>6
<1>8. \A a \in Action : HasRun(a)
  BY <1>7, Constants DEF AllRun
<1>9. \A a \in Action : Posted(a)
  <2>1. \A a \in Action : calls[a] \in {0, 1} /\ calls[a] > 0
    BY <1>1, <1>8 DEF Life, LifeOf, HasRun
  <2> QED
    BY <2>1, SMT DEF Posted
<1>10. \A t \in Task : continuations[t] = <<>>
  <2> SUFFICES ASSUME NEW t \in Task, continuations[t] # <<>> PROVE FALSE
    OBVIOUS
  <2>1. continuations[t] \in Seq(Action)
    BY <1>1 DEF Types
  <2>2. 1 \in 1 .. Len(continuations[t]) /\ continuations[t][1] \in Action
    BY <2>1, SeqFacts, SMT
  <2>3. PICK f \in Action : f = continuations[t][1]
    BY <2>2
  <2>4. TaskOf[f] = t
    BY <1>1, <2>2, <2>3 DEF ContinuationsKept
  <2>5. Held(f)
    BY <2>2, <2>3, <2>4 DEF Held
  <2> QED
    BY <1>1, <1>9, <2>5 DEF OnePlace
<1>11. \A t \in Task : wait_counts[t] = 0
  <2> SUFFICES ASSUME NEW t \in Task PROVE wait_counts[t] = 0
    OBVIOUS
  <2>1. Open(t) = {} /\ Counted(t) = {}
    BY <1>4, <1>7 DEF Open, Awaits, Counted
  <2>2. Cardinality({}) = 0
    BY FS_EmptySet
  <2>3. Cardinality(Open(t)) = 0 /\ Cardinality(Counted(t)) = 0
    BY <2>1, <2>2
  <2> QED
    BY <1>1, <2>3, SMT DEF WaitCountExact
<1> QED
  BY <1>2, <1>4, <1>7, <1>8, <1>9, <1>10, <1>11

LEMMA RunEndIInv ==
  ASSUME IInv, RunEnd
  PROVE  IInv'
<1>1. Types /\ Life /\ Owner /\ Registered /\ ContinuationsKept /\ OnePlace /\ Scheduling
      /\ Rooted /\ Released /\ WaitCountExact
  BY DEF IInv
<1>2. /\ pc[Main] = "join" /\ pending = {} /\ active = {}
      /\ UNCHANGED <<added, ready, augmented, conts, left, target, calls, pending, active>>
      /\ pc' = [pc EXCEPT ![Main] = "returned"]
      /\ continuations' = [t \in Task |-> <<>>] /\ wait_counts' = [t \in Task |-> 0]
      /\ waiting_for' = [t \in Task |-> {}]
      /\ aborted' = ~(\A t \in Task : continuations[t] = <<>> /\ wait_counts[t] = 0)
  BY DEF RunEnd, Pool!Joined, Goto, Check
<1>3. /\ \A a \in Action : HasRun(a) /\ ~Live(a) /\ pc[a] = "none" /\ Posted(a)
      /\ \A t \in Task : /\ AllRun(t) /\ waiting_for[t] = {}
                         /\ continuations[t] = <<>> /\ wait_counts[t] = 0
  BY <1>2, JoinedMeansRun
<1>4. continuations' = continuations
  BY <1>1, <1>2, <1>3 DEF Types
<1>5. pc'[Main] = "returned"
  BY <1>1, <1>2, Constants, SMT DEF Types
<1>6. /\ Types' /\ Life' /\ Registered' /\ ContinuationsKept' /\ OnePlace' /\ Rooted' /\ Released'
      /\ \A c \in Action : /\ Posted(c)' <=> Posted(c)
                           /\ Live(c)' <=> Live(c)
                           /\ HasRun(c)' <=> HasRun(c)
                           /\ pc'[c] = pc[c] /\ target'[c] = target[c]
      /\ \A t \in Task : Counted(t)' = Counted(t) /\ (AllRun(t) => AllRun(t)')
  <2>1. MainStep
    BY DEF MainStep
  <2> QED
    BY <1>2, <1>4, <1>5, <2>1, MainFrame
<1>7. \A t \in Task : Open(t)' = {} /\ Counted(t)' = {}
  <2>1. \A t, u \in Task : ~Awaits(t, u)'
    BY <1>2 DEF Awaits
  <2> QED
    BY <1>3, <1>6, <2>1 DEF Open, Counted
<1>8. WaitCountExact'
  <2>1. Cardinality({}) = 0
    BY FS_EmptySet
  <2>2. \A t \in Task : Cardinality(Open(t))' = 0 /\ Cardinality(Counted(t))' = 0
    BY <1>7, <2>1
  <2> QED
    BY <1>2, <2>2, SMT DEF WaitCountExact
<1>9. Scheduling'
  <2>1. \A t \in Task : Posted(t)' /\ Posted(t) /\ t \notin ready'
    BY <1>1, <1>2, <1>3, <1>6, Constants DEF Owner
  <2> QED
    BY <1>1, <1>2, <1>5, <1>7, <2>1 DEF Scheduling
<1>10. Finishing'
  BY <1>3, <1>6 DEF Finishing, FinishPC, NotifyPC
<1>11. Carried'
  BY <1>2, <1>3, <1>6 DEF Carried
<1>12. Told'
  BY <1>2, <1>3, <1>6 DEF Told
<1>13. Owner'
  BY <1>1, <1>2, <1>3, <1>5, <1>6 DEF Owner, MainPC
<1>14. ~aborted'
  BY <1>2, <1>3
<1> QED
  BY <1>6, <1>8, <1>9, <1>10, <1>11, <1>12, <1>13, <1>14 DEF IInv
-----------------------------------------------------------------------------
(***************************************************************************)
(* The theorems.                                                           *)
(***************************************************************************)
LEMMA StutterIInv == IInv /\ UNCHANGED vars => IInv'
<1> SUFFICES ASSUME IInv, UNCHANGED vars PROVE IInv'
  OBVIOUS
<1>1. /\ UNCHANGED <<added, waiting_for, wait_counts, continuations, ready, pc, augmented, conts, left,
                     target, aborted, calls, pending, active>>
  BY DEF vars
<1>2. \A c \in Action : /\ Posted(c)' <=> Posted(c)
                        /\ HasRun(c)' <=> HasRun(c)
                        /\ Live(c)' <=> Live(c)
  BY <1>1 DEF Posted, HasRun, Live, Gives, Taken, NextFunction
<1>3. /\ Registered' /\ ContinuationsKept' /\ OnePlace' /\ Rooted' /\ WaitCountExact'
      /\ Finishing' /\ Carried' /\ Told' /\ Released'
      /\ \A t \in Task : Open(t)' = Open(t)
  BY <1>1, <1>2, Frame
<1>4. Types'
  BY <1>1 DEF IInv, Types
<1>5. Life'
  BY <1>1 DEF IInv, Life, LifeOf, HasRun, NextFunction
<1>6. Owner'
  BY <1>1, <1>2 DEF IInv, Owner
<1>7. Scheduling'
  BY <1>1, <1>2, <1>3, Constants, SMT DEF IInv, Scheduling
<1> QED
  BY <1>1, <1>3, <1>4, <1>5, <1>6, <1>7 DEF IInv

\* The wait count of a task is at every moment the number of its dependencies
\* that are not done plus the number of its actions that are counted and not
\* finished; the rest of IInv says who may act on a count of zero.
THEOREM WaitCounts == Spec => []IInv
<1>1. Init => IInv
  BY InitIInv
<1>2. IInv /\ [Next]_vars => IInv'
  <2> SUFFICES ASSUME IInv, [Next]_vars PROVE IInv'
    OBVIOUS
  <2>1. CASE UNCHANGED vars
    BY <2>1, StutterIInv
  <2>2. CASE MainStep
    <3>1. Main \in Actor
      BY Constants
    <3> QED
      BY <2>2, <3>1, AddDependencyIInv, RunIInv, ScheduleReadyIInv, ScheduleIncrementIInv,
         SchedulePostIInv, JoinBeginIInv, RunEndIInv DEF MainStep
  <2>3. CASE PoolStarts
    BY <2>3, StartIInv DEF PoolStarts
  <2>4. ASSUME NEW a \in Action, ActionStep(a) PROVE IInv'
    <3>1. a \in Actor
      BY Constants
    <3> QED
      BY <2>4, <3>1, PushContinuationIInv, AugmentIncrementIInv, AugmentPostIInv, BodyEndsIInv,
         DecrementIInv, GetAndEraseIInv, ContinuationsIncrementIInv, ContinuationPostIInv,
         NotifyIInv, NotifyEndIInv, ScheduleIncrementIInv, SchedulePostIInv, EndIInv DEF ActionStep
  <2> QED
    BY <2>1, <2>2, <2>3, <2>4 DEF Next
<1> QED
  BY <1>1, <1>2, PTL DEF Spec

\* No action of the executor or of a task is called twice and, when run
\* returns, every one was called.
THEOREM ActionsRunOnce == Spec => []EveryActionOnce
<1>1. IInv => EveryActionOnce
  <2> SUFFICES ASSUME IInv PROVE EveryActionOnce
    OBVIOUS
  <2>1. \A a \in Action : calls[a] \in {0, 1}
    BY DEF IInv, Life, LifeOf
  <2>2. ASSUME pc[Main] = "returned" PROVE \A a \in Action : calls[a] = 1
    BY <2>1, <2>2, SMT DEF IInv, Owner, HasRun
  <2> QED
    BY <2>1, <2>2, SMT DEF EveryActionOnce
<1> QED
  BY <1>1, WaitCounts, PTL

\* A task is called only when every action of every task it depends on has
\* returned, the continuations included.
THEOREM DependenciesFirst == Spec => []AfterDependencies
<1>1. IInv => AfterDependencies
  <2> SUFFICES ASSUME IInv, NEW d \in Dependency, calls[d[1]] > 0, NEW a \in ActionsOf(d[2])
               PROVE  HasRun(a)
    BY DEF AfterDependencies
  <2>1. PICK t \in Task, u \in Task : d = <<t, u>> /\ d[1] = t /\ d[2] = u
    BY DAGAssumption, SMT
  <2>2. Posted(t)
    BY <2>1, Constants, SMT DEF IInv, Life, LifeOf, Posted
  <2>3. pc[Main] # "add" /\ Open(t) = {}
    BY <2>2 DEF IInv, Scheduling
  <2>4. <<t, u>> \in added /\ ~Awaits(t, u)
    BY <2>1, <2>3 DEF IInv, Owner, Open
  <2> QED
    BY <2>1, <2>4 DEF IInv, Told, AllRun, ActionsOf
<1> QED
  BY <1>1, WaitCounts, PTL

\* A continuation is called only when the actions of its task that do not stem
\* from a continuation have all returned.
THEOREM ContinuationsRunLast == Spec => []ContinuationsLast
<1>1. IInv => ContinuationsLast
  <2> SUFFICES ASSUME IInv, NEW c \in Continuation, calls[c] > 0,
                      NEW a \in ActionsOf(TaskOf[c]), Plain[a]
               PROVE  HasRun(a)
    BY DEF ContinuationsLast
  <2>1. c \in Action
    BY DAGAssumption
  <2>2. Posted(c)
    BY <2>1, SMT DEF IInv, Life, LifeOf, Posted
  <2> QED
    BY <2>2 DEF IInv, Released, PlainRun, ActionsOf
<1> QED
  BY <1>1, WaitCounts, PTL

\* No assertion of the scheduler fails: schedule finds a count of zero,
\* augment one above it, the action that takes continuations zero again, and
\* run finds no continuation and no count when the pool is empty.
THEOREM AssertionsHold == Spec => []~aborted
<1>1. IInv => ~aborted
  BY DEF IInv
<1> QED
  BY <1>1, WaitCounts, PTL
=============================================================================

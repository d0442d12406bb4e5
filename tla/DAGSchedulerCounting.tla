------------------------ MODULE DAGSchedulerCounting ------------------------
(***************************************************************************)
(* The steps of PriorityThreadPoolDAGScheduler that change a wait count or *)
(* hand a counted action to the pool keep the invariant.                   *)
(***************************************************************************)
EXTENDS DAGSchedulerInvariant

\* First-order steps go to Zenon; a step about numbers or updated functions
\* names SMT.
USE Zenon

-----------------------------------------------------------------------------
(***************************************************************************)
(* The steps that change a wait count and what it counts.                  *)
(***************************************************************************)
LEMMA CountFrame ==
  ASSUME IInv, NEW t \in Task, NEW n \in Int,
         UNCHANGED <<added, waiting_for, continuations, ready, augmented, conts, left, target,
                     calls, pending>>,
         wait_counts' = [wait_counts EXCEPT ![t] = @ + n],
         Cardinality(Counted(t))' = Cardinality(Counted(t)) + n,
         pc'[Main] = "add" <=> pc[Main] = "add",
         \A c \in Action : /\ HasRun(c) => HasRun(c)'
                           /\ pc'[c] \in NotifyPC <=> pc[c] \in NotifyPC
                           /\ TaskOf[c] # t => /\ Live(c)' <=> Live(c)
                                               /\ pc'[c] \in FinishPC <=> pc[c] \in FinishPC
                           /\ TaskOf[c] = t /\ pc'[c] \in FinishPC =>
                                \A b \in Action : TaskOf[b] = t =>
                                   ~Live(b)' /\ (pc'[b] \in FinishPC => c = b),
         Posted(t) => \E c \in Action : TaskOf[c] = t /\ (Live(c)' \/ pc'[c] \in FinishPC)
  PROVE  /\ Registered' /\ ContinuationsKept' /\ OnePlace' /\ Scheduling' /\ Rooted'
         /\ WaitCountExact' /\ Finishing' /\ Carried' /\ Told' /\ Released'
<1> USE DEF IInv
<1>1. \A f \in Action : Held(f)' <=> Held(f)
  BY HeldSame
<1>2. \A b, f \in Action : Taken(b, f)' <=> Taken(b, f)
  BY HeldSame
<1>3. \A u, v \in Task : Awaits(u, v)' <=> Awaits(u, v)
  BY AwaitsSame
<1>4. \A u \in Task : Open(u)' = Open(u)
  BY <1>3, OpenSame
<1>5. \A u \in Task : (AllRun(u) => AllRun(u)') /\ (PlainRun(u) => PlainRun(u)')
  BY RunKept
<1>6. \A c \in Action : Posted(c)' <=> Posted(c)
  BY DEF Posted
<1>7. Registered'
  <2>1. \A f \in Action : Known(f)' <=> Known(f)
    BY <1>1, <1>2, <1>6 DEF Known
  <2> QED
    BY <2>1, Constants DEF Registered
<1>8. ContinuationsKept'
  BY HeldSame
<1>9. OnePlace'
  BY <1>1, <1>2, <1>6 DEF OnePlace
<1>10. Scheduling'
  BY <1>4, <1>6, Constants, SMT DEF Scheduling
<1>11. Rooted'
  BY <1>6, Constants DEF Rooted
<1>12. WaitCountExact'
  <2>1. wait_counts \in [Task -> Int]
    BY DEF Types
  <2>2. \A u \in Task \ {t} : Counted(u)' = Counted(u)
    BY DEF Counted
  <2>3. \A u \in Task \ {t} : wait_counts'[u] = Cardinality(Open(u))' + Cardinality(Counted(u))'
    BY <1>4, <2>1, <2>2 DEF WaitCountExact
  <2>4. wait_counts'[t] = Cardinality(Open(t))' + Cardinality(Counted(t))'
    <3>1. Cardinality(Open(t)) \in Nat /\ Cardinality(Counted(t)) \in Nat
      BY Finite, Constants DEF Open, Counted
    <3>2. wait_counts'[t] = wait_counts[t] + n
      BY <2>1
    <3>3. wait_counts[t] = Cardinality(Open(t)) + Cardinality(Counted(t))
      BY DEF WaitCountExact
    <3> QED
      BY <1>4, <3>1, <3>2, <3>3, SMT
  <2> QED
    BY <2>3, <2>4 DEF WaitCountExact
<1>13. Finishing'
  <2> SUFFICES ASSUME NEW c \in Action, pc'[c] \in FinishPC
               PROVE  /\ \A b \in Action : TaskOf[b] = TaskOf[c] =>
                           ~Live(b)' /\ (pc'[b] \in FinishPC => c = b)
                      /\ pc'[c] \in NotifyPC =>
                           AllRun(TaskOf[c])' /\ left'[c] \subseteq waiting_for'[TaskOf[c]]
    BY DEF Finishing
  <2>1. \A b \in Action : TaskOf[b] = TaskOf[c] => ~Live(b)' /\ (pc'[b] \in FinishPC => c = b)
    BY DEF Finishing
  <2>2. pc'[c] \in NotifyPC => pc[c] \in FinishPC /\ pc[c] \in NotifyPC
    BY DEF FinishPC
  <2> QED
    BY <1>5, <2>1, <2>2, Constants DEF Finishing
<1>14. Carried'
  BY <1>5, <1>6, Constants, SMT DEF Carried
<1>15. Told'
  BY <1>3, <1>5 DEF Told
<1>16. Released'
  BY <1>2, <1>5, <1>6, Constants, DAGAssumption DEF Released
<1> QED
  BY <1>7, <1>8, <1>9, <1>10, <1>11, <1>12, <1>13, <1>14, <1>15, <1>16

\* An action that does not yet count is added to what its task counts.
LEMMA CountsOne ==
  ASSUME NEW t \in Task, NEW f \in Action, TaskOf[f] = t, ~Live(f),
         \A c \in Action : Live(c)' <=> Live(c) \/ c = f
  PROVE  Cardinality(Counted(t))' = Cardinality(Counted(t)) + 1
<1>1. Counted(t)' = Counted(t) \cup {f} /\ f \notin Counted(t)
  BY DEF Counted
<1>2. Counted(t) \in SUBSET Action
  BY DEF Counted
<1> QED
  BY <1>1, <1>2, OneMore

LEMMA ScheduleIncrementIInv ==
  ASSUME IInv, NEW x \in Actor, ScheduleIncrement(x), x = Main \/ x \in Action
  PROVE  IInv'
<1>1. Types /\ Life /\ Owner /\ Scheduling /\ Rooted /\ WaitCountExact
  BY DEF IInv
<1>0. PICK t \in Task : t = target[x]
  BY <1>1, HasTarget DEF ScheduleIncrement
<1>2. t \in Task /\ t \in Action /\ TaskOf[t] = t /\ target[x] = t
  BY <1>0, Constants
<1>3. ~Posted(t) /\ Open(t) = {} /\ (\A y \in Actor : target[y] = t => y = x) /\ pc[Main] # "add"
  BY <1>1, <1>2 DEF Scheduling
<1>4. /\ UNCHANGED <<added, waiting_for, continuations, ready, augmented, conts, left, target,
                     calls, pending, active>>
      /\ pc[x] = "schedule" /\ pc' = [pc EXCEPT ![x] = "schedule_post"]
      /\ wait_counts' = [wait_counts EXCEPT ![t] = @ + 1]
      /\ aborted' = ~(wait_counts[t] = 0)
  BY <1>2 DEF ScheduleIncrement, Goto, Count, Check, pool
<1>5. pc'[x] = "schedule_post" /\ \A y \in Actor \ {x} : pc'[y] = pc[y]
  BY <1>1, <1>4 DEF Types
<1>6. \A c \in Action : TaskOf[c] = t => ~Live(c)
  BY <1>2, <1>3, <1>4, LiveBegun, SMT
<1>7. ~aborted'
  <2>1. Counted(t) = {}
    BY <1>6 DEF Counted
  <2>2. Cardinality({}) = 0
    BY FS_EmptySet
  <2>3. Cardinality(Open(t)) = 0 /\ Cardinality(Counted(t)) = 0
    BY <1>3, <2>1, <2>2
  <2>4. wait_counts[t] = 0
    BY <1>1, <1>2, <2>3, SMT DEF WaitCountExact
  <2> QED
    BY <1>4, <2>4
<1>8. OtherLocals(x)
  BY <1>1, ActionIsLocal, MainIsLocal DEF MainStep, ActionStep
<1>9. \A c \in Action : Live(c)' <=> Live(c) \/ c = t
  <2>2. \A c \in Action : Gives(x, c)' <=> c = t
    BY <1>2, <1>4, <1>5 DEF Gives
  <2>3. \A c \in Action : ~Gives(x, c)
    BY <1>4 DEF Gives
  <2>4. \A c \in Action \ {t} : Part(x, c)' <=> Part(x, c)
    BY <1>4, <1>5, <2>2, <2>3 DEF Part, LivePC, BodyPC
  <2>5. \A c \in Action \ {t} : Live(c)' <=> Live(c)
    BY <1>1, <1>8, <2>4, LiveSame
  <2>6. Live(t)'
    BY <2>2, <1>2 DEF Live
  <2> QED
    BY <2>5, <2>6
<1>10. Cardinality(Counted(t))' = Cardinality(Counted(t)) + 1
  BY <1>2, <1>6, <1>9, CountsOne
<1>11. \A c \in Action : /\ HasRun(c) => HasRun(c)'
                         /\ pc'[c] \in NotifyPC <=> pc[c] \in NotifyPC
                         /\ pc'[c] \in FinishPC <=> pc[c] \in FinishPC
  BY <1>4, <1>5, Constants DEF HasRun, NotifyPC, FinishPC
<1>12. \A c \in Action : TaskOf[c] = t => pc[c] \notin FinishPC
  <2>1. \A c \in Action : pc[c] \in FinishPC => Posted(c)
    BY <1>1 DEF FinishPC, NotifyPC, Life, LifeOf, Posted
  <2> QED
    BY <1>1, <1>3, <2>1 DEF Rooted
<1>13. pc'[Main] = "add" <=> pc[Main] = "add"
  BY <1>4, <1>5, Constants
<1>14. /\ Registered' /\ ContinuationsKept' /\ OnePlace' /\ Scheduling' /\ Rooted'
       /\ WaitCountExact' /\ Finishing' /\ Carried' /\ Told' /\ Released'
  <2>1. \A c \in Action : /\ HasRun(c) => HasRun(c)'
                          /\ pc'[c] \in NotifyPC <=> pc[c] \in NotifyPC
                          /\ TaskOf[c] # t => /\ Live(c)' <=> Live(c)
                                              /\ pc'[c] \in FinishPC <=> pc[c] \in FinishPC
                          /\ TaskOf[c] = t /\ pc'[c] \in FinishPC =>
                               \A b \in Action : TaskOf[b] = t =>
                                  ~Live(b)' /\ (pc'[b] \in FinishPC => c = b)
    BY <1>2, <1>9, <1>11, <1>12
  <2>2. Posted(t) => \E c \in Action : TaskOf[c] = t /\ (Live(c)' \/ pc'[c] \in FinishPC)
    BY <1>3
  <2>3. 1 \in Int
    BY SMT
  <2> QED
    BY <1>4, <1>10, <1>13, <2>1, <2>2, <2>3, CountFrame
<1>15. Types'
  BY <1>1, ActionTypes, MainTypes DEF MainStep, ActionStep
<1>16. Life'
  BY <1>1, <1>4, <1>5, Constants, SMT DEF Life, LifeOf, HasRun, NextFunction
<1>17. Owner'
  <2>1. \A c \in Action : (Posted(c)' <=> Posted(c)) /\ (HasRun(c) => HasRun(c)')
    BY <1>4, <1>11 DEF Posted
  <2> QED
    BY <1>1, <1>4, <1>5, <2>1, Constants DEF Owner, MainPC
<1> QED
  BY <1>7, <1>14, <1>15, <1>16, <1>17 DEF IInv

LEMMA AugmentIncrementIInv ==
  ASSUME IInv, NEW a \in Action, AugmentIncrement(a)
  PROVE  IInv'
<1>0. ActionStep(a)
  BY DEF ActionStep
<1>1. Types /\ Life /\ LifeOf(a) /\ WaitCountExact /\ Finishing /\ a \in Actor
  BY Constants DEF IInv, Life
<1>2. PICK t \in Task : t = TaskOf[a]
  BY Constants
<1>3. PICK f : f = NextFunction(a)
  OBVIOUS
<1>4. /\ UNCHANGED <<added, waiting_for, continuations, ready, augmented, conts, left, target,
                     calls, pending, active>>
      /\ pc[a] = "run" /\ pc' = [pc EXCEPT ![a] = "augment"]
      /\ augmented[a] < Len(Augment[a]) /\ f \notin Continuation
      /\ wait_counts' = [wait_counts EXCEPT ![t] = @ + 1]
      /\ aborted' = ~(wait_counts[t] > 0)
  BY <1>2, <1>3 DEF AugmentIncrement, Goto, Count, Check, pool
<1>5. pc'[a] = "augment" /\ \A y \in Actor \ {a} : pc'[y] = pc[y]
  BY <1>1, <1>4 DEF Types
<1>6. /\ f \in Action \ Task /\ TaskOf[f] = t /\ ~Known(f)
      /\ \A y \in Actor : Gives(y, f) => y = a /\ pc[a] = "augment"
  BY <1>2, <1>3, <1>4, NextIsNew DEF BodyPC
<1>7. Live(a) /\ TaskOf[a] = t
  BY <1>2, <1>4 DEF Live, BodyPC
<1>8. ~aborted'
  <2>1. a \in Counted(t) /\ Counted(t) \in SUBSET Action /\ Open(t) \in SUBSET Action
    BY <1>7, Constants DEF Counted, Open
  <2>2. Cardinality(Counted(t)) > 0 /\ Cardinality(Counted(t)) \in Nat /\ Cardinality(Open(t)) \in Nat
    BY <2>1, OneLess, Finite
  <2>3. wait_counts[t] = Cardinality(Open(t)) + Cardinality(Counted(t))
    BY <1>1 DEF WaitCountExact
  <2>4. wait_counts[t] > 0
    BY <2>2, <2>3, SMT
  <2> QED
    BY <1>4, <2>4
<1>9. OtherLocals(a)
  BY <1>0, <1>1, ActionIsLocal
<1>10. ~Live(f)
  <2>1. ~Posted(f)
    BY <1>6 DEF Known
  <2>2. f \notin pending /\ pc[f] \notin LivePC
    BY <1>1, <1>6, <2>1 DEF Posted, Life, LifeOf, LivePC, BodyPC
  <2>3. \A y \in Actor : ~Gives(y, f)
    BY <1>4, <1>6
  <2> QED
    BY <2>2, <2>3 DEF Live, LivePC
<1>11. \A c \in Action : Live(c)' <=> Live(c) \/ c = f
  <2>1. NextFunction(a)' = f
    BY <1>3, <1>4 DEF NextFunction
  <2>2. \A c \in Action : Gives(a, c)' <=> c = f
    BY <1>5, <2>1 DEF Gives
  <2>3. \A c \in Action : ~Gives(a, c)
    BY <1>4 DEF Gives
  <2>4. \A c \in Action \ {f} : Part(a, c)' <=> Part(a, c)
    BY <1>4, <1>5, <2>2, <2>3 DEF Part, LivePC, BodyPC
  <2>5. \A c \in Action \ {f} : Live(c)' <=> Live(c)
    BY <1>1, <1>9, <2>4, LiveSame
  <2>6. Live(f)'
    BY <1>1, <1>6, <2>2 DEF Live
  <2> QED
    BY <2>5, <2>6
<1>12. Cardinality(Counted(t))' = Cardinality(Counted(t)) + 1
  BY <1>6, <1>10, <1>11, CountsOne
<1>13. \A c \in Action : /\ HasRun(c) => HasRun(c)'
                         /\ pc'[c] \in NotifyPC <=> pc[c] \in NotifyPC
                         /\ pc'[c] \in FinishPC <=> pc[c] \in FinishPC
  BY <1>4, <1>5, Constants DEF HasRun, NotifyPC, FinishPC
<1>14. \A c \in Action : TaskOf[c] = t => pc[c] \notin FinishPC
  BY <1>1, <1>7 DEF Finishing
<1>15. /\ Registered' /\ ContinuationsKept' /\ OnePlace' /\ Scheduling' /\ Rooted'
       /\ WaitCountExact' /\ Finishing' /\ Carried' /\ Told' /\ Released'
  <2>1. \A c \in Action : /\ HasRun(c) => HasRun(c)'
                          /\ pc'[c] \in NotifyPC <=> pc[c] \in NotifyPC
                          /\ TaskOf[c] # t => /\ Live(c)' <=> Live(c)
                                              /\ pc'[c] \in FinishPC <=> pc[c] \in FinishPC
                          /\ TaskOf[c] = t /\ pc'[c] \in FinishPC =>
                               \A b \in Action : TaskOf[b] = t =>
                                  ~Live(b)' /\ (pc'[b] \in FinishPC => c = b)
    BY <1>6, <1>11, <1>13, <1>14
  <2>2. Posted(t) => \E c \in Action : TaskOf[c] = t /\ (Live(c)' \/ pc'[c] \in FinishPC)
    BY <1>7, <1>11
  <2>3. 1 \in Int
    BY SMT
  <2>4. pc'[Main] = "add" <=> pc[Main] = "add"
    BY <1>5, Constants
  <2> QED
    BY <1>4, <1>12, <2>1, <2>2, <2>3, <2>4, CountFrame
<1>16. LifeOf(a)'
  <2>1. NextFunction(a)' \notin Continuation
    BY <1>3, <1>4 DEF NextFunction
  <2> QED
    BY <1>1, <1>4, <1>5, <2>1 DEF LifeOf, HasRun
<1>17. \A c \in Action : c # a => /\ c \in active' <=> c \in active
                                  /\ c \in pending' => c \in pending \/ calls[c] = 0
  BY <1>4
<1> QED
  BY <1>0, <1>8, <1>15, <1>16, <1>17, ActionKeeps

LEMMA DecrementIInv ==
  ASSUME IInv, NEW a \in Action, Decrement(a)
  PROVE  IInv'
<1>0. ActionStep(a)
  BY DEF ActionStep
<1>1. Types /\ Life /\ LifeOf(a) /\ WaitCountExact /\ Finishing /\ Rooted /\ Scheduling /\ a \in Actor
  BY Constants DEF IInv, Life
<1>2. PICK t \in Task : t = TaskOf[a]
  BY Constants
<1>4. /\ UNCHANGED <<added, waiting_for, continuations, ready, augmented, conts, left, target,
                     calls, pending, active, aborted>>
      /\ pc[a] = "decrement"
      /\ pc' = [pc EXCEPT ![a] = IF wait_counts[t] = 1 THEN "erase" ELSE "end"]
      /\ wait_counts' = [wait_counts EXCEPT ![t] = @ + (-1)]
  BY <1>2 DEF Decrement, Goto, Count, pool
<1>5. /\ pc'[a] = (IF wait_counts[t] = 1 THEN "erase" ELSE "end")
      /\ \A y \in Actor \ {a} : pc'[y] = pc[y]
  BY <1>1, <1>4 DEF Types
<1>6. pc'[a] \in {"erase", "end"} /\ (pc'[a] = "erase" <=> wait_counts[t] = 1)
  BY <1>5
<1>7. Live(a) /\ TaskOf[a] = t /\ Posted(a) /\ Posted(t)
  <2>1. Live(a) /\ TaskOf[a] = t /\ Posted(a)
    BY <1>1, <1>2, <1>4 DEF Live, LifeOf, Posted
  <2> QED
    BY <1>1, <2>1 DEF Rooted
<1>8. Open(t) = {}
  BY <1>1, <1>7 DEF Scheduling
<1>9. OtherLocals(a)
  BY <1>0, <1>1, ActionIsLocal
<1>10. \A c \in Action : Live(c)' <=> Live(c) /\ c # a
  <2>1. \A c \in Action : ~Gives(a, c) /\ ~Gives(a, c)'
    BY <1>4, <1>6 DEF Gives
  <2>2. \A c \in Action \ {a} : Part(a, c)' <=> Part(a, c)
    BY <1>4, <2>1 DEF Part
  <2>3. \A c \in Action \ {a} : Live(c)' <=> Live(c)
    BY <1>1, <1>9, <2>2, LiveSame
  <2>4. \A y \in Actor : ~Gives(y, a)
    BY <1>7, GivenFacts
  <2>5. \A y \in Actor : ~Gives(y, a)'
    BY <1>1, <1>9, <2>1, <2>4, OthersGive
  <2>6. a \notin pending' /\ pc'[a] \notin BodyPC \cup {"decrement"}
    BY <1>1, <1>4, <1>6, SMT DEF LifeOf, BodyPC
  <2> QED
    BY <2>3, <2>5, <2>6 DEF Live
<1>11. Counted(t)' = Counted(t) \ {a} /\ a \in Counted(t) /\ Counted(t) \in SUBSET Action
  BY <1>7, <1>10 DEF Counted
<1>12. Cardinality(Counted(t))' = Cardinality(Counted(t)) + (-1)
  <2>1. Cardinality(Counted(t) \ {a}) = Cardinality(Counted(t)) - 1 /\ Cardinality(Counted(t)) \in Nat
    BY <1>11, OneLess, Finite
  <2> QED
    BY <1>11, <2>1
<1>13. wait_counts[t] = Cardinality(Counted(t))
  <2>1. Cardinality(Open(t)) = 0 /\ Cardinality(Counted(t)) \in Nat
    BY <1>8, <1>11, Finite, FS_EmptySet
  <2> QED
    BY <1>1, <2>1, SMT DEF WaitCountExact
<1>14. wait_counts[t] = 1 <=> \A c \in Action : TaskOf[c] = t => ~Live(c)'
  <2>1. Cardinality(Counted(t) \ {a}) = Cardinality(Counted(t)) - 1 /\ Cardinality(Counted(t)) \in Nat
    BY <1>11, OneLess, Finite
  <2>2. Cardinality(Counted(t) \ {a}) = 0 <=> Counted(t) \ {a} = {}
    BY <1>11, Nobody
  <2>3. wait_counts[t] = 1 <=> Counted(t) \ {a} = {}
    BY <1>13, <2>1, <2>2, SMT
  <2>4. wait_counts[t] = 1 <=> Counted(t)' = {}
    BY <1>11, <2>3
  <2> QED
    BY <2>4 DEF Counted
<1>15. \A c \in Action : TaskOf[c] = t => pc[c] \notin FinishPC
  BY <1>1, <1>7 DEF Finishing
<1>16. \A c \in Action : /\ HasRun(c) => HasRun(c)'
                         /\ pc'[c] \in NotifyPC <=> pc[c] \in NotifyPC
                         /\ c # a => pc'[c] = pc[c]
  BY <1>4, <1>5, <1>6, Constants DEF HasRun, NotifyPC
<1>17. /\ Registered' /\ ContinuationsKept' /\ OnePlace' /\ Scheduling' /\ Rooted'
       /\ WaitCountExact' /\ Finishing' /\ Carried' /\ Told' /\ Released'
  <2>0. pc'[a] \in FinishPC <=> wait_counts[t] = 1
    BY <1>6 DEF FinishPC, NotifyPC
  <2>1. \A c \in Action : /\ HasRun(c) => HasRun(c)'
                          /\ pc'[c] \in NotifyPC <=> pc[c] \in NotifyPC
                          /\ TaskOf[c] # t => /\ Live(c)' <=> Live(c)
                                              /\ pc'[c] \in FinishPC <=> pc[c] \in FinishPC
                          /\ TaskOf[c] = t /\ pc'[c] \in FinishPC =>
                               \A b \in Action : TaskOf[b] = t =>
                                  ~Live(b)' /\ (pc'[b] \in FinishPC => c = b)
    BY <1>7, <1>10, <1>14, <1>15, <1>16, <2>0
  <2>2. Posted(t) => \E c \in Action : TaskOf[c] = t /\ (Live(c)' \/ pc'[c] \in FinishPC)
    BY <1>7, <1>14, <2>0
  <2>3. (-1) \in Int
    BY SMT
  <2>4. pc'[Main] = "add" <=> pc[Main] = "add"
    BY <1>5, Constants
  <2> QED
    BY <1>4, <1>12, <2>1, <2>2, <2>3, <2>4, CountFrame
<1>18. LifeOf(a)'
  BY <1>1, <1>4, <1>6 DEF LifeOf, HasRun
<1>19. \A c \in Action : c # a => /\ c \in active' <=> c \in active
                                  /\ c \in pending' => c \in pending \/ calls[c] = 0
  BY <1>4
<1>20. ~aborted'
  BY <1>4 DEF IInv
<1> QED
  BY <1>0, <1>17, <1>18, <1>19, <1>20, ActionKeeps

\* The list of continuations names as many as it is long.
LEMMA TakenCount ==
  ASSUME ContinuationsKept, Types, NEW a \in Action
  PROVE  /\ Cardinality({f \in Action : Taken(a, f)}) = Len(conts[a])
         /\ Len(conts[a]) \in Nat
<1>1. conts[a] \in Seq(Action) /\ Len(conts[a]) \in Nat
  BY SeqFacts DEF Types
<1>2. \A i \in 1 .. Len(conts[a]) : conts[a][i] \in Action
  BY <1>1, SeqFacts
<1> DEFINE n == Len(conts[a])
           S == 1 .. n
           T == {f \in Action : Taken(a, f)}
           g == [i \in S |-> conts[a][i]]
<1>3. g \in Bijection(S, T)
  <2>1. g \in [S -> T]
    BY <1>2 DEF Taken
  <2>2. \A i, j \in S : g[i] = g[j] => i = j
    BY DEF ContinuationsKept
  <2>3. \A f \in T : \E i \in S : g[i] = f
    BY DEF Taken
  <2> QED
    BY <2>1, <2>2, <2>3 DEF Bijection, Injection, Surjection, ExistsBijection, IsInjective
<1>4. ExistsBijection(S, T)
  BY <1>3 DEF ExistsBijection
<1>5. IsFiniteSet(S) /\ Cardinality(S) = n
  <2> HIDE DEF n
  <2>1. n \in Nat
    BY <1>1 DEF n
  <2> QED
    BY <2>1, FS_Interval, SMT
<1>6. Cardinality(T) = Cardinality(S)
  <2> HIDE DEF S, T
  <2> QED
    BY <1>4, <1>5, FS_Bijection
<1> QED
  BY <1>1, <1>5, <1>6

LEMMA ContinuationsIncrementIInv ==
  ASSUME IInv, NEW a \in Action, ContinuationsIncrement(a)
  PROVE  IInv'
<1>0. ActionStep(a)
  BY DEF ActionStep
<1>1. /\ Types /\ Life /\ LifeOf(a) /\ WaitCountExact /\ Finishing /\ Rooted /\ Scheduling
      /\ ContinuationsKept /\ OnePlace /\ a \in Actor
  BY Constants DEF IInv, Life
<1>2. PICK t \in Task : t = TaskOf[a]
  BY Constants
<1>3. PICK n \in Nat : n = Len(conts[a]) /\ n = Cardinality({f \in Action : Taken(a, f)})
  BY <1>1, TakenCount
<1>4. /\ UNCHANGED <<added, waiting_for, continuations, ready, augmented, conts, left, target,
                     calls, pending, active>>
      /\ pc[a] = "increment" /\ pc' = [pc EXCEPT ![a] = "post"]
      /\ wait_counts' = [wait_counts EXCEPT ![t] = @ + n]
      /\ aborted' = ~(wait_counts[t] = 0)
  BY <1>2, <1>3 DEF ContinuationsIncrement, Goto, Count, Check, pool
<1>5. pc'[a] = "post" /\ \A y \in Actor \ {a} : pc'[y] = pc[y]
  BY <1>1, <1>4 DEF Types
<1>6. TaskOf[a] = t /\ Posted(t) /\ Open(t) = {}
  <2>1. Posted(a)
    BY <1>1, <1>4 DEF LifeOf, Posted
  <2> QED
    BY <1>1, <1>2, <2>1 DEF Rooted, Scheduling
<1>7. \A b \in Action : TaskOf[b] = t => ~Live(b) /\ (pc[b] \in FinishPC => b = a)
  BY <1>1, <1>2, <1>4 DEF Finishing, FinishPC
<1>8. Counted(t) = {} /\ Cardinality(Counted(t)) = 0 /\ wait_counts[t] = 0
  <2>1. Counted(t) = {}
    BY <1>7 DEF Counted
  <2>2. Cardinality({}) = 0
    BY FS_EmptySet
  <2>3. Cardinality(Open(t)) = 0 /\ Cardinality(Counted(t)) = 0
    BY <1>6, <2>1, <2>2
  <2> QED
    BY <1>1, <2>1, <2>3, SMT DEF WaitCountExact
<1>9. OtherLocals(a)
  BY <1>0, <1>1, ActionIsLocal
<1>10. \A f \in Action : Taken(a, f) => TaskOf[f] = t
  BY <1>1, <1>2, SMT DEF ContinuationsKept, Taken
<1>11. \A c \in Action : Live(c)' <=> Live(c) \/ Taken(a, c)
  <2>1. \A c \in Action : Gives(a, c)' <=> Taken(a, c)
    BY <1>4, <1>5 DEF Gives, Taken
  <2>2. \A c \in Action : ~Gives(a, c)
    BY <1>4 DEF Gives
  <2>3. \A c \in Action : ~Taken(a, c) => (Part(a, c)' <=> Part(a, c))
    BY <1>4, <1>5, <2>1, <2>2 DEF Part, LivePC, BodyPC
  <2>4. \A c \in Action : ~Taken(a, c) => (Live(c)' <=> Live(c))
    BY <1>1, <1>9, <2>3, LiveSame
  <2>5. \A c \in Action : Taken(a, c) => Live(c)'
    BY <1>1, <2>1 DEF Live
  <2> QED
    BY <2>4, <2>5
<1>12. Cardinality(Counted(t))' = Cardinality(Counted(t)) + n
  <2>1. Counted(t)' = {f \in Action : Taken(a, f)}
    BY <1>7, <1>10, <1>11 DEF Counted
  <2> QED
    BY <1>3, <1>8, <2>1, SMT
<1>13. \A c \in Action : /\ HasRun(c) => HasRun(c)'
                         /\ pc'[c] \in NotifyPC <=> pc[c] \in NotifyPC
                         /\ c # a => pc'[c] = pc[c]
  BY <1>4, <1>5, Constants DEF HasRun, NotifyPC
<1>14. \E f \in Action : Taken(a, f)
  <2>1. conts[a] # <<>> /\ conts[a] \in Seq(Action)
    BY <1>1, <1>4 DEF LifeOf, Types
  <2>2. 1 \in 1 .. Len(conts[a]) /\ conts[a][1] \in Action
    BY <2>1, SeqFacts, SMT
  <2> QED
    BY <2>2 DEF Taken
<1>15. /\ Registered' /\ ContinuationsKept' /\ OnePlace' /\ Scheduling' /\ Rooted'
       /\ WaitCountExact' /\ Finishing' /\ Carried' /\ Told' /\ Released'
  <2>0. pc'[a] \notin FinishPC
    BY <1>5 DEF FinishPC, NotifyPC
  <2>1. \A c \in Action : /\ HasRun(c) => HasRun(c)'
                          /\ pc'[c] \in NotifyPC <=> pc[c] \in NotifyPC
                          /\ TaskOf[c] # t => /\ Live(c)' <=> Live(c)
                                              /\ pc'[c] \in FinishPC <=> pc[c] \in FinishPC
                          /\ TaskOf[c] = t /\ pc'[c] \in FinishPC =>
                               \A b \in Action : TaskOf[b] = t =>
                                  ~Live(b)' /\ (pc'[b] \in FinishPC => c = b)
    BY <1>6, <1>7, <1>10, <1>11, <1>13, <2>0
  <2>2. Posted(t) => \E c \in Action : TaskOf[c] = t /\ (Live(c)' \/ pc'[c] \in FinishPC)
    BY <1>10, <1>11, <1>14
  <2>3. n \in Int
    BY SMT
  <2>4. pc'[Main] = "add" <=> pc[Main] = "add"
    BY <1>5, Constants
  <2> QED
    BY <1>4, <1>12, <2>1, <2>2, <2>3, <2>4, CountFrame
<1>16. LifeOf(a)'
  BY <1>1, <1>4, <1>5 DEF LifeOf, HasRun
<1>17. \A c \in Action : c # a => /\ c \in active' <=> c \in active
                                  /\ c \in pending' => c \in pending \/ calls[c] = 0
  BY <1>4
<1>18. ~aborted'
  BY <1>4, <1>8
<1> QED
  BY <1>0, <1>15, <1>16, <1>17, <1>18, ActionKeeps
-----------------------------------------------------------------------------
(***************************************************************************)
(* The steps that post what was counted before.                            *)
(***************************************************************************)
LEMMA PostFrame ==
  ASSUME IInv, NEW f \in Action, Posted(TaskOf[f])', f \in Task => Live(f),
         UNCHANGED <<added, waiting_for, wait_counts, continuations, left, calls>>,
         pending' = pending \cup {f},
         \A c \in Action : /\ Live(c)' <=> Live(c)
                           /\ HasRun(c) => HasRun(c)'
                           /\ pc'[c] \in NotifyPC <=> pc[c] \in NotifyPC
                           /\ pc'[c] \in FinishPC <=> pc[c] \in FinishPC
  PROVE  /\ Rooted' /\ WaitCountExact' /\ Finishing' /\ Carried' /\ Told'
         /\ \A t \in Task : Open(t)' = Open(t) /\ (PlainRun(t) => PlainRun(t)')
         /\ \A c \in Action : Posted(c)' <=> Posted(c) \/ c = f
<1> USE DEF IInv
<1>1. \A u, v \in Task : Awaits(u, v)' <=> Awaits(u, v)
  BY AwaitsSame
<1>2. \A u \in Task : Open(u)' = Open(u) /\ Counted(u)' = Counted(u)
  BY <1>1, OpenSame, CountedSame
<1>3. \A u \in Task : (AllRun(u) => AllRun(u)') /\ (PlainRun(u) => PlainRun(u)')
  BY RunKept
<1>4. \A c \in Action : Posted(c)' <=> Posted(c) \/ c = f
  BY DEF Posted
<1>5. Rooted'
  BY <1>4, Constants DEF Rooted
<1>6. WaitCountExact'
  BY <1>2 DEF WaitCountExact
<1>7. Finishing'
  BY <1>3, Constants, SMT DEF Finishing
<1>8. Carried'
  <2>1. \A t \in Task : Posted(t)' => Posted(t) \/ (t = f /\ TaskOf[f] = t /\ Live(f)')
    BY <1>4, Constants, SMT
  <2> QED
    BY <1>3, <2>1, Constants, SMT DEF Carried
<1>9. Told'
  BY <1>1, <1>3 DEF Told
<1> QED
  BY <1>2, <1>3, <1>4, <1>5, <1>6, <1>7, <1>8, <1>9

LEMMA SchedulePostIInv ==
  ASSUME IInv, NEW x \in Actor, SchedulePost(x), x = Main \/ x \in Action
  PROVE  IInv'
<1>1. Types /\ Life /\ Owner /\ Scheduling /\ Registered /\ ContinuationsKept /\ OnePlace /\ Released
  BY DEF IInv
<1>2. PICK t \in Task : t = target[x]
  BY <1>1, HasTarget DEF SchedulePost
<1>3. t \in Action /\ TaskOf[t] = t /\ target[x] = t /\ t \notin Continuation
  BY <1>2, Constants, DAGAssumption
<1>4. /\ UNCHANGED <<added, waiting_for, wait_counts, continuations, ready, augmented, conts, left,
                     calls, active, aborted>>
      /\ pending' = pending \cup {t}
      /\ pc[x] = "schedule_post" /\ target' = [target EXCEPT ![x] = NoTask]
      /\ pc' = [pc EXCEPT ![x] = IF x = Main THEN "ready" ELSE "notify"]
  BY <1>3 DEF SchedulePost, Goto, Pool!Post
<1>5. /\ pc'[x] = (IF x = Main THEN "ready" ELSE "notify") /\ target'[x] = NoTask
      /\ \A y \in Actor \ {x} : pc'[y] = pc[y] /\ target'[y] = target[y]
  BY <1>1, <1>4 DEF Types
<1>6. /\ ~Posted(t) /\ Open(t) = {} /\ t \notin ready
      /\ (\A y \in Actor : target[y] = t => y = x) /\ pc[Main] # "add"
  BY <1>1, <1>3 DEF Scheduling
<1>7. OtherLocals(x)
  BY <1>1, ActionIsLocal, MainIsLocal DEF MainStep, ActionStep
<1>8. \A c \in Action : Live(c)' <=> Live(c)
  <2>1. \A c \in Action : ~Gives(x, c)' /\ (Gives(x, c) <=> c = t)
    BY <1>3, <1>4, <1>5, SMT DEF Gives
  <2>2. \A c \in Action : Part(x, c)' <=> Part(x, c)
    BY <1>4, <1>5, <2>1, Constants, SMT DEF Part, LivePC, BodyPC
  <2> QED
    BY <1>1, <1>7, <2>2, LiveSame
<1>9. \A c \in Action : /\ HasRun(c) => HasRun(c)'
                        /\ pc'[c] \in NotifyPC <=> pc[c] \in NotifyPC
                        /\ pc'[c] \in FinishPC <=> pc[c] \in FinishPC
  BY <1>4, <1>5, Constants, SMT DEF HasRun, NotifyPC, FinishPC
<1>10. Live(t)
  BY <1>3, <1>4 DEF Live, Gives
<1>11. /\ Rooted' /\ WaitCountExact' /\ Finishing' /\ Carried' /\ Told'
       /\ \A u \in Task : Open(u)' = Open(u) /\ (PlainRun(u) => PlainRun(u)')
       /\ \A c \in Action : Posted(c)' <=> Posted(c) \/ c = t
  <2>1. Posted(TaskOf[t])'
    BY <1>3, <1>4 DEF Posted
  <2> QED
    BY <1>3, <1>4, <1>8, <1>9, <1>10, <2>1, PostFrame
<1>12. /\ \A f \in Action : Held(f)' <=> Held(f)
       /\ \A b, f \in Action : Taken(b, f)' <=> Taken(b, f)
       /\ ContinuationsKept'
  BY <1>1, <1>4, HeldSame
<1>13. Registered'
  <2>1. \A f \in Action \ Task : Known(f)' <=> Known(f)
    BY <1>11, <1>12 DEF Known
  <2> QED
    BY <1>1, <1>4, <2>1, Constants DEF Registered
<1>14. OnePlace'
  <2>1. \A f \in Action : Held(f) \/ (\E b \in Action : Taken(b, f)) => f # t
    BY <1>1, <1>3, Constants, SMT DEF ContinuationsKept, Held, Taken
  <2> QED
    BY <1>1, <1>11, <1>12, <2>1 DEF OnePlace
<1>15. Released'
  BY <1>1, <1>3, <1>11, <1>12, Constants, DAGAssumption, SMT DEF Released
<1>16. Scheduling'
  <2>1. pc'[Main] # "add"
    BY <1>5, <1>6, Constants
  <2>2. \A y \in Actor, u \in Task : target'[y] = u <=> target[y] = u /\ y # x
    BY <1>5, Constants
  <2>3. ASSUME NEW u \in Task, u # t
        PROVE  /\ \A y \in Actor : target'[y] = u <=> target[y] = u
               /\ Posted(u)' <=> Posted(u)
    BY <1>3, <1>11, <2>2, <2>3, Constants, SMT
  <2>4. \A y \in Actor : target'[y] # t
    BY <1>6, <2>2
  <2>5. Posted(t)'
    BY <1>3, <1>11
  <2>6. ASSUME NEW u \in Task
        PROVE  /\ \A y \in Actor : target'[y] = u =>
                    ~Posted(u)' /\ u \notin ready' /\ \A z \in Actor : target'[z] = u => y = z
               /\ u \in ready' => ~Posted(u)'
               /\ (Posted(u)' \/ u \in ready' \/ \E y \in Actor : target'[y] = u)
                    <=> pc'[Main] # "add" /\ Open(u)' = {}
    <3>1. CASE u = t
      BY <1>4, <1>6, <1>11, <2>1, <2>4, <2>5, <3>1
    <3>2. CASE u # t
      BY <1>1, <1>4, <1>6, <1>11, <2>1, <2>3, <3>2, SMT DEF Scheduling
    <3> QED
      BY <3>1, <3>2
  <2> QED
    BY <2>6 DEF Scheduling
<1>17. Types'
  BY <1>1, ActionTypes, MainTypes DEF MainStep, ActionStep
<1>18. Life'
  <2>1. calls[t] = 0
    BY <1>1, <1>3, <1>6 DEF Posted, Life, LifeOf
  <2>2. \A c \in Action : c # x => LifeOf(c)'
    BY <1>1, <1>4, <1>7, <2>1, LifeOthers
  <2>3. x \in Action => LifeOf(x)'
    <3> SUFFICES ASSUME x \in Action PROVE LifeOf(x)'
      OBVIOUS
    <3>1. LifeOf(x) /\ pc'[x] = "notify" /\ x # t
      BY <1>1, <1>4, <1>5, <2>1, Constants, SMT DEF Life, LifeOf
    <3> QED
      BY <1>4, <1>5, <3>1 DEF LifeOf, HasRun
  <2> QED
    BY <2>2, <2>3 DEF Life
<1>19. Owner'
  <2>1. CASE x = Main
    BY <1>1, <1>4, <1>5, <2>1, SMT DEF Owner, MainPC
  <2>2. CASE x \in Action
    BY <2>2, OwnerKept DEF ActionStep
  <2> QED
    BY <2>1, <2>2
<1> QED
  BY <1>4, <1>11, <1>12, <1>13, <1>14, <1>15, <1>16, <1>17, <1>18, <1>19 DEF IInv

LEMMA AugmentPostIInv ==
  ASSUME IInv, NEW a \in Action, AugmentPost(a)
  PROVE  IInv'
<1>0. ActionStep(a)
  BY DEF ActionStep
<1>1. /\ Types /\ Life /\ LifeOf(a) /\ Scheduling /\ Registered /\ ContinuationsKept /\ OnePlace
      /\ Rooted /\ Released /\ a \in Actor
  BY Constants DEF IInv, Life
<1>2. PICK f : f = NextFunction(a)
  OBVIOUS
<1>3. /\ UNCHANGED <<added, waiting_for, wait_counts, continuations, ready, conts, left, target,
                     calls, active, aborted>>
      /\ pending' = pending \cup {f}
      /\ pc[a] = "augment" /\ pc' = [pc EXCEPT ![a] = "run"]
      /\ augmented' = [augmented EXCEPT ![a] = @ + 1]
  BY <1>0, <1>2, OwnerKept DEF AugmentPost, Goto, Pool!Post
<1>4. augmented[a] < Len(Augment[a]) /\ f \notin Continuation
  BY <1>1, <1>2, <1>3 DEF LifeOf
<1>5. f \in Action \ Task /\ TaskOf[f] = TaskOf[a] /\ ~Known(f) /\ ~Posted(f) /\ f # a
  <2>1. f \in Action \ Task /\ TaskOf[f] = TaskOf[a] /\ ~Known(f)
    BY <1>2, <1>3, <1>4, NextIsNew DEF BodyPC
  <2>2. Posted(a)
    BY <1>0, OwnerKept
  <2> QED
    BY <2>1, <2>2 DEF Known
<1>6. pc'[a] = "run" /\ \A y \in Actor \ {a} : pc'[y] = pc[y]
  BY <1>1, <1>3 DEF Types
<1>7. /\ augmented'[a] = augmented[a] + 1 /\ augmented[a] \in Nat /\ Len(Augment[a]) \in Nat
      /\ \A b \in Action \ {a} : augmented'[b] = augmented[b]
  BY <1>1, <1>3, Constants, SMT DEF Types
<1>8. OtherLocals(a)
  BY <1>0, <1>1, ActionIsLocal
<1>9. \A c \in Action : Live(c)' <=> Live(c)
  <2>1. \A c \in Action : ~Gives(a, c)' /\ (Gives(a, c) <=> c = f)
    BY <1>2, <1>3, <1>6 DEF Gives
  <2>2. \A c \in Action : Part(a, c)' <=> Part(a, c)
    BY <1>3, <1>6, <2>1 DEF Part, LivePC, BodyPC
  <2> QED
    BY <1>1, <1>8, <2>2, LiveSame
<1>10. \A c \in Action : /\ HasRun(c) => HasRun(c)'
                         /\ pc'[c] \in NotifyPC <=> pc[c] \in NotifyPC
                         /\ pc'[c] \in FinishPC <=> pc[c] \in FinishPC
  BY <1>3, <1>6, Constants DEF HasRun, NotifyPC, FinishPC
<1>11. /\ Rooted' /\ WaitCountExact' /\ Finishing' /\ Carried' /\ Told'
       /\ \A u \in Task : Open(u)' = Open(u) /\ (PlainRun(u) => PlainRun(u)')
       /\ \A c \in Action : Posted(c)' <=> Posted(c) \/ c = f
  <2>1. Posted(TaskOf[a])
    BY <1>0, <1>1, OwnerKept DEF Rooted
  <2>2. Posted(TaskOf[f])'
    BY <1>3, <1>5, <2>1 DEF Posted
  <2> QED
    BY <1>3, <1>5, <1>9, <1>10, <2>2, PostFrame
<1>12. /\ \A g \in Action : Held(g)' <=> Held(g)
       /\ \A b, g \in Action : Taken(b, g)' <=> Taken(b, g)
       /\ ContinuationsKept'
  BY <1>1, <1>3, HeldSame
<1>13. Registered'
  <2>1. \A g \in Action : Known(g)' <=> Known(g) \/ g = f
    BY <1>4, <1>11, <1>12 DEF Known
  <2>2. \A b \in Action : \A k \in 1 .. Len(Augment[b]) :
          Augment[b][k] = f <=> b = a /\ k = augmented[a] + 1
    <3>1. augmented[a] + 1 \in 1 .. Len(Augment[a]) /\ Augment[a][augmented[a] + 1] = f
      BY <1>1, <1>2, <1>4, NextIsFunction
    <3> QED
      BY <3>1, Registrar, SMT
  <2>3. ASSUME NEW b \in Action, NEW k \in 1 .. Len(Augment[b])
        PROVE  k <= augmented'[b] <=> Known(Augment[b][k])'
    <3>1. k <= augmented[b] <=> Known(Augment[b][k])
      BY <1>1 DEF Registered
    <3>2. Known(Augment[b][k])' <=> Known(Augment[b][k]) \/ (b = a /\ k = augmented[a] + 1)
      BY <2>1, <2>2, Constants, SMT
    <3>3. k <= augmented'[b] <=> k <= augmented[b] \/ (b = a /\ k = augmented[a] + 1)
      BY <1>7, Constants, SMT
    <3> QED
      BY <3>1, <3>2, <3>3
  <2> QED
    BY <2>3 DEF Registered
<1>14. OnePlace'
  <2>1. \A g \in Action : Held(g) \/ (\E b \in Action : Taken(b, g)) => g # f
    BY <1>1, <1>4, Constants, SMT DEF ContinuationsKept, Held, Taken
  <2> QED
    BY <1>1, <1>11, <1>12, <2>1 DEF OnePlace
<1>15. Released'
  BY <1>1, <1>4, <1>11, <1>12, Constants, DAGAssumption, SMT DEF Released
<1>16. Scheduling'
  <2>1. pc'[Main] = pc[Main]
    BY <1>6, Constants
  <2>2. \A u \in Task : Posted(u)' <=> Posted(u)
    BY <1>5, <1>11, Constants, SMT
  <2> QED
    BY <1>1, <1>3, <1>11, <2>1, <2>2, SMT DEF Scheduling
<1>17. LifeOf(a)'
  <2>1. a \notin pending'
    BY <1>1, <1>3, <1>5, SMT DEF LifeOf
  <2> QED
    BY <1>1, <1>3, <1>4, <1>6, <1>7, <2>1, SMT DEF LifeOf, HasRun
<1>18. \A c \in Action : c # a => /\ c \in active' <=> c \in active
                                  /\ c \in pending' => c \in pending \/ calls[c] = 0
  <2>1. calls[f] = 0
    BY <1>1, <1>5 DEF Posted, Life, LifeOf
  <2> QED
    BY <1>3, <2>1
<1>19. ~aborted'
  BY <1>3 DEF IInv
<1> QED
  BY <1>0, <1>11, <1>12, <1>13, <1>14, <1>15, <1>16, <1>17, <1>18, <1>19, ActionKeeps

LEMMA ContinuationPostIInv ==
  ASSUME IInv, NEW a \in Action, ContinuationPost(a)
  PROVE  IInv'
<1>0. ActionStep(a)
  BY DEF ActionStep
<1>1. /\ Types /\ Life /\ LifeOf(a) /\ Scheduling /\ Registered /\ ContinuationsKept /\ OnePlace
      /\ Rooted /\ Released /\ a \in Actor
  BY Constants DEF IInv, Life
<1>2. PICK f : f = Head(conts[a])
  OBVIOUS
<1>3. /\ UNCHANGED <<added, waiting_for, wait_counts, continuations, ready, augmented, left, target,
                     calls, active, aborted>>
      /\ pending' = pending \cup {f}
      /\ pc[a] = "post" /\ pc' = [pc EXCEPT ![a] = IF Len(conts[a]) = 1 THEN "end" ELSE "post"]
      /\ conts' = [conts EXCEPT ![a] = Tail(@)]
  BY <1>2 DEF ContinuationPost, Goto, Pool!Post
<1>4. /\ conts[a] \in Seq(Action) /\ conts[a] # <<>> /\ Len(conts[a]) \in Nat
      /\ f \in Action /\ f = conts[a][1] /\ 1 \in 1 .. Len(conts[a])
      /\ Len(Tail(conts[a])) = Len(conts[a]) - 1
      /\ Tail(conts[a]) \in Seq(Action)
      /\ \A i \in 1 .. Len(Tail(conts[a])) : Tail(conts[a])[i] = conts[a][i + 1]
  <2>1. conts[a] \in Seq(Action) /\ conts[a] # <<>>
    BY <1>1, <1>3 DEF LifeOf, Types
  <2>2. Len(conts[a]) \in Nat /\ Len(conts[a]) # 0
    BY <2>1, SeqFacts
  <2> QED
    BY <1>2, <2>1, <2>2, SeqHeadTail, SMT
<1>5. Taken(a, f) /\ ~Posted(f) /\ f \in Continuation /\ TaskOf[f] = TaskOf[a] /\ f \notin Task /\ f # a
  <2>1. Taken(a, f)
    BY <1>4 DEF Taken
  <2>2. f \in Continuation /\ TaskOf[f] = TaskOf[a]
    BY <1>1, <1>4 DEF ContinuationsKept
  <2>3. ~Posted(f)
    BY <1>1, <1>4, <2>1 DEF OnePlace
  <2>4. Posted(a)
    BY <1>0, OwnerKept
  <2> QED
    BY <2>1, <2>2, <2>3, <2>4, DAGAssumption
<1>6. /\ pc'[a] = (IF Len(conts[a]) = 1 THEN "end" ELSE "post")
      /\ \A y \in Actor \ {a} : pc'[y] = pc[y]
  BY <1>1, <1>3 DEF Types
<1>7. conts'[a] = Tail(conts[a]) /\ \A b \in Action \ {a} : conts'[b] = conts[b]
  BY <1>1, <1>3 DEF Types
<1>8. OtherLocals(a)
  BY <1>0, <1>1, ActionIsLocal
<1>9. \A g \in Action : Taken(a, g)' <=> Taken(a, g) /\ g # f
  <2>1. \A g \in Action : Taken(a, g)' => Taken(a, g) /\ g # f
    <3> SUFFICES ASSUME NEW g \in Action, NEW i \in 1 .. Len(Tail(conts[a])), g = Tail(conts[a])[i]
                 PROVE  Taken(a, g) /\ g # f
      BY <1>7 DEF Taken
    <3>1. i + 1 \in 1 .. Len(conts[a]) /\ g = conts[a][i + 1] /\ i + 1 # 1
      BY <1>4, SMT
    <3> QED
      BY <1>1, <1>4, <3>1, SMT DEF Taken, ContinuationsKept
  <2>2. \A g \in Action : Taken(a, g) /\ g # f => Taken(a, g)'
    <3> SUFFICES ASSUME NEW g \in Action, NEW i \in 1 .. Len(conts[a]), g = conts[a][i], g # f
                 PROVE  Taken(a, g)'
      BY DEF Taken
    <3>1. i - 1 \in 1 .. Len(Tail(conts[a])) /\ Tail(conts[a])[i - 1] = g
      BY <1>4, SMT
    <3> QED
      BY <1>7, <3>1 DEF Taken
  <2> QED
    BY <2>1, <2>2
<1>10. \A b, g \in Action : Taken(b, g)' <=> Taken(b, g) /\ g # f
  <2>1. \A b \in Action \ {a}, g \in Action : Taken(b, g)' <=> Taken(b, g)
    BY <1>1, <1>8, OthersGive
  <2>2. \A b \in Action \ {a} : ~Taken(b, f)
    BY <1>1, <1>4, <1>5 DEF OnePlace
  <2> QED
    BY <1>9, <2>1, <2>2
<1>11. \A c \in Action : Live(c)' <=> Live(c)
  <2>1. \A c \in Action : Gives(a, c) <=> Taken(a, c)
    BY <1>3 DEF Gives
  <2>2. \A c \in Action : Gives(a, c)' <=> Taken(a, c)'
    <3>1. CASE Len(conts[a]) # 1
      BY <1>6, <3>1 DEF Gives
    <3>2. CASE Len(conts[a]) = 1
      <4>1. \A c \in Action : ~Taken(a, c)'
        BY <1>4, <1>7, <3>2, SMT DEF Taken
      <4> QED
        BY <1>6, <3>2, <4>1 DEF Gives
    <3> QED
      BY <3>1, <3>2
  <2>3. pc[a] \notin LivePC /\ pc'[a] \notin LivePC
    BY <1>3, <1>6, SMT DEF LivePC, BodyPC
  <2>4. \A c \in Action : Part(a, c)' <=> Part(a, c)
    BY <1>3, <1>5, <1>9, <2>1, <2>2, <2>3 DEF Part
  <2> QED
    BY <1>1, <1>8, <2>4, LiveSame
<1>12. \A c \in Action : /\ HasRun(c) => HasRun(c)'
                         /\ pc'[c] \in NotifyPC <=> pc[c] \in NotifyPC
                         /\ pc'[c] \in FinishPC <=> pc[c] \in FinishPC
  BY <1>3, <1>6, Constants, SMT DEF HasRun, NotifyPC, FinishPC
<1>13. /\ Rooted' /\ WaitCountExact' /\ Finishing' /\ Carried' /\ Told'
       /\ \A u \in Task : Open(u)' = Open(u) /\ (PlainRun(u) => PlainRun(u)')
       /\ \A c \in Action : Posted(c)' <=> Posted(c) \/ c = f
  <2>1. Posted(TaskOf[a])
    BY <1>0, <1>1, OwnerKept DEF Rooted
  <2>2. Posted(TaskOf[f])'
    BY <1>3, <1>5, <2>1 DEF Posted
  <2> QED
    BY <1>3, <1>4, <1>5, <1>11, <1>12, <2>2, PostFrame
<1>14. \A g \in Action : (Held(g)' <=> Held(g)) /\ (Held(g) => g # f)
  BY <1>1, <1>3, <1>4, <1>5 DEF Held, OnePlace
<1>15. Registered'
  <2>1. \A g \in Action : Known(g)' <=> Known(g)
    BY <1>5, <1>10, <1>13, <1>14 DEF Known
  <2> QED
    BY <1>1, <1>3, <2>1, Constants DEF Registered
<1>16. ContinuationsKept'
  <2>1. \A i \in 1 .. Len(Tail(conts[a])) :
          /\ Tail(conts[a])[i] \in Continuation
          /\ TaskOf[Tail(conts[a])[i]] = TaskOf[a]
          /\ \A j \in 1 .. Len(Tail(conts[a])) : Tail(conts[a])[i] = Tail(conts[a])[j] => i = j
    <3>1. \A i \in 1 .. Len(Tail(conts[a])) : i + 1 \in 1 .. Len(conts[a])
      BY <1>4, SMT
    <3>2. \A i, j \in 1 .. Len(Tail(conts[a])) : i + 1 = j + 1 => i = j
      BY <1>4, SMT
    <3> QED
      <4>1. \A i \in 1 .. Len(conts[a]) :
              /\ conts[a][i] \in Continuation /\ TaskOf[conts[a][i]] = TaskOf[a]
              /\ \A j \in 1 .. Len(conts[a]) : conts[a][i] = conts[a][j] => i = j
        BY <1>1 DEF ContinuationsKept
      <4>2. \A i \in 1 .. Len(Tail(conts[a])) : Tail(conts[a])[i] = conts[a][i + 1]
        BY <1>4
      <4> QED
        BY <3>1, <3>2, <4>1, <4>2, SMT
  <2> QED
    BY <1>1, <1>3, <1>7, <2>1, SMT DEF ContinuationsKept
<1>17. OnePlace'
  BY <1>1, <1>10, <1>13, <1>14 DEF OnePlace
<1>18. Released'
  <2>1. PlainRun(TaskOf[f])
    BY <1>1, <1>5 DEF Released
  <2> QED
    BY <1>1, <1>10, <1>13, <2>1, Constants, DAGAssumption DEF Released
<1>19. Scheduling'
  <2>1. pc'[Main] = pc[Main]
    BY <1>6, Constants
  <2>2. \A u \in Task : Posted(u)' <=> Posted(u)
    BY <1>5, <1>13, Constants
  <2> QED
    BY <1>1, <1>3, <1>13, <2>1, <2>2, SMT DEF Scheduling
<1>20. LifeOf(a)'
  <2>1. a \notin pending'
    BY <1>1, <1>3, <1>5, SMT DEF LifeOf
  <2>2. conts'[a] # <<>> <=> pc'[a] \in {"increment", "post"}
    <3>1. conts'[a] = <<>> <=> Len(conts[a]) = 1
      <4>1. Tail(conts[a]) = <<>> <=> Len(Tail(conts[a])) = 0
        BY <1>4, SeqFacts
      <4> QED
        BY <1>4, <1>7, <4>1, SMT
    <3> QED
      BY <1>6, <3>1
  <2>3. pc'[a] \in {"end", "post"}
    BY <1>6
  <2> QED
    BY <1>1, <1>3, <2>1, <2>2, <2>3 DEF LifeOf, HasRun
<1>21. \A c \in Action : c # a => /\ c \in active' <=> c \in active
                                  /\ c \in pending' => c \in pending \/ calls[c] = 0
  <2>1. calls[f] = 0
    BY <1>1, <1>4, <1>5 DEF Posted, Life, LifeOf
  <2> QED
    BY <1>3, <2>1
<1>22. ~aborted'
  BY <1>3 DEF IInv
<1> QED
  BY <1>0, <1>13, <1>15, <1>16, <1>17, <1>18, <1>19, <1>20, <1>21, <1>22, ActionKeeps
=============================================================================

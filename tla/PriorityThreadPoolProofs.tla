---------------------- MODULE PriorityThreadPoolProofs ----------------------
(***************************************************************************)
(* Proofs, for every set of threads and of items and whatever they post,   *)
(* that the counters of PriorityThreadPool are exact, that no wake-up of a *)
(* thread is lost, that the assertions of post and of the destructor hold, *)
(* and that the pool implements PriorityPool.                              *)
(***************************************************************************)
EXTENDS PriorityThreadPool, FiniteSetTheorems, SequenceTheorems, TLAPS

\* First-order steps go to Zenon; a step about numbers or updated functions
\* names SMT.
USE Zenon

\* What the place of the owner says of its last call and of m_shutdown.
OwnerPhase ==
  /\ mpc = "post" => call \in {"none", "wait"}
  /\ call = "none" => mpc = "post"
  /\ call \in {"none", "wait"} => ~shutdown /\ mpc \notin Joining
  /\ call = "join_no_new_work" => shutdown
  /\ shutdown /\ call = "join" => mpc \in Joining
  /\ mpc \in Joining => shutdown
  /\ mpc = "returned" => running = 0

\* Once wait has returned to join nothing is pending, and no thread holds an
\* item that could post one.
Quiet == mpc \in Joining => NothingPending /\ Holding = {}

RunsAnItem == \A w \in Thread : pc[w] = "run" => item[w] \in Item

IInv ==
  /\ TypeOK
  /\ WorkAccounting
  /\ RunsAnItem
  /\ OwnerPhase
  /\ Quiet
  /\ AssertsHold
  /\ IsFiniteSet(PendingSlots)
  /\ WorkConserving
-----------------------------------------------------------------------------
\* The sets of threads that the counters count are finite.
LEMMA ThreadSets ==
  ASSUME NEW S \in SUBSET Thread
  PROVE  IsFiniteSet(S) /\ Cardinality(S) \in Nat
BY PoolAssumption, FS_Subset, FS_CardinalityType

\* How the cardinality of a set of threads changes with one of them.
LEMMA ThreadSetChange ==
  ASSUME NEW S \in SUBSET Thread, NEW w
  PROVE  /\ w \notin S => Cardinality(S \cup {w}) = Cardinality(S) + 1
         /\ w \in S => /\ Cardinality(S \ {w}) = Cardinality(S) - 1
                       /\ Cardinality(S) > 0
<1>1. IsFiniteSet(S) /\ Cardinality(S) \in Nat
  BY ThreadSets
<1>2. w \in S => Cardinality(S) # 0
  BY <1>1, FS_EmptySet
<1>3. w \notin S => Cardinality(S \cup {w}) = Cardinality(S) + 1
  BY <1>1, FS_AddElement
<1>4. w \in S => Cardinality(S \ {w}) = Cardinality(S) - 1
  BY <1>1, FS_RemoveElement
<1>5. w \in S => Cardinality(S) > 0
  BY <1>1, <1>2, SMT
<1> QED
  BY <1>3, <1>4, <1>5

LEMMA NoneEmpty ==
  ASSUME NEW S \in SUBSET Thread, Cardinality(S) = 0
  PROVE  S = {}
BY ThreadSets, FS_EmptySet

\* What is a place of a pending item.
LEMMA SlotsAre ==
  ASSUME TypeOK
  PROVE  \A x : x \in PendingSlots <=>
           \E p \in Priorities : \E k \in 1 .. Len(pending[p]) : x = <<p, k>>
BY SMT DEF PendingSlots

\* An item that is added to a queue takes one more place.
LEMMA SlotAdded ==
  ASSUME TypeOK, IsFiniteSet(PendingSlots), NEW i \in Item,
         pending' = [pending EXCEPT ![Priority[i]] = Append(@, i)]
  PROVE  /\ pending' \in [Priorities -> Seq(Item)]
         /\ IsFiniteSet(PendingSlots')
         /\ Cardinality(PendingSlots') = Cardinality(PendingSlots) + 1
<1> DEFINE p == Priority[i]
           n == Len(pending[p])
<1>1. p \in Priorities /\ pending[p] \in Seq(Item) /\ n \in Nat
  BY LenProperties, SMT DEF TypeOK, Priorities
<1>2. pending' \in [Priorities -> Seq(Item)]
  BY <1>1, AppendProperties DEF TypeOK
<1>3. Len(pending'[p]) = n + 1 /\ \A q \in Priorities \ {p} : pending'[q] = pending[q]
  BY <1>1, AppendProperties, SMT DEF TypeOK
<1>4. <<p, n + 1>> \notin PendingSlots
  BY <1>1, SlotsAre, SMT
<1>5. ASSUME NEW x PROVE x \in PendingSlots' <=> x \in PendingSlots \cup {<<p, n + 1>>}
  <2>1. x \in PendingSlots' <=>
          \E q \in Priorities : \E k \in 1 .. Len(pending'[q]) : x = <<q, k>>
    BY SMT DEF PendingSlots
  <2>2. ASSUME NEW q \in Priorities, NEW k \in 1 .. Len(pending'[q]), x = <<q, k>>
        PROVE  x \in PendingSlots \cup {<<p, n + 1>>}
    BY <1>1, <1>3, <2>2, SlotsAre, SMT
  <2>3. ASSUME NEW q \in Priorities, NEW k \in 1 .. Len(pending[q]), x = <<q, k>>
        PROVE  \E r \in Priorities : \E l \in 1 .. Len(pending'[r]) : x = <<r, l>>
    <3>1. k \in 1 .. Len(pending'[q])
      BY <1>1, <1>3, SMT
    <3> QED
      BY <2>3, <3>1
  <2>4. n + 1 \in 1 .. Len(pending'[p])
    BY <1>1, <1>3, SMT
  <2> QED
    BY <1>1, <2>1, <2>2, <2>3, <2>4, SlotsAre
<1>6. PendingSlots' = PendingSlots \cup {<<p, n + 1>>}
  BY <1>5
<1>7. Cardinality(PendingSlots \cup {<<p, n + 1>>}) = Cardinality(PendingSlots) + 1
      /\ IsFiniteSet(PendingSlots \cup {<<p, n + 1>>})
  BY <1>4, FS_AddElement
<1> QED
  BY <1>2, <1>6, <1>7

\* An item that is taken from a queue leaves one place less.
LEMMA SlotRemoved ==
  ASSUME TypeOK, IsFiniteSet(PendingSlots), NEW p \in Priorities,
         pending[p] # <<>>,
         pending' = [pending EXCEPT ![p] = Tail(@)]
  PROVE  /\ Head(pending[p]) \in Item
         /\ pending' \in [Priorities -> Seq(Item)]
         /\ IsFiniteSet(PendingSlots')
         /\ Cardinality(PendingSlots') = Cardinality(PendingSlots) - 1
<1> DEFINE n == Len(pending[p])
<1>1. pending[p] \in Seq(Item)
  BY DEF TypeOK
<1>2. n \in Nat /\ n > 0
  BY <1>1, LenProperties, EmptySeq, SMT
<1>3. /\ Head(pending[p]) \in Item
      /\ Tail(pending[p]) \in Seq(Item)
      /\ Len(Tail(pending[p])) = n - 1
  BY <1>1, HeadTailProperties
<1>4. pending' \in [Priorities -> Seq(Item)]
  BY <1>3 DEF TypeOK
<1>5. Len(pending'[p]) = n - 1 /\ \A q \in Priorities \ {p} : pending'[q] = pending[q]
  BY <1>3 DEF TypeOK
<1>6. <<p, n>> \in PendingSlots
  BY <1>2, SlotsAre, SMT
<1>7. ASSUME NEW x PROVE x \in PendingSlots' <=> x \in PendingSlots \ {<<p, n>>}
  <2>1. x \in PendingSlots' <=>
          \E q \in Priorities : \E k \in 1 .. Len(pending'[q]) : x = <<q, k>>
    BY SMT DEF PendingSlots
  <2>2. ASSUME NEW q \in Priorities, NEW k \in 1 .. Len(pending'[q]), x = <<q, k>>
        PROVE  x \in PendingSlots \ {<<p, n>>}
    BY <1>2, <1>5, <2>2, SlotsAre, SMT
  <2>3. ASSUME NEW q \in Priorities, NEW k \in 1 .. Len(pending[q]), x = <<q, k>>,
               x # <<p, n>>
        PROVE  \E r \in Priorities : \E l \in 1 .. Len(pending'[r]) : x = <<r, l>>
    <3>1. k \in 1 .. Len(pending'[q])
      BY <1>2, <1>5, <2>3, SMT
    <3> QED
      BY <2>3, <3>1
  <2> QED
    BY <2>1, <2>2, <2>3, SlotsAre, SMT
<1>8. PendingSlots' = PendingSlots \ {<<p, n>>}
  BY <1>7
<1>9. Cardinality(PendingSlots \ {<<p, n>>}) = Cardinality(PendingSlots) - 1
      /\ IsFiniteSet(PendingSlots \ {<<p, n>>})
  BY <1>6, FS_RemoveElement
<1> QED
  BY <1>3, <1>4, <1>8, <1>9

LEMMA NoSlots ==
  ASSUME TypeOK, NothingPending
  PROVE  Cardinality(PendingSlots) = 0
<1>1. \A p \in Priorities : Len(pending[p]) = 0
  BY EmptySeq DEF NothingPending
<1>2. PendingSlots = {}
  BY <1>1, SlotsAre, SMT
<1> QED
  BY <1>2, FS_EmptySet
-----------------------------------------------------------------------------
LEMMA InitIInv == Init => IInv
<1> SUFFICES ASSUME Init PROVE IInv
  OBVIOUS
<1> USE PoolAssumption
<1>1. TypeOK
  <2>1. pending \in [Priorities -> Seq(Item)]
    BY EmptySeq DEF Init
  <2>2. running \in Nat
    BY FS_CardinalityType DEF Init
  <2>3. mposted \in 0 .. Len(MainPosts)
    BY LenProperties, SMT DEF Init
  <2>4. shutdown \in BOOLEAN
    BY DEF Init
  <2>5. first \in [Thread -> BOOLEAN]
    BY DEF Init
  <2> QED
    BY <2>1, <2>2, <2>3, <2>4, <2>5 DEF Init, TypeOK, ThreadPC, MainPC
<1>2. NothingPending
  BY DEF Init, NothingPending
<1>3. Present = Thread /\ Holding = {} /\ Asleep = {}
  BY DEF Init, Present, Holding, Asleep
<1>4. PendingSlots = {}
  <2>1. \A p \in Priorities : Len(pending[p]) = 0
    BY <1>2, EmptySeq DEF NothingPending
  <2> QED
    BY <1>1, <2>1, SlotsAre, SMT
<1>5. WorkAccounting
  BY <1>3, FS_EmptySet DEF Init, WorkAccounting
<1>6. RunsAnItem /\ OwnerPhase /\ Quiet /\ AssertsHold
  BY DEF Init, RunsAnItem, OwnerPhase, Quiet, AssertsHold, Joining
<1>7. IsFiniteSet(PendingSlots) /\ WorkConserving
  BY <1>3, <1>4, FS_EmptySet DEF WorkConserving
<1> QED
  BY <1>1, <1>5, <1>6, <1>7 DEF IInv
-----------------------------------------------------------------------------
\* post, by the owner or by an item.
LEMMA PostStep ==
  ASSUME IInv, NEW i \in Item, Post(i), mpc \notin Joining,
         shutdown => call = "join_no_new_work",
         posted' \in [Thread -> Nat], mposted' \in 0 .. Len(MainPosts),
         UNCHANGED <<running, running_work_items, shutdown, first, item, mpc, call>>
  PROVE  IInv'
<1>1. CASE ~shutdown /\ Enqueue(i) /\ UNCHANGED aborted
  <2>1. /\ pending' \in [Priorities -> Seq(Item)]
        /\ IsFiniteSet(PendingSlots')
        /\ Cardinality(PendingSlots') = Cardinality(PendingSlots) + 1
    BY <1>1, SlotAdded DEF IInv, Enqueue
  <2>2. /\ pc' \in [Thread -> ThreadPC]
        /\ \A w \in Thread : pc'[w] = pc[w] \/ (pc[w] = "asleep" /\ pc'[w] = "woken")
    BY <1>1 DEF IInv, TypeOK, Enqueue, NotifyOne, Asleep, ThreadPC
  <2>3. TypeOK'
    <3>1. shutdown' \in BOOLEAN /\ first' \in [Thread -> BOOLEAN]
      BY DEF IInv, TypeOK
    <3> QED
      BY <1>1, <2>1, <2>2, <3>1 DEF IInv, TypeOK
  <2>4. Present' = Present /\ Holding' = Holding
    BY <2>2 DEF Present, Holding
  <2>5. WorkAccounting' /\ RunsAnItem'
    BY <2>2, <2>4 DEF IInv, WorkAccounting, RunsAnItem
  <2>6. OwnerPhase' /\ Quiet' /\ AssertsHold'
    BY <1>1 DEF IInv, OwnerPhase, Quiet, AssertsHold
  <2>7. WorkConserving'
    <3>1. CASE Asleep = {} /\ pc' = pc
      BY <3>1 DEF Asleep, WorkConserving
    <3>2. CASE \E w \in Asleep : pc' = [pc EXCEPT ![w] = "woken"]
      <4>1. PICK w \in Asleep : pc' = [pc EXCEPT ![w] = "woken"]
        BY <3>2
      <4>2. OnTheWay' = OnTheWay \cup {w} /\ w \notin OnTheWay
        BY <4>1 DEF IInv, TypeOK, Asleep, OnTheWay
      <4>3. Cardinality(OnTheWay \cup {w}) = Cardinality(OnTheWay) + 1
        BY <4>2, ThreadSetChange DEF OnTheWay
      <4>4. Cardinality(PendingSlots) <= Cardinality(OnTheWay)
        BY <4>1 DEF IInv, WorkConserving
      <4>5. Cardinality(PendingSlots) \in Nat /\ Cardinality(OnTheWay) \in Nat
        BY FS_CardinalityType, ThreadSets DEF IInv, OnTheWay
      <4>6. Cardinality(PendingSlots') <= Cardinality(OnTheWay')
        BY <2>1, <4>2, <4>3, <4>4, <4>5, SMT
      <4> QED
        BY <4>6 DEF WorkConserving
    <3> QED
      BY <1>1, <3>1, <3>2 DEF Enqueue, NotifyOne
  <2> QED
    BY <2>1, <2>3, <2>5, <2>6, <2>7 DEF IInv
<1>2. CASE shutdown /\ aborted' = "assertion" /\ UNCHANGED <<pending, pc>>
  <2>1. TypeOK'
    <3>1. shutdown' \in BOOLEAN /\ first' \in [Thread -> BOOLEAN]
      BY DEF IInv, TypeOK
    <3> QED
      BY <1>2, <3>1 DEF IInv, TypeOK
  <2>2. /\ PendingSlots' = PendingSlots /\ Asleep' = Asleep
        /\ OnTheWay' = OnTheWay /\ Present' = Present /\ Holding' = Holding
    BY <1>2 DEF PendingSlots, Asleep, OnTheWay, Present, Holding
  <2>3. WorkAccounting' /\ RunsAnItem' /\ OwnerPhase'
    BY <1>2, <2>2 DEF IInv, WorkAccounting, RunsAnItem, OwnerPhase
  <2>4. Quiet' /\ AssertsHold'
    BY <1>2 DEF IInv, Quiet, AssertsHold
  <2>5. IsFiniteSet(PendingSlots') /\ WorkConserving'
    BY <2>2 DEF IInv, WorkConserving
  <2> QED
    BY <2>1, <2>3, <2>4, <2>5 DEF IInv
<1> QED
  BY <1>1, <1>2 DEF Post

LEMMA MainPostStep ==
  ASSUME IInv, MainPost
  PROVE  IInv'
<1>1. MainPosts \in Seq(Item) /\ Len(MainPosts) \in Nat
  BY PoolAssumption, LenProperties
<1>2. mposted + 1 \in 1 .. Len(MainPosts) /\ mposted' = mposted + 1
  BY <1>1, SMT DEF IInv, TypeOK, MainPost
<1>3. MainPosts[mposted + 1] \in Item /\ mposted' \in 0 .. Len(MainPosts)
  BY <1>1, <1>2, ElementOfSeq, SMT
<1>4. mpc \notin Joining /\ ~shutdown
  BY DEF IInv, OwnerPhase, MainPost, Joining
<1>5. posted' \in [Thread -> Nat]
  BY DEF IInv, TypeOK, MainPost
<1> QED
  BY <1>3, <1>4, <1>5, PostStep DEF MainPost

LEMMA ItemPostStep ==
  ASSUME IInv, NEW w \in Thread, ItemPost(w)
  PROVE  IInv'
<1>1. item[w] \in Item /\ posted[w] \in Nat
  BY DEF IInv, TypeOK, RunsAnItem, ItemPost
<1>2. ItemPosts[item[w]] \in Seq(Item) /\ Len(ItemPosts[item[w]]) \in Nat
  BY <1>1, PoolAssumption, LenProperties
<1>3. posted[w] + 1 \in 1 .. Len(ItemPosts[item[w]])
  BY <1>1, <1>2, SMT DEF ItemPost
<1>4. ItemPosts[item[w]][posted[w] + 1] \in Item
  BY <1>2, <1>3, ElementOfSeq
<1>5. mpc \notin Joining
  <2>1. w \in Holding
    BY <1>1, PoolAssumption DEF Holding
  <2> QED
    BY <2>1 DEF IInv, Quiet
<1>6. shutdown => call = "join_no_new_work"
  BY <1>5 DEF IInv, TypeOK, OwnerPhase
<1>7. posted' \in [Thread -> Nat] /\ mposted' \in 0 .. Len(MainPosts)
  BY <1>1, SMT DEF IInv, TypeOK, ItemPost
<1> QED
  BY <1>4, <1>5, <1>6, <1>7, PostStep DEF ItemPost
-----------------------------------------------------------------------------
\* wait and join change nothing of the work; they may wake all threads up.
LEMMA OwnerStep ==
  ASSUME IInv, (UNCHANGED pc) \/ NotifyAll,
         shutdown' \in BOOLEAN, mpc' \in MainPC,
         call' \in {"none", "wait", "join", "join_no_new_work"},
         OwnerPhase', mpc' \in Joining => NothingPending /\ Holding = {},
         aborted # "assertion",
         UNCHANGED <<pending, running, running_work_items, aborted, first, item,
                     posted, mposted>>
  PROVE  IInv'
<1>1. /\ pc' \in [Thread -> ThreadPC]
      /\ \A w \in Thread : pc'[w] = pc[w] \/ (pc[w] = "asleep" /\ pc'[w] = "woken")
  BY DEF IInv, TypeOK, NotifyAll, ThreadPC
<1>2. TypeOK'
  <2>1. shutdown' \in BOOLEAN /\ first' \in [Thread -> BOOLEAN]
    BY DEF IInv, TypeOK
  <2> QED
    BY <1>1, <2>1 DEF IInv, TypeOK
<1>3. Present' = Present /\ Holding' = Holding /\ PendingSlots' = PendingSlots
  BY <1>1 DEF Present, Holding, PendingSlots
<1>4. WorkAccounting' /\ RunsAnItem'
  BY <1>1, <1>3 DEF IInv, WorkAccounting, RunsAnItem
<1>5. Quiet' /\ AssertsHold'
  BY <1>3 DEF IInv, Quiet, AssertsHold, NothingPending
<1>6. IsFiniteSet(PendingSlots') /\ WorkConserving'
  <2>1. CASE UNCHANGED pc
    <3>1. Asleep' = Asleep /\ OnTheWay' = OnTheWay
      BY <2>1 DEF Asleep, OnTheWay
    <3> QED
      BY <1>3, <3>1 DEF IInv, WorkConserving
  <2>2. CASE NotifyAll
    <3>1. Asleep' = {}
      BY <2>2 DEF NotifyAll, Asleep
    <3> QED
      BY <1>3, <3>1 DEF IInv, WorkConserving
  <2> QED
    BY <2>1, <2>2
<1> QED
  BY <1>2, <1>4, <1>5, <1>6 DEF IInv

LEMMA MainStepIInv ==
  ASSUME IInv, Alive, MainStep
  PROVE  IInv'
<1> USE DEF Alive
<1>1. CASE MainPost
  BY <1>1, MainPostStep
<1>2. CASE WaitBegin
  <2>1. OwnerPhase' /\ mpc' \in MainPC \ Joining
    BY <1>2 DEF IInv, OwnerPhase, WaitBegin, Joining, MainPC
  <2>2. shutdown' \in BOOLEAN
    BY <1>2 DEF IInv, TypeOK, WaitBegin
  <2> QED
    BY <1>2, <2>1, <2>2, OwnerStep DEF WaitBegin
<1>3. CASE JoinBegin
  <2>1. OwnerPhase' /\ mpc' \in MainPC \ Joining
    BY <1>3, SMT DEF IInv, OwnerPhase, JoinBegin, Joining, MainPC
  <2>2. shutdown' \in BOOLEAN
    BY <1>3 DEF IInv, TypeOK, JoinBegin
  <2> QED
    BY <1>3, <2>1, <2>2, OwnerStep DEF JoinBegin
<1>4. CASE Wait
  <2>1. shutdown' \in BOOLEAN /\ ((UNCHANGED pc) \/ NotifyAll)
    BY <1>4 DEF IInv, TypeOK, Wait
  <2>2. mpc' \in MainPC /\ UNCHANGED call
    BY <1>4 DEF Wait, MainPC
  <2>3. call \in {"wait", "join", "join_no_new_work"}
    BY <1>4 DEF IInv, TypeOK, OwnerPhase, Wait
  <2>4. OwnerPhase'
    BY <1>4, <2>3 DEF IInv, OwnerPhase, Wait, Joining
  <2>5. mpc' \in Joining => NothingPending /\ Holding = {}
    <3>1. mpc' \in Joining => WorkDone
      BY <1>4 DEF Wait, Joining
    <3>2. WorkDone => Holding = {}
      BY NoneEmpty DEF IInv, WorkAccounting, WorkDone, Holding
    <3> QED
      BY <3>1, <3>2 DEF WorkDone
  <2>6. call' \in {"none", "wait", "join", "join_no_new_work"}
    BY <2>2, <2>3
  <2> QED
    BY <1>4, <2>1, <2>2, <2>4, <2>5, <2>6, OwnerStep DEF Wait
<1>5. CASE Join
  <2>1. mpc \in Joining /\ mpc' \in Joining
    BY <1>5 DEF Join, Joining
  <2>2. OwnerPhase' /\ mpc' \in MainPC
    BY <1>5, SMT DEF IInv, TypeOK, OwnerPhase, Join, Joining, MainPC
  <2>3. NothingPending /\ Holding = {}
    BY <2>1 DEF IInv, Quiet
  <2>4. shutdown' \in BOOLEAN /\ call' \in {"none", "wait", "join", "join_no_new_work"}
    BY <1>5 DEF IInv, TypeOK, Join
  <2> QED
    BY <1>5, <2>2, <2>3, <2>4, OwnerStep DEF Join
<1> QED
  BY <1>1, <1>2, <1>3, <1>4, <1>5 DEF MainStep
-----------------------------------------------------------------------------
\* The critical section in which a thread looks for an item.
LEMMA FetchStep ==
  ASSUME IInv, NEW w \in Thread, Fetch(w)
  PROVE  IInv'
<1>1. /\ pc[w] \in {"loop", "woken"}
      /\ item[w] = NoItem
      /\ UNCHANGED <<running, shutdown, aborted, first, posted, mposted, call>>
      /\ mpc' = mpc \/ (mpc = "wait_asleep" /\ mpc' = "wait")
  BY DEF IInv, WorkAccounting, Fetch, NotifyDone
<1>2. /\ w \in OnTheWay /\ w \in Present /\ w \notin Holding /\ w \notin Asleep
      /\ Holding \in SUBSET Thread /\ OnTheWay \in SUBSET Thread
  BY <1>1 DEF OnTheWay, Present, Holding, Asleep
<1>3. /\ Cardinality(PendingSlots) \in Nat /\ Cardinality(OnTheWay) \in Nat
      /\ Cardinality(Holding) \in Nat
  BY <1>2, FS_CardinalityType, ThreadSets DEF IInv
<1>4. mpc' \in MainPC /\ OwnerPhase' /\ (mpc' \in Joining <=> mpc \in Joining)
  BY <1>1 DEF IInv, TypeOK, OwnerPhase, Joining, MainPC
<1>5. shutdown' \in BOOLEAN /\ first' \in [Thread -> BOOLEAN] /\ AssertsHold'
  BY <1>1 DEF IInv, TypeOK, AssertsHold
<1>6. ASSUME NEW p \in Priorities, HasPriority(p),
             running_work_items' = running_work_items + 1,
             item' = [item EXCEPT ![w] = Head(pending[p])],
             pending' = [pending EXCEPT ![p] = Tail(@)],
             pc' = [pc EXCEPT ![w] = "run"]
      PROVE  IInv'
  <2>1. /\ Head(pending[p]) \in Item
        /\ pending' \in [Priorities -> Seq(Item)]
        /\ IsFiniteSet(PendingSlots')
        /\ Cardinality(PendingSlots') = Cardinality(PendingSlots) - 1
    BY <1>6, SlotRemoved DEF IInv, HasPriority
  <2>2. TypeOK'
    BY <1>1, <1>4, <1>5, <1>6, <2>1, SMT DEF IInv, TypeOK, ThreadPC
  <2>3. Present' = Present /\ Holding' = Holding \cup {w}
    BY <1>1, <1>6, <2>1, PoolAssumption, SMT DEF IInv, TypeOK, Present, Holding
  <2>4. WorkAccounting'
    <3>1. running_work_items' = Cardinality(Holding')
      BY <1>2, <1>6, <2>3, ThreadSetChange DEF IInv, WorkAccounting
    <3>2. running' = Cardinality(Present')
      BY <1>1, <2>3 DEF IInv, WorkAccounting
    <3>3. \A v \in Thread : pc'[v] \in {"loop", "asleep", "woken", "stop"} =>
            item'[v] = NoItem
      BY <1>6 DEF IInv, TypeOK, WorkAccounting
    <3> QED
      BY <3>1, <3>2, <3>3 DEF WorkAccounting
  <2>5. RunsAnItem'
    BY <1>6, <2>1 DEF IInv, TypeOK, RunsAnItem
  <2>6. Quiet'
    BY <1>4, <1>6 DEF IInv, Quiet, NothingPending, HasPriority
  <2>7. WorkConserving'
    <3>1. Asleep' = Asleep /\ OnTheWay' = OnTheWay \ {w}
      BY <1>1, <1>6 DEF IInv, TypeOK, Asleep, OnTheWay
    <3>2. Cardinality(OnTheWay \ {w}) = Cardinality(OnTheWay) - 1
      BY <1>2, ThreadSetChange
    <3>3. Asleep # {} => Cardinality(PendingSlots) <= Cardinality(OnTheWay)
      BY DEF IInv, WorkConserving
    <3>4. Asleep' # {} => Cardinality(PendingSlots') <= Cardinality(OnTheWay')
      BY <1>3, <2>1, <3>1, <3>2, <3>3, SMT
    <3> QED
      BY <3>4 DEF WorkConserving
  <2> QED
    BY <1>4, <1>5, <2>1, <2>2, <2>4, <2>5, <2>6, <2>7 DEF IInv
<1>7. ASSUME NothingPending,
             pc' = [pc EXCEPT ![w] = IF shutdown THEN "stop" ELSE "asleep"],
             UNCHANGED <<running_work_items, item, pending>>
      PROVE  IInv'
  <2>1. TypeOK'
    BY <1>1, <1>4, <1>5, <1>7 DEF IInv, TypeOK, ThreadPC
  <2>2. Present' = Present /\ Holding' = Holding /\ PendingSlots' = PendingSlots
    BY <1>1, <1>7 DEF IInv, TypeOK, Present, Holding, PendingSlots
  <2>3. WorkAccounting' /\ RunsAnItem'
    BY <1>1, <1>7, <2>2 DEF IInv, TypeOK, WorkAccounting, RunsAnItem
  <2>4. Quiet'
    BY <1>4, <1>7, <2>2 DEF IInv, Quiet, NothingPending
  <2>5. WorkConserving' /\ IsFiniteSet(PendingSlots')
    <3>1. Cardinality(PendingSlots') = 0
      BY <1>7, <2>2, NoSlots DEF IInv
    <3>2. OnTheWay' \in SUBSET Thread
      BY DEF OnTheWay
    <3>3. Cardinality(OnTheWay') \in Nat
      BY <3>2, ThreadSets
    <3>4. Cardinality(PendingSlots') <= Cardinality(OnTheWay')
      BY <3>1, <3>3, SMT
    <3> QED
      BY <2>2, <3>4 DEF IInv, WorkConserving
  <2> QED
    BY <1>4, <1>5, <2>1, <2>3, <2>4, <2>5 DEF IInv
<1> QED
  BY <1>6, <1>7 DEF Fetch, WaitForWork

\* The item returns, and the thread looks for another one.
LEMMA ItemEndsStep ==
  ASSUME IInv, NEW w \in Thread, ItemEnds(w)
  PROVE  IInv'
<1> USE DEF ItemEnds
<1>1. w \in Holding /\ w \in Present /\ w \notin OnTheWay /\ w \notin Asleep
  BY PoolAssumption DEF IInv, RunsAnItem, Holding, Present, OnTheWay, Asleep
<1>2. Holding \in SUBSET Thread /\ OnTheWay \in SUBSET Thread
  BY DEF Holding, OnTheWay
<1>3. /\ Holding' = Holding \ {w} /\ Present' = Present
      /\ OnTheWay' = OnTheWay \cup {w} /\ Asleep' = Asleep
      /\ PendingSlots' = PendingSlots
  BY DEF IInv, TypeOK, Holding, Present, OnTheWay, Asleep, PendingSlots
<1>4. /\ Cardinality(Holding \ {w}) = Cardinality(Holding) - 1
      /\ Cardinality(Holding) > 0
      /\ Cardinality(OnTheWay \cup {w}) = Cardinality(OnTheWay) + 1
  BY <1>1, <1>2, ThreadSetChange
<1>5. /\ Cardinality(PendingSlots) \in Nat /\ Cardinality(OnTheWay) \in Nat
      /\ Cardinality(Holding) \in Nat
  BY <1>2, FS_CardinalityType, ThreadSets DEF IInv
<1>6. running_work_items' = Cardinality(Holding') /\ running_work_items' \in Nat
  BY <1>3, <1>4, <1>5, SMT DEF IInv, WorkAccounting
<1>7. TypeOK'
  <2>1. shutdown' \in BOOLEAN /\ first' \in [Thread -> BOOLEAN]
    BY DEF IInv, TypeOK
  <2> QED
    BY <1>6, <2>1 DEF IInv, TypeOK, ThreadPC
<1>8. WorkAccounting' /\ RunsAnItem'
  BY <1>3, <1>6 DEF IInv, TypeOK, WorkAccounting, RunsAnItem
<1>9. OwnerPhase' /\ Quiet' /\ AssertsHold'
  BY <1>1 DEF IInv, OwnerPhase, Quiet, AssertsHold
<1>10. IsFiniteSet(PendingSlots') /\ WorkConserving'
  <2>1. Asleep' # {} => Cardinality(PendingSlots') <= Cardinality(OnTheWay')
    BY <1>3, <1>4, <1>5, SMT DEF IInv, WorkConserving
  <2> QED
    BY <1>3, <2>1 DEF IInv, WorkConserving
<1> QED
  BY <1>7, <1>8, <1>9, <1>10 DEF IInv

\* A thread leaves, after the shutdown or because its item has thrown.
LEMMA NotRunningStep ==
  ASSUME IInv, NEW w \in Thread, pc[w] \in {"stop", "run"}, NotRunning(w),
         aborted' = aborted \/ aborted' \in {"no", "exception"},
         UNCHANGED <<pending, running_work_items, shutdown, first, item, posted,
                     mposted, call>>
  PROVE  IInv'
<1> USE DEF NotRunning
<1>1. w \in Present /\ Present \in SUBSET Thread
  BY DEF Present
<1>2. /\ Present' = Present \ {w} /\ Holding' = Holding /\ Asleep' = Asleep
      /\ OnTheWay' = OnTheWay /\ PendingSlots' = PendingSlots
  BY DEF IInv, TypeOK, Present, Holding, Asleep, OnTheWay, PendingSlots
<1>3. /\ Cardinality(Present \ {w}) = Cardinality(Present) - 1
      /\ Cardinality(Present) > 0 /\ Cardinality(Present) \in Nat
  BY <1>1, ThreadSetChange, ThreadSets
<1>4. running > 0 /\ running' \in Nat /\ running' = Cardinality(Present')
  BY <1>2, <1>3, SMT DEF IInv, WorkAccounting
<1>5. mpc' = mpc \/ (mpc = "join_asleep" /\ mpc' = "join")
  OBVIOUS
<1>6. TypeOK'
  <2>1. shutdown' \in BOOLEAN /\ first' \in [Thread -> BOOLEAN]
    BY DEF IInv, TypeOK
  <2>2. mpc' \in MainPC
    BY <1>5 DEF IInv, TypeOK, MainPC
  <2> QED
    BY <1>4, <2>1, <2>2 DEF IInv, TypeOK, ThreadPC
<1>7. WorkAccounting' /\ RunsAnItem'
  BY <1>2, <1>4 DEF IInv, TypeOK, WorkAccounting, RunsAnItem
<1>8. OwnerPhase'
  <2>1. mpc # "returned"
    BY <1>4, SMT DEF IInv, OwnerPhase
  <2> QED
    BY <1>5, <2>1 DEF IInv, OwnerPhase, Joining
<1>9. Quiet' /\ AssertsHold'
  BY <1>2, <1>5 DEF IInv, Quiet, AssertsHold, Joining, NothingPending
<1>10. IsFiniteSet(PendingSlots') /\ WorkConserving'
  BY <1>2 DEF IInv, WorkConserving
<1> QED
  BY <1>6, <1>7, <1>8, <1>9, <1>10 DEF IInv

LEMMA NextIInv == IInv /\ [Next]_vars => IInv'
<1> SUFFICES ASSUME IInv, [Next]_vars PROVE IInv'
  OBVIOUS
<1>1. CASE Alive /\ MainStep
  BY <1>1, MainStepIInv
<1>2. ASSUME NEW w \in Thread, Alive, ThreadStep(w) PROVE IInv'
  <2>1. CASE Fetch(w)
    BY <2>1, FetchStep
  <2>2. CASE ItemPost(w)
    BY <2>2, ItemPostStep
  <2>3. CASE ItemEnds(w)
    BY <2>3, ItemEndsStep
  <2>4. CASE Stop(w)
    BY <2>4, NotRunningStep DEF Stop
  <2>5. CASE ItemThrows(w)
    BY <2>5, NotRunningStep DEF ItemThrows
  <2> QED
    BY <1>2, <2>1, <2>2, <2>3, <2>4, <2>5 DEF ThreadStep
<1>3. CASE UNCHANGED vars
  <2>1. /\ PendingSlots' = PendingSlots /\ Asleep' = Asleep /\ OnTheWay' = OnTheWay
        /\ Present' = Present /\ Holding' = Holding
    BY <1>3 DEF vars, PendingSlots, Asleep, OnTheWay, Present, Holding
  <2>2. TypeOK'
    <3>1. shutdown' \in BOOLEAN /\ first' \in [Thread -> BOOLEAN]
      BY <1>3 DEF IInv, TypeOK, vars
    <3> QED
      BY <1>3, <3>1 DEF IInv, TypeOK, vars
  <2>3. WorkAccounting' /\ RunsAnItem' /\ OwnerPhase'
    BY <1>3, <2>1 DEF IInv, WorkAccounting, RunsAnItem, OwnerPhase, vars
  <2>4. Quiet' /\ AssertsHold'
    BY <1>3, <2>1 DEF IInv, Quiet, AssertsHold, NothingPending, vars
  <2>5. IsFiniteSet(PendingSlots') /\ WorkConserving'
    BY <2>1 DEF IInv, WorkConserving
  <2> QED
    BY <2>2, <2>3, <2>4, <2>5 DEF IInv
<1> QED
  BY <1>1, <1>2, <1>3 DEF Next

LEMMA AlwaysIInv == Spec => []IInv
BY InitIInv, NextIInv, PTL DEF Spec
-----------------------------------------------------------------------------
\* m_running and m_running_work_items are exact at every moment, although the
\* second one is decremented without the mutex.
THEOREM WorkAccounted == Spec => []WorkAccounting
<1>1. IInv => WorkAccounting
  BY DEF IInv
<1> QED
  BY <1>1, AlwaysIInv, PTL

\* One notify_one for each post is enough: no item is pending while a thread
\* sleeps, unless another thread is on its way to fetch it.
THEOREM NoLostWakeUp == Spec => []WorkConserving
<1>1. IInv => WorkConserving
  BY DEF IInv
<1> QED
  BY <1>1, AlwaysIInv, PTL

\* post never finds the pool shut down, except by an item that still runs
\* after a call of join(allow_new_work = false).
THEOREM PostIsSafe == Spec => []AssertsHold
<1>1. IInv => AssertsHold
  BY DEF IInv
<1> QED
  BY <1>1, AlwaysIInv, PTL

\* When join has returned, the destructor finds nothing pending or running and
\* no thread that still uses the pool.
THEOREM DestructorIsSafe == Spec => []DestructorAsserts
<1>1. ASSUME IInv, mpc = "returned"
      PROVE  /\ NothingPending /\ shutdown /\ running_work_items = 0
             /\ \A w \in Thread : pc[w] = "gone"
  <2>1. NothingPending /\ Holding = {} /\ shutdown /\ running = 0
    BY <1>1 DEF IInv, Quiet, OwnerPhase, Joining
  <2>2. running_work_items = 0
    BY <1>1, <2>1, FS_EmptySet DEF IInv, WorkAccounting
  <2>3. Present = {}
    BY <1>1, <2>1, NoneEmpty DEF IInv, WorkAccounting, Present
  <2> QED
    BY <2>1, <2>2, <2>3 DEF Present
<1>2. IInv => DestructorAsserts
  BY <1>1 DEF DestructorAsserts
<1> QED
  BY <1>2, AlwaysIInv, PTL
-----------------------------------------------------------------------------
(***************************************************************************)
(* The pool implements PriorityPool.                                       *)
(***************************************************************************)
\* Every item is in the queue of its priority, and there once.
Sorted ==
  \A p \in Priorities :
    /\ \A k \in 1 .. Len(pending[p]) : Priority[pending[p][k]] = p
    /\ \A j, k \in 1 .. Len(pending[p]) : pending[p][j] = pending[p][k] => j = k

\* No item is in the hands of two threads, nor of one and in a queue.
InOnePlace ==
  /\ \A v, w \in Running : item[v] = item[w] => v = w
  /\ \A w \in Running : item[w] \notin PendingItems

\* U are items that were not posted yet, among them all that the owner, the
\* running items and the pending ones are still to post, and what those post.
NotYetPosted(U) ==
  /\ U \cap (PendingItems \cup ActiveItems) = {}
  /\ \A k \in 1 .. Len(MainPosts) : k > mposted => MainPosts[k] \in U
  /\ \A w \in Running : \A k \in 1 .. Len(ItemPosts[item[w]]) :
       k > posted[w] => ItemPosts[item[w]][k] \in U
  /\ \A i \in PendingItems \cup U : \A k \in 1 .. Len(ItemPosts[i]) :
       ItemPosts[i][k] \in U

\* An item is posted once, so it is never in two places.
History == Sorted /\ InOnePlace /\ \E U \in SUBSET Item : NotYetPosted(U)

\* post appends to the queue of the item's priority.
LEMMA QueueAppended ==
  ASSUME TypeOK, Sorted, NEW i \in Item, i \notin PendingItems,
         pending' = [pending EXCEPT ![Priority[i]] = Append(@, i)]
  PROVE  PendingItems' = PendingItems \cup {i} /\ Sorted'
<1>1. PICK p \in Priorities : p = Priority[i]
  BY DEF Priorities
<1>2. PICK n \in Nat : n = Len(pending[p])
  BY LenProperties DEF TypeOK
<1>3. /\ Len(pending'[p]) = n + 1 /\ pending'[p][n + 1] = i
      /\ \A k \in 1 .. n : pending'[p][k] = pending[p][k]
  <2>1. pending[p] \in Seq(Item) /\ pending'[p] = Append(pending[p], i)
    BY <1>1 DEF TypeOK
  <2> QED
    BY <1>2, <2>1, AppendProperties, SMT
<1>4. \A q \in Priorities \ {p} : pending'[q] = pending[q]
  BY <1>1 DEF TypeOK
<1>5. \A k : k \in 1 .. n + 1 <=> k \in 1 .. n \/ k = n + 1
  BY SMT
<1>6. \A k \in 1 .. n : pending[p][k] # i
  BY <1>1, <1>2 DEF PendingItems
<1>7. PendingItems' = PendingItems \cup {i}
  <2>1. ASSUME NEW j \in Item
        PROVE  (\E k \in 1 .. Len(pending'[Priority[j]]) : pending'[Priority[j]][k] = j)
                 <=> (\E k \in 1 .. Len(pending[Priority[j]]) : pending[Priority[j]][k] = j) \/ j = i
    <3>1. CASE Priority[j] = p
      <4>1. n + 1 \in 1 .. n + 1
        BY <1>5
      <4> QED
        BY <1>2, <1>3, <1>5, <3>1, <4>1
    <3>2. CASE Priority[j] # p
      BY <1>1, <1>4, <3>2 DEF Priorities
    <3> QED
      BY <3>1, <3>2
  <2> QED
    BY <2>1 DEF PendingItems
<1>8. Sorted'
  <2>1. ASSUME NEW q \in Priorities
        PROVE  /\ \A k \in 1 .. Len(pending'[q]) : Priority[pending'[q][k]] = q
               /\ \A j, k \in 1 .. Len(pending'[q]) : pending'[q][j] = pending'[q][k] => j = k
    <3>1. CASE q # p
      <4>1. pending'[q] = pending[q]
        BY <1>4, <3>1
      <4>2. /\ \A k \in 1 .. Len(pending[q]) : Priority[pending[q][k]] = q
            /\ \A j, k \in 1 .. Len(pending[q]) : pending[q][j] = pending[q][k] => j = k
        BY DEF Sorted
      <4> QED
        BY <4>1, <4>2
    <3>2. CASE q = p
      <4>1. /\ \A k \in 1 .. n : Priority[pending[p][k]] = p
            /\ \A j, k \in 1 .. n : pending[p][j] = pending[p][k] => j = k
        BY <1>2 DEF Sorted
      <4>2. \A k \in 1 .. n + 1 : Priority[pending'[p][k]] = p
        BY <1>1, <1>3, <1>5, <4>1, SMT
      <4>3. ASSUME NEW j \in 1 .. n + 1, NEW k \in 1 .. n + 1, pending'[p][j] = pending'[p][k]
            PROVE  j = k
        BY <1>3, <1>5, <1>6, <4>1, <4>3
      <4> QED
        BY <1>3, <3>2, <4>2, <4>3, SMT
    <3> QED
      BY <3>1, <3>2
  <2> QED
    BY <2>1 DEF Sorted
<1> QED
  BY <1>7, <1>8

\* A thread takes the first item of a queue.
LEMMA HeadTaken ==
  ASSUME TypeOK, Sorted, NEW p \in Priorities, pending[p] # <<>>,
         pending' = [pending EXCEPT ![p] = Tail(@)]
  PROVE  /\ Head(pending[p]) \in PendingItems /\ Priority[Head(pending[p])] = p
         /\ PendingItems' = PendingItems \ {Head(pending[p])} /\ Sorted'
<1>1. pending[p] \in Seq(Item)
  BY DEF TypeOK
<1>2. PICK n \in Nat : n + 1 = Len(pending[p])
  <2>1. Len(pending[p]) \in Nat /\ Len(pending[p]) # 0
    BY <1>1, LenProperties, EmptySeq
  <2>2. Len(pending[p]) - 1 \in Nat /\ (Len(pending[p]) - 1) + 1 = Len(pending[p])
    BY <2>1, SMT
  <2> QED
    BY <2>2
<1>3. PICK i \in Item : i = Head(pending[p]) /\ i = pending[p][1]
  <2>1. Head(pending[p]) \in Item
    BY <1>1, HeadTailProperties
  <2>2. Head(pending[p]) = pending[p][1]
    BY <1>1, SMT
  <2> QED
    BY <2>1, <2>2
<1>4. /\ Len(pending'[p]) = n
      /\ \A k \in 1 .. n : pending'[p][k] = pending[p][k + 1]
  <2>1. pending'[p] = Tail(pending[p])
    BY DEF TypeOK
  <2>2. Len(Tail(pending[p])) = Len(pending[p]) - 1
    BY <1>1, HeadTailProperties
  <2>3. Len(Tail(pending[p])) = n
    BY <1>2, <2>2, SMT
  <2>4. \A k \in 1 .. n : Tail(pending[p])[k] = pending[p][k + 1]
    BY <1>1, <2>3, HeadTailProperties
  <2> QED
    BY <2>1, <2>3, <2>4
<1>5. \A q \in Priorities \ {p} : pending'[q] = pending[q]
  BY DEF TypeOK
<1>6. /\ 1 \in 1 .. n + 1
      /\ \A k \in 1 .. n : k + 1 \in 1 .. n + 1 /\ k + 1 # 1
      /\ \A j, k \in 1 .. n : j + 1 = k + 1 => j = k
  BY SMT
<1>7. \A k \in 1 .. n + 1 : k = 1 \/ \E l \in 1 .. n : k = l + 1
  <2>1. ASSUME NEW k \in 1 .. n + 1, k # 1 PROVE k - 1 \in 1 .. n /\ k = (k - 1) + 1
    BY <2>1, SMT
  <2> QED
    BY <2>1
<1>8. Priority[i] = p /\ \A k \in 1 .. n : pending[p][k + 1] # i
  <2>1. /\ \A k \in 1 .. n + 1 : Priority[pending[p][k]] = p
        /\ \A j, k \in 1 .. n + 1 : pending[p][j] = pending[p][k] => j = k
    BY <1>2 DEF Sorted
  <2> QED
    BY <1>3, <1>6, <2>1
<1>9. i \in PendingItems
  BY <1>2, <1>3, <1>6, <1>8 DEF PendingItems
<1>10. PendingItems' = PendingItems \ {i}
  <2>1. ASSUME NEW j \in Item
        PROVE  (\E k \in 1 .. Len(pending'[Priority[j]]) : pending'[Priority[j]][k] = j)
                 <=> (\E k \in 1 .. Len(pending[Priority[j]]) : pending[Priority[j]][k] = j) /\ j # i
    <3>1. CASE Priority[j] = p
      <4>1. ASSUME NEW k \in 1 .. n, pending'[p][k] = j
            PROVE  k + 1 \in 1 .. n + 1 /\ pending[p][k + 1] = j /\ j # i
        BY <1>4, <1>6, <1>8, <4>1
      <4>2. ASSUME NEW k \in 1 .. n + 1, pending[p][k] = j, j # i
            PROVE  \E l \in 1 .. n : pending'[p][l] = j
        BY <1>3, <1>4, <1>7, <4>2
      <4> QED
        BY <1>2, <1>4, <3>1, <4>1, <4>2
    <3>2. CASE Priority[j] # p
      BY <1>5, <1>8, <3>2 DEF Priorities
    <3> QED
      BY <3>1, <3>2
  <2> QED
    BY <2>1 DEF PendingItems
<1>11. Sorted'
  <2>1. ASSUME NEW q \in Priorities
        PROVE  /\ \A k \in 1 .. Len(pending'[q]) : Priority[pending'[q][k]] = q
               /\ \A j, k \in 1 .. Len(pending'[q]) : pending'[q][j] = pending'[q][k] => j = k
    <3>1. CASE q # p
      BY <1>5, <3>1, SMT DEF Sorted
    <3>2. CASE q = p
      <4>1. /\ \A k \in 1 .. n + 1 : Priority[pending[p][k]] = p
            /\ \A j, k \in 1 .. n + 1 : pending[p][j] = pending[p][k] => j = k
        BY <1>2 DEF Sorted
      <4>2. \A k \in 1 .. n : Priority[pending'[p][k]] = p
        BY <1>4, <1>6, <4>1, SMT
      <4>3. ASSUME NEW j \in 1 .. n, NEW k \in 1 .. n, pending'[p][j] = pending'[p][k]
            PROVE  j = k
        BY <1>4, <1>6, <4>1, <4>3, SMT
      <4> QED
        BY <1>4, <3>2, <4>2, <4>3
    <3> QED
      BY <3>1, <3>2
  <2> QED
    BY <2>1 DEF Sorted
<1> QED
  BY <1>3, <1>8, <1>9, <1>10, <1>11
-----------------------------------------------------------------------------
\* A step that posts nothing and starts nothing keeps the history.
LEMMA HistoryKept ==
  ASSUME History, UNCHANGED <<pending, mposted>>, Running' \subseteq Running,
         \A w \in Running' : item'[w] = item[w],
         \A w \in Running' : \A k \in Nat : k > posted'[w] => k > posted[w]
  PROVE  History'
<1>1. PICK U \in SUBSET Item : NotYetPosted(U)
  BY DEF History
<1>2. PendingItems' = PendingItems /\ Sorted'
  BY DEF PendingItems, Sorted, History
<1>3. InOnePlace'
  BY <1>2 DEF InOnePlace, History
<1>4. ActiveItems' \subseteq ActiveItems
  BY DEF ActiveItems
<1>5. U \cap (PendingItems' \cup ActiveItems') = {}
  BY <1>1, <1>2, <1>4 DEF NotYetPosted
<1>6. /\ \A k \in 1 .. Len(MainPosts) : k > mposted' => MainPosts[k] \in U
      /\ \A i \in PendingItems' \cup U : \A k \in 1 .. Len(ItemPosts[i]) : ItemPosts[i][k] \in U
  BY <1>1, <1>2 DEF NotYetPosted
<1>7. ASSUME NEW w \in Running', NEW k \in 1 .. Len(ItemPosts[item'[w]]), k > posted'[w]
      PROVE  ItemPosts[item'[w]][k] \in U
  <2>1. k \in Nat
    BY SMT
  <2>2. k > posted[w]
    BY <1>7, <2>1
  <2> QED
    BY <1>1, <2>2 DEF NotYetPosted
<1>8. NotYetPosted(U)'
  BY <1>5, <1>6, <1>7 DEF NotYetPosted
<1> QED
  BY <1>2, <1>3, <1>8 DEF History

\* A post takes its item out of those that are not posted yet.
LEMMA HistoryPosted ==
  ASSUME TypeOK, Sorted, InOnePlace, NEW U \in SUBSET Item, NotYetPosted(U),
         NEW i \in U, Enqueue(i), UNCHANGED item,
         \A k \in 1 .. Len(MainPosts) :
           k > mposted' => k > mposted /\ MainPosts[k] # i,
         \A w \in Running : \A k \in 1 .. Len(ItemPosts[item[w]]) :
           k > posted'[w] => k > posted[w] /\ ItemPosts[item[w]][k] # i,
         \A j \in PendingItems \cup U : \A k \in 1 .. Len(ItemPosts[j]) :
           ItemPosts[j][k] # i
  PROVE  /\ History'
         /\ i \notin PendingItems \cup ActiveItems
         /\ PendingItems' = PendingItems \cup {i}
         /\ ActiveItems' = ActiveItems
<1>1. i \notin PendingItems \cup ActiveItems /\ i \in Item
  BY DEF NotYetPosted
<1>2. PendingItems' = PendingItems \cup {i} /\ Sorted'
  BY <1>1, QueueAppended DEF Enqueue
<1>3. Running' = Running
  BY DEF Enqueue, NotifyOne, Asleep, Running, TypeOK
<1>4. ActiveItems' = ActiveItems
  BY <1>3 DEF ActiveItems
<1>5. InOnePlace'
  <2>1. \A w \in Running : item[w] # i
    BY <1>1 DEF ActiveItems
  <2> QED
    BY <1>2, <1>3, <2>1 DEF InOnePlace
<1>6. PICK V \in SUBSET Item : V = U \ {i}
  OBVIOUS
<1>7. V \cap (PendingItems' \cup ActiveItems') = {}
  BY <1>2, <1>4, <1>6 DEF NotYetPosted
<1>8. \A k \in 1 .. Len(MainPosts) : k > mposted' => MainPosts[k] \in V
  BY <1>6 DEF NotYetPosted
<1>9. \A w \in Running' : \A k \in 1 .. Len(ItemPosts[item'[w]]) :
        k > posted'[w] => ItemPosts[item'[w]][k] \in V
  BY <1>3, <1>6 DEF NotYetPosted
<1>10. \A j \in PendingItems' \cup V : \A k \in 1 .. Len(ItemPosts[j]) : ItemPosts[j][k] \in V
  <2>1. \A j \in PendingItems \cup U : \A k \in 1 .. Len(ItemPosts[j]) : ItemPosts[j][k] \in U
    BY DEF NotYetPosted
  <2>2. PendingItems' \cup V = PendingItems \cup U
    BY <1>2, <1>6
  <2> QED
    BY <1>6, <2>1, <2>2
<1>11. NotYetPosted(V)'
  BY <1>7, <1>8, <1>9, <1>10 DEF NotYetPosted
<1> QED
  BY <1>1, <1>2, <1>4, <1>5, <1>11 DEF History

\* A thread that takes an item starts it.
LEMMA HistoryStarted ==
  ASSUME TypeOK, History, NEW w \in Thread, w \notin Running,
         NEW p \in Priorities, pending[p] # <<>>,
         item' = [item EXCEPT ![w] = Head(pending[p])],
         pending' = [pending EXCEPT ![p] = Tail(@)],
         pc' = [pc EXCEPT ![w] = "run"],
         UNCHANGED <<posted, mposted>>
  PROVE  /\ History'
         /\ Head(pending[p]) \in PendingItems /\ Priority[Head(pending[p])] = p
         /\ PendingItems' = PendingItems \ {Head(pending[p])}
         /\ ActiveItems' = ActiveItems \cup {Head(pending[p])}
<1>1. PICK U \in SUBSET Item : NotYetPosted(U)
  BY DEF History
<1>2. PICK i : i = Head(pending[p])
  OBVIOUS
<1>3. /\ i \in PendingItems /\ Priority[i] = p
      /\ PendingItems' = PendingItems \ {i} /\ Sorted'
  BY <1>2, HeadTaken DEF History
<1>4. /\ Running' = Running \cup {w} /\ item'[w] = i
      /\ \A v \in Running : v # w /\ item'[v] = item[v]
  BY <1>2 DEF Running, TypeOK
<1>5. ActiveItems' = ActiveItems \cup {i}
  BY <1>4 DEF ActiveItems
<1>6. InOnePlace'
  <2>1. \A v \in Running : item[v] # i /\ item[v] \notin PendingItems
    BY <1>3 DEF History, InOnePlace
  <2>2. \A u, v \in Running : item[u] = item[v] => u = v
    BY DEF History, InOnePlace
  <2>3. \A v \in Running' : item'[v] \notin PendingItems'
    BY <1>3, <1>4, <2>1, SMT
  <2>4. \A u, v \in Running' : item'[u] = item'[v] => u = v
    BY <1>4, <2>1, <2>2, SMT
  <2> QED
    BY <2>3, <2>4 DEF InOnePlace
<1>7. U \cap (PendingItems' \cup ActiveItems') = {}
  BY <1>1, <1>3, <1>5 DEF NotYetPosted
<1>8. \A k \in 1 .. Len(MainPosts) : k > mposted' => MainPosts[k] \in U
  BY <1>1 DEF NotYetPosted
<1>9. \A j \in PendingItems \cup U : \A k \in 1 .. Len(ItemPosts[j]) : ItemPosts[j][k] \in U
  BY <1>1 DEF NotYetPosted
<1>10. \A v \in Running' : \A k \in 1 .. Len(ItemPosts[item'[v]]) :
         k > posted'[v] => ItemPosts[item'[v]][k] \in U
  <2>1. \A v \in Running : \A k \in 1 .. Len(ItemPosts[item[v]]) :
          k > posted[v] => ItemPosts[item[v]][k] \in U
    BY <1>1 DEF NotYetPosted
  <2> QED
    BY <1>3, <1>4, <1>9, <2>1, SMT
<1>11. NotYetPosted(U)'
  BY <1>3, <1>7, <1>8, <1>9, <1>10 DEF NotYetPosted
<1> QED
  BY <1>2, <1>3, <1>5, <1>6, <1>11 DEF History
-----------------------------------------------------------------------------
\* The steps of the contract, in terms of the pool.
LEMMA ContractPost ==
  ASSUME NEW i \in Item, i \notin PendingItems \cup ActiveItems,
         PendingItems' = PendingItems \cup {i}, ActiveItems' = ActiveItems,
         mpc \notin Joining, mpc' = mpc
  PROVE  Contract!Next
BY DEF Contract!Next, Contract!Post

LEMMA ContractStart ==
  ASSUME NEW i \in Item, i \in PendingItems,
         \A j \in PendingItems : Priority[j] <= Priority[i],
         Cardinality(ActiveItems) < Cardinality(Thread),
         PendingItems' = PendingItems \ {i}, ActiveItems' = ActiveItems \cup {i},
         mpc' \in Joining <=> mpc \in Joining
  PROVE  Contract!Next
<1>1. (mpc' \in Joining) = (mpc \in Joining)
  BY SMT
<1>2. Contract!Cardinality(ActiveItems) = Cardinality(ActiveItems)
  BY DEF Contract!Cardinality, Cardinality
<1> QED
  BY <1>1, <1>2 DEF Contract!Next, Contract!Start

LEMMA ContractEnd ==
  ASSUME NEW i \in Item, i \in ActiveItems,
         PendingItems' = PendingItems, ActiveItems' = ActiveItems \ {i},
         mpc' \in Joining <=> mpc \in Joining
  PROVE  Contract!Next
<1>1. (mpc' \in Joining) = (mpc \in Joining)
  BY SMT
<1> QED
  BY <1>1 DEF Contract!Next, Contract!End

LEMMA ContractJoined ==
  ASSUME PendingItems = {}, ActiveItems = {}, PendingItems' = {}, ActiveItems' = {},
         mpc \notin Joining, mpc' \in Joining
  PROVE  Contract!Next
BY DEF Contract!Next, Contract!Joined

LEMMA ContractStutter ==
  ASSUME PendingItems' = PendingItems, ActiveItems' = ActiveItems,
         mpc' \in Joining <=> mpc \in Joining
  PROVE  UNCHANGED Contract!vars
<1>1. (mpc' \in Joining) = (mpc \in Joining)
  BY SMT
<1> QED
  BY <1>1 DEF Contract!vars
-----------------------------------------------------------------------------
\* Each step keeps the history and is a step of the contract or none.
Simulates == History' /\ [Contract!Next]_Contract!vars

\* A step that changes neither what is pending nor who runs what.
LEMMA QuietStep ==
  ASSUME History, UNCHANGED <<pending, mposted>>, Running' = Running,
         \A w \in Running : item'[w] = item[w],
         \A w \in Running : \A k \in Nat : k > posted'[w] => k > posted[w],
         mpc' \in Joining <=> mpc \in Joining
  PROVE  Simulates
<1>1. History'
  BY HistoryKept
<1>2. PendingItems' = PendingItems /\ ActiveItems' = ActiveItems
  BY DEF PendingItems, ActiveItems
<1> QED
  BY <1>1, <1>2, ContractStutter DEF Simulates

LEMMA MainPostSimulates ==
  ASSUME IInv, History, MainPost
  PROVE  Simulates
<1>1. PICK U \in SUBSET Item : NotYetPosted(U)
  BY DEF History
<1>2. MainPosts \in Seq(Item) /\ Len(MainPosts) \in Nat
  BY PoolAssumption, LenProperties
<1>3. PICK n \in 1 .. Len(MainPosts) : n = mposted + 1 /\ mposted' = n
  BY <1>2, SMT DEF IInv, TypeOK, MainPost
<1>4. n > mposted /\ \A k \in 1 .. Len(MainPosts) : k > n => k > mposted /\ k # n
  BY <1>2, <1>3, SMT DEF IInv, TypeOK
<1>5. PICK i \in U : i = MainPosts[n]
  BY <1>1, <1>4 DEF NotYetPosted
<1>6. ~shutdown /\ mpc \notin Joining /\ mpc' = mpc
  BY DEF IInv, OwnerPhase, MainPost, Joining
<1>7. Enqueue(i) /\ UNCHANGED item
  BY <1>3, <1>5, <1>6 DEF MainPost, Post
<1>8. \A k \in 1 .. Len(MainPosts) : k > mposted' => k > mposted /\ MainPosts[k] # i
  BY <1>3, <1>4, <1>5, PostedOnce
<1>9. \A a \in Item : \A k \in 1 .. Len(ItemPosts[a]) : ItemPosts[a][k] # i
  BY <1>5, PostedOnce
<1>10. \A w \in Running : \A k \in 1 .. Len(ItemPosts[item[w]]) :
         k > posted'[w] => k > posted[w] /\ ItemPosts[item[w]][k] # i
  BY <1>9 DEF IInv, RunsAnItem, Running, MainPost
<1>11. \A j \in PendingItems \cup U : \A k \in 1 .. Len(ItemPosts[j]) : ItemPosts[j][k] # i
  BY <1>9 DEF PendingItems
<1>12. TypeOK /\ Sorted /\ InOnePlace
  BY DEF IInv, History
<1>13. /\ History' /\ i \notin PendingItems \cup ActiveItems
       /\ PendingItems' = PendingItems \cup {i} /\ ActiveItems' = ActiveItems
  BY <1>1, <1>7, <1>8, <1>10, <1>11, <1>12, HistoryPosted
<1> QED
  BY <1>5, <1>6, <1>13, ContractPost DEF Simulates

LEMMA ItemPostSimulates ==
  ASSUME IInv, History, NEW w \in Thread, ItemPost(w)
  PROVE  Simulates
<1>1. PICK U \in SUBSET Item : NotYetPosted(U)
  BY DEF History
<1>2. PICK a \in Item : a = item[w] /\ w \in Running
  BY DEF IInv, RunsAnItem, ItemPost, Running
<1>3. ItemPosts[a] \in Seq(Item) /\ Len(ItemPosts[a]) \in Nat
  BY PoolAssumption, LenProperties
<1>4. PICK n \in 1 .. Len(ItemPosts[a]) : n = posted[w] + 1
  BY <1>2, <1>3, SMT DEF IInv, TypeOK, ItemPost
<1>5. posted'[w] = n /\ \A v \in Thread \ {w} : posted'[v] = posted[v]
  BY <1>4, SMT DEF IInv, TypeOK, ItemPost
<1>6. n > posted[w] /\ \A k \in Nat : k > n => k > posted[w] /\ k # n
  BY <1>4, SMT DEF IInv, TypeOK
<1>7. \A v \in Running : \A k \in Nat : k > posted'[v] => k > posted[v]
  BY <1>5, <1>6 DEF Running
<1>8. PICK i \in U : i = ItemPosts[a][n]
  BY <1>1, <1>2, <1>6 DEF NotYetPosted
<1>9. mpc \notin Joining /\ mpc' = mpc /\ UNCHANGED <<item, mposted>>
  <2>1. w \in Holding
    BY <1>2, PoolAssumption DEF Holding
  <2> QED
    BY <2>1 DEF IInv, Quiet, ItemPost
<1>10. CASE shutdown
  <2>1. UNCHANGED <<pending, pc>>
    BY <1>10 DEF ItemPost, Post
  <2>2. Running' = Running
    BY <2>1 DEF Running
  <2> QED
    BY <1>7, <1>9, <2>1, <2>2, QuietStep
<1>11. CASE ~shutdown
  <2>1. Enqueue(i)
    BY <1>2, <1>4, <1>8, <1>11 DEF ItemPost, Post
  <2>2. \A k \in 1 .. Len(MainPosts) : k > mposted' => k > mposted /\ MainPosts[k] # i
    BY <1>8, <1>9, PostedOnce
  <2>3. \A b \in Item : \A k \in 1 .. Len(ItemPosts[b]) : ItemPosts[b][k] = i => b = a /\ k = n
    BY <1>8, PostedOnce, SMT
  <2>4. ASSUME NEW v \in Running, NEW k \in 1 .. Len(ItemPosts[item[v]]), k > posted'[v]
        PROVE  k > posted[v] /\ ItemPosts[item[v]][k] # i
    <3>1. k \in Nat
      BY SMT
    <3>2. k > posted[v]
      BY <1>7, <2>4, <3>1
    <3>3. v = w => k # n
      BY <1>5, <1>6, <2>4, <3>1
    <3>4. item[v] = a => v = w
      BY <1>2 DEF History, InOnePlace
    <3>5. item[v] \in Item
      BY DEF IInv, RunsAnItem, Running
    <3> QED
      BY <2>3, <3>2, <3>3, <3>4, <3>5
  <2>5. \A j \in PendingItems \cup U : \A k \in 1 .. Len(ItemPosts[j]) : ItemPosts[j][k] # i
    <3>1. a \in ActiveItems /\ a \notin PendingItems
      BY <1>2 DEF ActiveItems, History, InOnePlace
    <3>2. a \notin PendingItems \cup U
      BY <1>1, <3>1 DEF NotYetPosted
    <3> QED
      BY <2>3, <3>2 DEF PendingItems
  <2>6. TypeOK /\ Sorted /\ InOnePlace
    BY DEF IInv, History
  <2>7. /\ History' /\ i \notin PendingItems \cup ActiveItems
        /\ PendingItems' = PendingItems \cup {i} /\ ActiveItems' = ActiveItems
    BY <1>1, <1>9, <2>1, <2>2, <2>4, <2>5, <2>6, HistoryPosted
  <2> QED
    BY <1>8, <1>9, <2>7, ContractPost DEF Simulates
<1> QED
  BY <1>10, <1>11

\* The other steps of the owner: the one that ends its wait for the work
\* finds nothing pending and nothing running.
LEMMA MainSimulates ==
  ASSUME IInv, History, MainStep
  PROVE  Simulates
<1>1. CASE MainPost
  BY <1>1, MainPostSimulates
<1>2. ASSUME UNCHANGED <<pending, item, posted, mposted>>, (UNCHANGED pc) \/ NotifyAll
      PROVE  /\ Running' = Running
             /\ (mpc' \in Joining <=> mpc \in Joining) => Simulates
  <2>1. Running' = Running
    BY <1>2 DEF NotifyAll, Running
  <2> QED
    BY <1>2, <2>1, QuietStep
<1>3. CASE WaitBegin
  BY <1>2, <1>3 DEF WaitBegin, Joining
<1>4. CASE JoinBegin
  BY <1>2, <1>4 DEF JoinBegin, Joining
<1>5. CASE Wait
  <2>1. UNCHANGED <<pending, item, posted, mposted>> /\ ((UNCHANGED pc) \/ NotifyAll)
    BY <1>5 DEF Wait
  <2>2. mpc \notin Joining
    BY <1>5 DEF Wait, Joining
  <2>3. CASE mpc' \notin Joining
    BY <1>2, <2>1, <2>2, <2>3
  <2>4. CASE mpc' \in Joining
    <3>1. WorkDone
      BY <1>5, <2>4 DEF Wait, Joining
    <3>2. Holding = {} /\ NothingPending
      BY <3>1, NoneEmpty DEF IInv, WorkAccounting, WorkDone, Holding
    <3>3. PendingItems = {}
      <4>1. \A p \in Priorities : Len(pending[p]) = 0
        BY <3>2, EmptySeq DEF NothingPending
      <4>2. \A k : k \notin 1 .. 0
        BY SMT
      <4> QED
        BY <4>1, <4>2 DEF PendingItems, Priorities
    <3>4. Running = {}
      BY <3>2, PoolAssumption DEF IInv, RunsAnItem, Running, Holding
    <3>5. ActiveItems = {}
      BY <3>4 DEF ActiveItems
    <3>6. PendingItems' = {} /\ ActiveItems' = {}
      BY <1>2, <2>1, <3>3, <3>4 DEF PendingItems, ActiveItems
    <3>7. History'
      BY <1>2, <2>1, HistoryKept
    <3> QED
      BY <2>2, <2>4, <3>3, <3>5, <3>6, <3>7, ContractJoined DEF Simulates
  <2> QED
    BY <2>3, <2>4
<1>6. CASE Join
  BY <1>2, <1>6 DEF Join, Joining
<1> QED
  BY <1>1, <1>3, <1>4, <1>5, <1>6 DEF MainStep

\* A thread without an item finds the other threads with less items than
\* there are threads.
LEMMA ThreadFree ==
  ASSUME NEW w \in Thread, w \notin Running
  PROVE  Cardinality(ActiveItems) < Cardinality(Thread)
<1>1. IsFiniteSet(Running) /\ Running # Thread /\ Running \in SUBSET Thread
  BY ThreadSets DEF Running
<1>2. /\ Cardinality(Running) <= Cardinality(Thread)
      /\ Cardinality(Thread) # Cardinality(Running)
  BY <1>1, PoolAssumption, FS_Subset
<1>3. PICK f : f = [v \in Running |-> item[v]]
  OBVIOUS
<1>4. f \in Surjection(Running, ActiveItems)
  BY <1>3 DEF Surjection, ActiveItems
<1>5. IsFiniteSet(ActiveItems) /\ Cardinality(ActiveItems) <= Cardinality(Running)
  BY <1>1, <1>4, FS_Surjection
<1>6. /\ Cardinality(ActiveItems) \in Nat /\ Cardinality(Running) \in Nat
      /\ Cardinality(Thread) \in Nat
  BY <1>1, <1>5, PoolAssumption, FS_CardinalityType
<1> QED
  BY <1>2, <1>5, <1>6, SMT

\* A thread takes the first item of the highest priority, or none.
LEMMA FetchSimulates ==
  ASSUME IInv, History, NEW w \in Thread, Fetch(w)
  PROVE  Simulates
<1>1. w \notin Running /\ UNCHANGED <<posted, mposted>>
  BY DEF Fetch, Running
<1>2. mpc' \in Joining <=> mpc \in Joining
  BY DEF Fetch, NotifyDone, Joining
<1>3. ASSUME NEW p \in Priorities, HasPriority(p),
             item' = [item EXCEPT ![w] = Head(pending[p])],
             pending' = [pending EXCEPT ![p] = Tail(@)],
             pc' = [pc EXCEPT ![w] = "run"]
      PROVE  Simulates
  <2>1. PICK i : i = Head(pending[p])
    OBVIOUS
  <2>2. pending[p] # <<>> /\ TypeOK
    BY <1>3 DEF HasPriority, IInv
  <2>3. /\ History' /\ i \in PendingItems /\ Priority[i] = p
        /\ PendingItems' = PendingItems \ {i} /\ ActiveItems' = ActiveItems \cup {i}
    BY <1>1, <1>3, <2>1, <2>2, HistoryStarted
  <2>4. \A j \in PendingItems : Priority[j] <= Priority[i]
    <3>1. ASSUME NEW j \in PendingItems, NEW q \in Priorities, q = Priority[j], q > p
          PROVE  FALSE
      <4>1. pending[q] = <<>>
        BY <1>3, <3>1 DEF HasPriority
      <4>2. Len(pending[q]) = 0
        BY <4>1, EmptySeq
      <4>3. \A k : k \notin 1 .. 0
        BY SMT
      <4> QED
        BY <3>1, <4>2, <4>3 DEF PendingItems
    <3>2. \A q \in Priorities : q \in Int
      BY PoolAssumption DEF Priorities
    <3>3. \A q \in Priorities : ~(q > p) => q <= p
      BY <3>2, SMT
    <3>4. \A j \in PendingItems : Priority[j] \in Priorities
      BY DEF PendingItems, Priorities
    <3> QED
      BY <2>3, <3>1, <3>3, <3>4
  <2>5. Cardinality(ActiveItems) < Cardinality(Thread)
    BY <1>1, ThreadFree
  <2>6. i \in Item
    BY <2>3 DEF PendingItems
  <2> QED
    BY <1>2, <2>3, <2>4, <2>5, <2>6, ContractStart DEF Simulates
<1>4. ASSUME pc' = [pc EXCEPT ![w] = IF shutdown THEN "stop" ELSE "asleep"],
             UNCHANGED <<item, pending>>
      PROVE  Simulates
  <2>1. Running' = Running
    BY <1>1, <1>4 DEF IInv, TypeOK, Running
  <2> QED
    BY <1>1, <1>2, <1>4, <2>1, QuietStep
<1> QED
  BY <1>3, <1>4 DEF Fetch, WaitForWork

\* A thread that runs an item no longer does: the item has ended.
LEMMA EndSimulates ==
  ASSUME IInv, History, NEW w \in Thread, pc[w] = "run",
         Running' = Running \ {w}, \A v \in Running \ {w} : item'[v] = item[v],
         \A v \in Running \ {w} : posted'[v] = posted[v],
         UNCHANGED <<pending, mposted>>, mpc' \in Joining <=> mpc \in Joining
  PROVE  Simulates
<1>1. PICK i \in Item : i = item[w] /\ w \in Running
  BY DEF IInv, RunsAnItem, Running
<1>2. \A v \in Running : item[v] = i => v = w
  BY <1>1 DEF History, InOnePlace
<1>3. ActiveItems' = ActiveItems \ {i} /\ i \in ActiveItems
  BY <1>1, <1>2 DEF ActiveItems
<1>4. PendingItems' = PendingItems
  BY DEF PendingItems
<1>5. History'
  BY HistoryKept
<1> QED
  BY <1>1, <1>3, <1>4, <1>5, ContractEnd DEF Simulates

LEMMA ThreadSimulates ==
  ASSUME IInv, History, NEW w \in Thread, ThreadStep(w)
  PROVE  Simulates
<1>1. CASE Fetch(w)
  BY <1>1, FetchSimulates
<1>2. CASE ItemPost(w)
  BY <1>2, ItemPostSimulates
<1>3. CASE ItemEnds(w)
  <2>1. pc[w] = "run" /\ Running' = Running \ {w} /\ UNCHANGED <<pending, mposted, mpc>>
    BY <1>3 DEF IInv, TypeOK, ItemEnds, Running
  <2>2. \A v \in Running \ {w} : item'[v] = item[v]
    BY <1>3 DEF IInv, TypeOK, ItemEnds, Running
  <2>3. \A v \in Running \ {w} : posted'[v] = posted[v]
    BY <1>3 DEF IInv, TypeOK, ItemEnds, Running
  <2> QED
    BY <2>1, <2>2, <2>3, EndSimulates
<1>4. ASSUME NotRunning(w) PROVE mpc' \in Joining <=> mpc \in Joining
  BY <1>4 DEF NotRunning, Joining
<1>5. CASE Stop(w)
  <2>1. Running' = Running /\ UNCHANGED <<pending, item, posted, mposted>>
    BY <1>5 DEF IInv, TypeOK, Stop, NotRunning, Running
  <2> QED
    BY <1>4, <1>5, <2>1, QuietStep DEF Stop
<1>6. CASE ItemThrows(w)
  <2>1. pc[w] = "run" /\ Running' = Running \ {w}
    BY <1>6 DEF IInv, TypeOK, ItemThrows, NotRunning, Running
  <2> QED
    BY <1>4, <1>6, <2>1, EndSimulates DEF ItemThrows
<1> QED
  BY <1>1, <1>2, <1>3, <1>5, <1>6 DEF ThreadStep

LEMMA NextSimulates == IInv /\ History /\ [Next]_vars => Simulates
<1> SUFFICES ASSUME IInv, History, [Next]_vars PROVE Simulates
  OBVIOUS
<1>1. CASE MainStep
  BY <1>1, MainSimulates
<1>2. ASSUME NEW w \in Thread, ThreadStep(w) PROVE Simulates
  BY <1>2, ThreadSimulates
<1>3. CASE UNCHANGED vars
  <2>1. Running' = Running /\ UNCHANGED <<pending, item, posted, mposted, mpc>>
    BY <1>3 DEF vars, Running
  <2> QED
    BY <2>1, QuietStep
<1> QED
  BY <1>1, <1>2, <1>3 DEF Next

LEMMA InitSimulates == Init => History /\ Contract!Init
<1> SUFFICES ASSUME Init PROVE History /\ Contract!Init
  OBVIOUS
<1>1. \A k : k \notin 1 .. 0
  BY SMT
<1>2. \A p \in Priorities : pending[p] = <<>> /\ Len(pending[p]) = 0
  BY EmptySeq DEF Init
<1>3. PendingItems = {}
  BY <1>1, <1>2 DEF PendingItems, Priorities
<1>4. Running = {} /\ ActiveItems = {}
  BY DEF Init, Running, ActiveItems
<1>5. Sorted /\ InOnePlace
  BY <1>1, <1>2, <1>4 DEF Sorted, InOnePlace
<1>6. NotYetPosted(Item)
  <2>1. \A k \in 1 .. Len(MainPosts) : MainPosts[k] \in Item
    BY PoolAssumption, ElementOfSeq
  <2>2. \A i \in Item : \A k \in 1 .. Len(ItemPosts[i]) : ItemPosts[i][k] \in Item
    BY PoolAssumption, ElementOfSeq
  <2> QED
    BY <1>3, <1>4, <2>1, <2>2 DEF NotYetPosted
<1>7. mpc \notin Joining
  BY DEF Init, Joining
<1>8. History
  BY <1>5, <1>6 DEF History
<1>9. Contract!Init
  BY <1>3, <1>4, <1>7, SMT DEF Contract!Init
<1> QED
  BY <1>8, <1>9

\* Seen from outside, the pool with its queues, its mutex and its condition
\* variables is the abstract one: every item is started once and in the order
\* of the priorities, at most one by each thread, and join waits for them all.
THEOREM PoolImplementsContract == Spec => PoolContract
<1>1. Init => History /\ Contract!Init
  BY InitSimulates
<1>2. IInv /\ History /\ [Next]_vars => History' /\ [Contract!Next]_Contract!vars
  BY NextSimulates DEF Simulates
<1> QED
  BY <1>1, <1>2, AlwaysIInv, PTL DEF Spec, PoolContract, Contract!Spec
=============================================================================

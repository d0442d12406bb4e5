------------------------- MODULE RedexContextProofs -------------------------
(***************************************************************************)
(* Proofs, for every number of threads and whatever they call, that the    *)
(* storage below make_string is never shared and equal strings are one     *)
(* string; that RedexContext uses this storage as StringStorage specifies, *)
(* also from within mutate_method; and that one class is kept for a type.  *)
(***************************************************************************)
EXTENDS RedexContext, SequenceTheorems, TLAPS

\* First-order steps go to Zenon; a step about numbers or updated functions
\* names SMT.
USE Zenon

Owning  == {"allocate", "allocated", "release", "give"}
Storing == {"allocated", "release", "give", "insert"}

\* What a thread has at each place of make_string.
Phases ==
  \A t \in Thread :
    /\ spc[t] # "idle" => want[t] \in Str
    /\ spc[t] \notin {"idle", "get"} => index[t] \in Slot
    /\ held[t] # None <=> spc[t] \in Owning
    /\ storage[t] # None <=> spc[t] \in Storing

\* Storage that was given out lies below the free storage of its container,
\* but for the one whose thread has still to move that mark.
BelowUsed ==
  /\ \A t \in Thread :
       /\ spc[t] = "allocated" => storage[t] = <<held[t], used[held[t]]>>
       /\ spc[t] \in Storing \ {"allocated"} => storage[t][2] < used[storage[t][1]]
  /\ \A s \in Str : strings[s] # None => strings[s][2] < used[strings[s][1]]

\* What was returned for a string is in the set, where it stays.
ReturnedStays ==
  \A p \in returned : p[1] \in Str /\ strings[p[1]] = p[2] /\ p[2] # None

StringInv ==
  /\ StringTypeOK
  /\ Phases
  /\ ContainerOwnedOnce
  /\ BelowUsed
  /\ StorageDisjoint
  /\ ReturnedStays
-----------------------------------------------------------------------------
LEMMA NextIndexType ==
  ASSUME NEW a \in Nat
  PROVE  (a % n_slots) + 1 \in Slot /\ (a + 1) % n_slots \in 0 .. n_slots - 1
BY StorageAssumption, SMT DEF Slot

LEMMA StringInvInit == StringInit => StringInv
<1> SUFFICES ASSUME StringInit PROVE StringInv
  OBVIOUS
<1> USE StorageAssumption DEF StringInit
<1>1. StringTypeOK
  BY SMT DEF StringTypeOK, Slot, Container
<1>2. Phases
  BY DEF Phases, Owning, Storing
<1>3. ContainerOwnedOnce
  BY SMT DEF ContainerOwnedOnce, Container
<1>4. BelowUsed /\ StorageDisjoint /\ ReturnedStays
  BY DEF BelowUsed, StorageDisjoint, ReturnedStays, Storing
<1> QED
  BY <1>1, <1>2, <1>3, <1>4 DEF StringInv

\* The caller of make_string.
LEMMA MakeStringStep ==
  ASSUME StringInv, NEW t \in Thread, NEW s \in Str, MakeString(t, s)
  PROVE  StringInv'
<1> USE DEF MakeString, Goto, StringInv
<1>1. StringTypeOK'
  BY DEF StringTypeOK
<1>2. Phases'
  BY DEF Phases, StringTypeOK, Owning, Storing
<1>3. ContainerOwnedOnce' /\ StorageDisjoint' /\ ReturnedStays'
  BY SMT DEF ContainerOwnedOnce, StorageDisjoint, ReturnedStays
<1>4. BelowUsed'
  BY DEF BelowUsed, StringTypeOK, Storing
<1> QED
  BY <1>1, <1>2, <1>3, <1>4

LEMMA GetStep ==
  ASSUME StringInv, NEW t \in Thread, Get(t)
  PROVE  StringInv'
<1> USE DEF Get, Goto, StringInv
<1>0. want[t] \in Str /\ spc[t] = "get"
  BY DEF Phases
<1>1. CASE strings[want[t]] # None
  <2>1. StringTypeOK'
    BY <1>1 DEF StringTypeOK, ReturnString
  <2>2. Phases'
    BY <1>1 DEF Phases, StringTypeOK, Owning, Storing, ReturnString
  <2>3. ContainerOwnedOnce' /\ StorageDisjoint'
    BY SMT DEF ContainerOwnedOnce, StorageDisjoint
  <2>4. BelowUsed'
    BY <1>1 DEF BelowUsed, StringTypeOK, Storing, ReturnString
  <2>5. ReturnedStays'
    BY <1>0, <1>1, SMT DEF ReturnedStays, ReturnString
  <2> QED
    BY <2>1, <2>2, <2>3, <2>4, <2>5
<1>2. CASE strings[want[t]] = None
  <2>1. StringTypeOK' /\ index'[t] \in Slot
    <3>1. CASE index[t] = 0
      <4>1. next_index \in Nat
        BY StorageAssumption, SMT DEF StringTypeOK
      <4>2. (next_index % n_slots) + 1 \in Slot /\ (next_index + 1) % n_slots \in 0 .. n_slots - 1
        BY <4>1, NextIndexType
      <4>3. index' = [index EXCEPT ![t] = (next_index % n_slots) + 1]
            /\ next_index' = (next_index + 1) % n_slots
        BY <1>2, <3>1 DEF NextIndex
      <4>4. index' \in [Thread -> 0 .. n_slots] /\ index'[t] \in Slot
        BY <4>2, <4>3, StorageAssumption, SMT DEF StringTypeOK, Slot
      <4> QED
        BY <1>2, <4>2, <4>3, <4>4 DEF StringTypeOK
    <3>2. CASE index[t] # 0
      <4>1. index[t] \in 0 .. n_slots
        BY DEF StringTypeOK
      <4>2. index[t] \in Slot
        BY <3>2, <4>1, StorageAssumption, SMT DEF Slot
      <4>3. index' = index /\ next_index' = next_index
        BY <1>2, <3>2
      <4> QED
        BY <1>2, <4>2, <4>3 DEF StringTypeOK
    <3> QED
      BY <3>1, <3>2
  <2>2. Phases'
    <3>1. \A u \in Thread \ {t} : index'[u] = index[u]
      BY <1>2 DEF NextIndex, StringTypeOK
    <3> QED
      BY <1>2, <2>1, <3>1, SMT DEF Phases, StringTypeOK, Owning, Storing
  <2>3. ContainerOwnedOnce' /\ StorageDisjoint' /\ ReturnedStays'
    BY <1>2, SMT DEF ContainerOwnedOnce, StorageDisjoint, ReturnedStays
  <2>4. BelowUsed'
    BY <1>2 DEF BelowUsed, StringTypeOK, Storing
  <2> QED
    BY <2>1, <2>2, <2>3, <2>4
<1> QED
  BY <1>1, <1>2

LEMMA ExchangeStep ==
  ASSUME StringInv, NEW t \in Thread, Exchange(t)
  PROVE  StringInv'
<1> USE StorageAssumption DEF Exchange, Goto, StringInv
<1>0. index[t] \in Slot /\ held[t] = None
  BY DEF Phases, Owning
<1>1. StringTypeOK'
  BY <1>0 DEF StringTypeOK
<1>2. Phases'
  BY <1>0 DEF Phases, StringTypeOK, Owning, Storing
<1>3. ContainerOwnedOnce'
  BY <1>0, SMT DEF ContainerOwnedOnce, StringTypeOK
<1>4. BelowUsed'
  BY DEF BelowUsed, StringTypeOK, Storing
<1>5. StorageDisjoint' /\ ReturnedStays'
  BY DEF StorageDisjoint, ReturnedStays
<1> QED
  BY <1>1, <1>2, <1>3, <1>4, <1>5

LEMMA TakePooledStep ==
  ASSUME StringInv, NEW t \in Thread, TakePooled(t)
  PROVE  StringInv'
<1> USE StorageAssumption DEF TakePooled, Goto, StringInv
<1>0. held[t] = None
  BY DEF Phases, Owning
<1>1. StringTypeOK'
  BY DEF StringTypeOK
<1>2. Phases'
  BY <1>0, SMT DEF Phases, StringTypeOK, Owning, Storing
<1>3. ContainerOwnedOnce'
  BY <1>0, SMT DEF ContainerOwnedOnce, StringTypeOK
<1>4. BelowUsed'
  BY DEF BelowUsed, StringTypeOK, Storing
<1>5. StorageDisjoint' /\ ReturnedStays'
  BY DEF StorageDisjoint, ReturnedStays
<1> QED
  BY <1>1, <1>2, <1>3, <1>4, <1>5

LEMMA CreateStep ==
  ASSUME StringInv, NEW t \in Thread, Create(t)
  PROVE  StringInv'
<1> USE StorageAssumption DEF Create, Goto, StringInv
<1>0. held[t] = None /\ created + 1 \in Container /\ created \in Nat
  <2>1. held[t] = None
    BY DEF Phases, Owning
  <2>2. created \in 0 .. max_containers /\ created < max_containers
    BY DEF MayCreate, StringTypeOK
  <2> QED
    BY <2>1, <2>2, SMT DEF Container
<1>1. StringTypeOK'
  BY <1>0, SMT DEF StringTypeOK, Container
<1>2. Phases'
  BY <1>0 DEF Phases, StringTypeOK, Owning, Storing
<1>3. ContainerOwnedOnce'
  <2>1. \A c \in Container : c <= created + 1 <=> c <= created \/ c = created + 1
    BY <1>0, SMT DEF Container
  <2>2. ~(created + 1 <= created)
    BY <1>0, SMT
  <2>3. /\ \A i \in Slot : slots[i] # created + 1
        /\ \A u \in Thread : held[u] # created + 1
    BY <1>0, <2>2 DEF ContainerOwnedOnce
  <2> QED
    BY <1>0, <2>1, <2>3, SMT DEF ContainerOwnedOnce, StringTypeOK
<1>4. BelowUsed'
  BY DEF BelowUsed, StringTypeOK, Storing
<1>5. StorageDisjoint' /\ ReturnedStays'
  BY DEF StorageDisjoint, ReturnedStays
<1> QED
  BY <1>1, <1>2, <1>3, <1>4, <1>5

LEMMA SpinStep ==
  ASSUME StringInv, NEW t \in Thread, Spin(t)
  PROVE  StringInv'
<1> USE DEF Spin, Goto, StringInv
<1>0. /\ index' = [index EXCEPT ![t] = (next_index % n_slots) + 1]
      /\ next_index' = (next_index + 1) % n_slots
      /\ (next_index % n_slots) + 1 \in Slot
      /\ next_index' \in 0 .. n_slots - 1
  <2>1. next_index \in Nat
    BY StorageAssumption, SMT DEF StringTypeOK
  <2> QED
    BY <2>1, NextIndexType DEF NextIndex
<1>1. StringTypeOK' /\ index'[t] \in Slot
  <2>1. index' \in [Thread -> 0 .. n_slots] /\ index'[t] \in Slot
    BY <1>0, StorageAssumption, SMT DEF StringTypeOK, Slot
  <2> QED
    BY <1>0, <2>1 DEF StringTypeOK
<1>2. Phases'
  <2>1. \A u \in Thread \ {t} : index'[u] = index[u]
    BY <1>0 DEF StringTypeOK
  <2> QED
    BY <1>1, <2>1 DEF Phases, StringTypeOK, Owning, Storing
<1>3. BelowUsed'
  BY DEF BelowUsed, StringTypeOK, Storing
<1>4. ContainerOwnedOnce' /\ StorageDisjoint' /\ ReturnedStays'
  BY SMT DEF ContainerOwnedOnce, StorageDisjoint, ReturnedStays
<1> QED
  BY <1>1, <1>2, <1>3, <1>4

\* The new storage is the free storage of a container that nobody else holds.
LEMMA AllocateStep ==
  ASSUME StringInv, NEW t \in Thread, Allocate(t)
  PROVE  StringInv'
<1> USE StorageAssumption DEF Allocate, Goto, StringInv
<1> DEFINE c == held[t]
           a == <<c, used[c]>>
<1>0. c \in Container /\ a \in Address /\ storage[t] = None /\ used[c] \in Nat
  BY DEF Phases, Owning, Storing, StringTypeOK, Address
<1>1. StringTypeOK'
  BY <1>0 DEF StringTypeOK
<1>2. Phases'
  BY <1>0 DEF Phases, StringTypeOK, Owning, Storing
<1>3. BelowUsed'
  BY <1>0 DEF BelowUsed, StringTypeOK, Storing
<1>4. StorageDisjoint'
  <2>1. ASSUME NEW u \in Thread, u # t, storage[u] # None PROVE storage[u] # a
    <3>1. CASE spc[u] = "allocated"
      <4>1. storage[u] = <<held[u], used[held[u]]>> /\ held[u] # None
        BY <3>1 DEF BelowUsed, Phases, Owning
      <4>2. held[u] # c
        BY <1>0, <2>1, <4>1 DEF ContainerOwnedOnce
      <4> QED
        BY <4>1, <4>2, SMT
    <3>2. CASE spc[u] # "allocated"
      <4>1. storage[u][2] < used[storage[u][1]]
        BY <2>1, <3>2 DEF BelowUsed, Phases
      <4>2. CASE storage[u] = a
        BY <1>0, <4>1, <4>2, SMT
      <4> QED
        BY <4>2
    <3> QED
      BY <3>1, <3>2
  <2>2. ASSUME NEW s \in Str, strings[s] # None PROVE strings[s] # a
    <3>1. strings[s][2] < used[strings[s][1]]
      BY <2>2 DEF BelowUsed
    <3>2. CASE strings[s] = a
      BY <1>0, <3>1, <3>2, SMT
    <3> QED
      BY <3>2
  <2>3. storage' = [storage EXCEPT ![t] = a] /\ strings' = strings
    OBVIOUS
  <2> HIDE DEF a
  <2> QED
    BY <1>0, <2>1, <2>2, <2>3, SMT DEF StorageDisjoint, StringTypeOK
<1>5. ContainerOwnedOnce' /\ ReturnedStays'
  BY DEF ContainerOwnedOnce, ReturnedStays
<1> QED
  BY <1>1, <1>2, <1>3, <1>4, <1>5

\* The mark moves up, by the only thread that holds the container.
LEMMA AllocatedStep ==
  ASSUME StringInv, NEW t \in Thread, Allocated(t)
  PROVE  StringInv'
<1> USE StorageAssumption DEF Allocated, Goto, StringInv
<1> DEFINE c == held[t]
<1>0. c \in Container /\ used[c] \in Nat /\ storage[t] = <<c, used[c]>>
  BY DEF Phases, Owning, StringTypeOK, BelowUsed
<1>1. used' = [used EXCEPT ![c] = used[c] + 1]
  BY <1>0, SMT
<1>2. StringTypeOK'
  BY <1>0, <1>1, SMT DEF StringTypeOK
<1>3. Phases'
  BY DEF Phases, StringTypeOK, Owning, Storing
<1>4. \A d \in Container : used'[d] \in Nat /\ used[d] <= used'[d] /\ (d # c => used'[d] = used[d])
  BY <1>0, <1>1, SMT DEF StringTypeOK
<1>5. BelowUsed'
  <2>1. ASSUME NEW x \in Address, x[2] < used[x[1]] PROVE x[2] < used'[x[1]]
    <3>1. x[1] \in Container /\ x[2] \in Nat /\ used[x[1]] \in Nat
      BY <2>1 DEF Address, StringTypeOK
    <3>2. used'[x[1]] \in Nat /\ used[x[1]] <= used'[x[1]]
      BY <1>4, <3>1
    <3> QED
      BY <2>1, <3>1, <3>2, SMT
  <2>2. ASSUME NEW s \in Str, strings[s] # None
        PROVE  strings[s][2] < used'[strings[s][1]]
    <3>1. strings[s] \in Address /\ strings[s][2] < used[strings[s][1]]
      BY <2>2 DEF StringTypeOK, BelowUsed
    <3> QED
      BY <2>1, <3>1
  <2>3. ASSUME NEW u \in Thread, u # t, spc[u] \in Storing \ {"allocated"}
        PROVE  storage[u][2] < used'[storage[u][1]]
    <3>1. storage[u] \in Address /\ storage[u][2] < used[storage[u][1]]
      BY <2>3 DEF StringTypeOK, BelowUsed, Phases
    <3> QED
      BY <2>1, <3>1
  <2>4. storage[t][2] < used'[storage[t][1]]
    BY <1>0, <1>1, SMT DEF StringTypeOK
  <2>5. ASSUME NEW u \in Thread, u # t, spc[u] = "allocated"
        PROVE  storage[u] = <<held[u], used'[held[u]]>>
    <3>1. storage[u] = <<held[u], used[held[u]]>> /\ held[u] # None
      BY <2>5 DEF BelowUsed, Phases, Owning
    <3>2. held[u] # c /\ held[u] \in Container
      BY <1>0, <2>5, <3>1 DEF ContainerOwnedOnce, StringTypeOK
    <3> QED
      BY <1>4, <3>1, <3>2
  <2>6. /\ spc'[t] = "release"
        /\ \A u \in Thread \ {t} : spc'[u] = spc[u]
    BY DEF StringTypeOK
  <2>7. storage' = storage /\ strings' = strings /\ held' = held
    OBVIOUS
  <2> QED
    BY <2>2, <2>3, <2>4, <2>5, <2>6, <2>7 DEF BelowUsed, Storing
<1>6. ContainerOwnedOnce' /\ StorageDisjoint' /\ ReturnedStays'
  BY SMT DEF ContainerOwnedOnce, StorageDisjoint, ReturnedStays
<1> QED
  BY <1>2, <1>3, <1>5, <1>6

\* The thread's container and the one in its slot change places.
LEMMA ReleaseStep ==
  ASSUME StringInv, NEW t \in Thread, Release(t)
  PROVE  StringInv'
<1> USE StorageAssumption DEF Release, Goto, StringInv
<1>0. index[t] \in Slot /\ held[t] # None /\ held[t] \in Container
  BY DEF Phases, Owning, StringTypeOK
<1>1. StringTypeOK'
  BY <1>0 DEF StringTypeOK
<1>2. Phases'
  BY <1>0 DEF Phases, StringTypeOK, Owning, Storing
<1>3. ContainerOwnedOnce'
  BY <1>0, SMT DEF ContainerOwnedOnce, StringTypeOK
<1>4. BelowUsed'
  BY DEF BelowUsed, StringTypeOK, Storing
<1>5. StorageDisjoint' /\ ReturnedStays'
  BY DEF StorageDisjoint, ReturnedStays
<1> QED
  BY <1>1, <1>2, <1>3, <1>4, <1>5

LEMMA GiveToPoolStep ==
  ASSUME StringInv, NEW t \in Thread, GiveToPool(t)
  PROVE  StringInv'
<1> USE StorageAssumption DEF GiveToPool, Goto, StringInv
<1>0. held[t] # None /\ held[t] \in Container
  BY DEF Phases, Owning, StringTypeOK
<1>1. StringTypeOK'
  BY <1>0 DEF StringTypeOK
<1>2. Phases'
  BY <1>0 DEF Phases, StringTypeOK, Owning, Storing
<1>3. ContainerOwnedOnce'
  BY <1>0 DEF ContainerOwnedOnce, StringTypeOK
<1>4. BelowUsed'
  BY DEF BelowUsed, StringTypeOK, Storing
<1>5. StorageDisjoint' /\ ReturnedStays'
  BY DEF StorageDisjoint, ReturnedStays
<1> QED
  BY <1>1, <1>2, <1>3, <1>4, <1>5

\* The string is the one in the set, or the storage goes there.
LEMMA InsertStep ==
  ASSUME StringInv, NEW t \in Thread, Insert(t)
  PROVE  StringInv'
<1> USE StorageAssumption DEF Insert, Goto, ReturnString, StringInv
<1> DEFINE w == want[t]
<1>0. /\ w \in Str
      /\ held[t] = None
      /\ storage[t] \in Address
      /\ storage[t][2] < used[storage[t][1]]
      /\ Stored(t) \in Address
  BY DEF Phases, Owning, Storing, StringTypeOK, BelowUsed, Stored
<1>1. StringTypeOK'
  BY <1>0 DEF StringTypeOK
<1>2. Phases'
  BY <1>0 DEF Phases, StringTypeOK, Owning, Storing
<1>3. ContainerOwnedOnce'
  BY DEF ContainerOwnedOnce
<1>4. BelowUsed'
  BY <1>0 DEF BelowUsed, StringTypeOK, Storing, Stored
<1>5. StorageDisjoint'
  BY <1>0, SMT DEF StorageDisjoint, StringTypeOK, Stored
<1>6. ReturnedStays'
  <2>1. \A p \in returned : strings'[p[1]] = strings[p[1]]
    BY <1>0 DEF ReturnedStays, Stored, StringTypeOK
  <2>2. strings'[w] = Stored(t) /\ Stored(t) # None
    BY <1>0 DEF StringTypeOK
  <2> QED
    BY <1>0, <2>1, <2>2, SMT DEF ReturnedStays
<1> QED
  BY <1>1, <1>2, <1>3, <1>4, <1>5, <1>6
-----------------------------------------------------------------------------
LEMMA StringInvNext == StringInv /\ [StringNext]_stringVars => StringInv'
<1> SUFFICES ASSUME StringInv, [StringNext]_stringVars PROVE StringInv'
  OBVIOUS
<1>1. ASSUME NEW t \in Thread, StringStep(t) PROVE StringInv'
  BY <1>1, GetStep, ExchangeStep, TakePooledStep, CreateStep, SpinStep, AllocateStep,
     AllocatedStep, ReleaseStep, GiveToPoolStep, InsertStep DEF StringStep
<1>2. CASE UNCHANGED stringVars
  <2>1. StringTypeOK' /\ Phases'
    BY <1>2 DEF stringVars, StringInv, StringTypeOK, Phases
  <2>2. ContainerOwnedOnce'
    BY <1>2 DEF stringVars, StringInv, ContainerOwnedOnce
  <2>3. BelowUsed' /\ StorageDisjoint' /\ ReturnedStays'
    BY <1>2 DEF stringVars, StringInv, BelowUsed, StorageDisjoint, ReturnedStays
  <2> QED
    BY <2>1, <2>2, <2>3 DEF StringInv
<1> QED
  BY <1>1, <1>2, MakeStringStep DEF StringNext

\* The inductive invariant of ConcurrentStringStorage: which container is
\* where, how much of it is used, and what each call of make_string holds.
THEOREM StringsInvariant == StringSpec => []StringInv
BY StringInvInit, StringInvNext, PTL DEF StringSpec

\* For every number of threads, slots and containers: a container is in one
\* place, storage belongs to one string, and equal strings are one DexString
\* (RedexContext.cpp, make_string and ConcurrentStringStorage).
THEOREM StringsAreSafe ==
  StringSpec => [](ContainerOwnedOnce /\ StorageDisjoint /\ SameString)
<1>1. StringInv => ContainerOwnedOnce /\ StorageDisjoint /\ SameString
  BY DEF StringInv, ReturnedStays, SameString
<1> QED
  BY <1>1, StringsInvariant, PTL
-----------------------------------------------------------------------------
(***************************************************************************)
(* The tables of RedexContext.                                             *)
(***************************************************************************)
n_first == Len(setup.methods)

Label == {"idle", "string", "insert", "erase", "respec", "collide", "rename", "renamed",
          "assert", "fail", "emplace", "publish", "published", "external"}

Classes == Type \X Nat \X Thread \X {"dex", "jar"}

\* Types; a method that a call names was there from the start and has a spec.
ContextTypes ==
  /\ setup \in Setup
  /\ calls \in [Thread -> Seq(Call(n_first))]
  /\ pc \in [Thread -> Label]
  /\ try \in [Thread -> Seq(Str)]
  /\ spec \in [Method -> Spec0 \cup {None}]
  /\ self \in [Type -> Classes \cup {None}]
  /\ classes \subseteq Classes
  /\ externals \in Seq(Classes)
  /\ loads \in [Type -> SUBSET (Thread \X {"duplicate", "thrown", "published"})]
  /\ \A m \in 1 .. n_first : spec[m] \in Spec0
  /\ \A t \in Thread : Calls(t, "mutate_method") /\ pc[t] \in {"rename", "renamed"}
                         => try[t] # <<>>

\* A thread is between the steps of publish_class.
Published(t) == Calls(t, "create_class") /\ pc[t] = "published"
Adding(t)    == Calls(t, "create_class") /\ pc[t] = "external"

PublishedIsSelf == \A t \in Thread : Published(t) \/ Adding(t) => self[Op(t).type] = Class(t)
ClassIsSelf == \A c \in classes : self[c[1]] = c
LoadsLeaveClass == \A y \in Type : loads[y] # {} => self[y] # None

\* A class that a type points to is in m_classes, or its loader is about to
\* insert it.
SelfIsKept ==
  \A y \in Type : self[y] # None =>
    \/ self[y] \in classes
    \/ \E t \in Thread : Published(t) /\ Op(t).type = y

ClassInv == PublishedIsSelf /\ ClassIsSelf /\ LoadsLeaveClass /\ SelfIsKept

Listed(c) == \E i \in 1 .. Len(externals) : externals[i] = c

\* What is in m_external_classes is an external class of m_classes, once; who
\* is about to add its class has not done so yet, and nobody else will.
ListedAreKept == \A i \in 1 .. Len(externals) : externals[i] \in classes /\ externals[i][4] = "jar"
ListedOnce == \A i, j \in 1 .. Len(externals) : externals[i] = externals[j] => i = j
NotListedYet == \A t \in Thread : Published(t) \/ Adding(t) => ~Listed(Class(t))
AddsExternal == \A t \in Thread : Adding(t) => Class(t) \in classes /\ Op(t).from = "jar"
ExternalsListed ==
  \A c \in classes : c[4] = "jar" => Listed(c) \/ \E t \in Thread : Adding(t) /\ Class(t) = c

ExternalInv == ListedAreKept /\ ListedOnce /\ NotListedYet /\ AddsExternal /\ ExternalsListed

ContextInv == ContextTypes /\ ClassInv /\ ExternalInv
-----------------------------------------------------------------------------
\* What a call carries.
LEMMA CallFields ==
  ASSUME NEW n, NEW c \in Call(n)
  PROVE  /\ c.op = "make_string" => c.str \in Str
         /\ c.op = "mutate_method" => c.method \in 1 .. n /\ c.spec \in Spec0
         /\ c.op = "create_class" => c.type \in Type /\ c.file \in Nat /\ c.from \in {"dex", "jar"}
BY DEF Call

LEMMA FirstMethods ==
  ASSUME ContextTypes
  PROVE  /\ n_first \in Nat
         /\ 1 .. n_first \subseteq Method
<1>1. setup.methods \in Seq(Spec0) /\ Len(setup.methods) <= MaxMethod
  BY ContextAssumption DEF ContextTypes
<1>2. n_first \in Nat /\ n_first <= MaxMethod /\ MaxMethod \in Nat
  BY <1>1, ContextAssumption, LenProperties DEF n_first
<1> QED
  BY <1>2, SMT DEF Method

LEMMA OpFields ==
  ASSUME ContextTypes, NEW t \in Thread, calls[t] # <<>>
  PROVE  /\ Op(t) \in Call(n_first)
         /\ Tail(calls[t]) \in Seq(Call(n_first))
         /\ Op(t).op = "make_string" => Op(t).str \in Str
         /\ Op(t).op = "mutate_method" =>
              Op(t).method \in 1 .. n_first /\ Op(t).spec \in Spec0
         /\ Op(t).op = "create_class" =>
              Class(t) \in Classes /\ Class(t)[1] = Op(t).type /\ Op(t).type \in Type
<1>1. calls[t] \in Seq(Call(n_first))
  BY DEF ContextTypes
<1>2. Op(t) \in Call(n_first) /\ Tail(calls[t]) \in Seq(Call(n_first))
  BY <1>1, HeadTailProperties DEF Op
<1>3. Op(t).op = "create_class" => Class(t) \in Classes /\ Class(t)[1] = Op(t).type
                                   /\ Op(t).type \in Type
  BY <1>2, CallFields DEF Class, Classes
<1> QED
  BY <1>2, <1>3, CallFields

\* A step on s_method_map leaves the calls where they are, or is the return of
\* the call on the map; strings and classes it does not touch.
LEMMA OnMapIs ==
  ASSUME NEW t, OnMap(t)
  PROVE  /\ UNCHANGED stringVars
         /\ UNCHANGED classVars
         /\ setup' = setup
         /\ UNCHANGED callVars \/ \E ok, n : MapReturns(t, ok, n)
BY DEF OnMap

\* What the return of a call on the map does to the variables that are typed
\* here: the call goes on, or it ends.
GoesOn(t) == \E l \in Label : Becomes(t, l) /\ calls' = calls /\ (l = "rename" => try[t] # <<>>)

LEMMA MapReturnsIs ==
  ASSUME NEW t, NEW ok, NEW n, MapReturns(t, ok, n)
  PROVE  /\ UNCHANGED <<try, spec>>
         /\ calls[t] # <<>>
         /\ ~Calls(t, "create_class")
         /\ GoesOn(t) \/ Ends(t)
<1> USE DEF Makes, Erases, Mutates, Calls, GoesOn, Label
<1>1. CASE MakeLoad(t, ok, n) \/ TryInsert(t, n)
  BY <1>1 DEF MakeLoad, TryInsert, Returns
<1>2. CASE EraseMethod(t) \/ MutateErase(t)
  BY <1>2 DEF EraseMethod, MutateErase
<1>3. CASE Collide(t, ok)
  BY <1>3 DEF Collide, MutateThrows
<1>4. CASE AssertFree(t, ok)
  BY <1>4 DEF AssertFree
<1>5. CASE AssertFails(t, ok)
  BY <1>5 DEF AssertFails, MutateThrows
<1>6. CASE MutateEmplace(t)
  BY <1>6 DEF MutateEmplace
<1> QED
  BY <1>1, <1>2, <1>3, <1>4, <1>5, <1>6 DEF MapReturns

\* The steps that neither load classes nor touch them.
Apart(t) ==
  \/ CallMakeString(t)
  \/ StringMade(t)
  \/ InMakeString(t)
  \/ CallMap(t)
  \/ OnMap(t)
  \/ Mutate(t)

Loading(t) == ClassAlreadyLoaded(t) \/ PublishClass(t) \/ InsertClass(t) \/ InsertExternal(t)

LEMMA StepCases ==
  ASSUME NEW t, Step(t)
  PROVE  Apart(t) \/ Loading(t)
BY DEF Step, Apart, Loading

\* A step of t leaves the calls of the other threads where they are, and the
\* call of t too, unless it ends.
OwnCallOnly(t) ==
  /\ \A u \in Thread \ {t} : calls'[u] = calls[u] /\ pc'[u] = pc[u]
  /\ calls'[t] = calls[t] \/ pc'[t] = "idle"

LEMMA StepIsLocal ==
  ASSUME ContextTypes, NEW t \in Thread, Step(t)
  PROVE  OwnCallOnly(t)
<1>0. ASSUME Ends(t) \/ UNCHANGED <<calls, pc>> PROVE OwnCallOnly(t)
  BY <1>0 DEF Ends, Becomes, OwnCallOnly, ContextTypes
<1>1. ASSUME NEW l, Becomes(t, l), calls' = calls PROVE OwnCallOnly(t)
  BY <1>1 DEF Becomes, OwnCallOnly, ContextTypes
<1>2. CASE CallMakeString(t) \/ StringMade(t) \/ InMakeString(t) \/ CallMap(t)
  BY <1>0, <1>1, <1>2 DEF CallMakeString, StringMade, InMakeString, CallMap, callVars
<1>3. CASE OnMap(t)
  <2>1. CASE UNCHANGED callVars
    BY <1>0, <2>1 DEF callVars
  <2>2. ASSUME NEW ok, NEW n, MapReturns(t, ok, n) PROVE OwnCallOnly(t)
    BY <1>0, <1>1, <2>2, MapReturnsIs DEF GoesOn
  <2> QED
    BY <1>3, <2>1, <2>2, OnMapIs
<1>4. CASE Mutate(t)
  BY <1>1, <1>4 DEF Mutate, MutateLock, Respec, Rename, Renamed
<1>5. CASE Loading(t)
  BY <1>0, <1>1, <1>5 DEF Loading, ClassAlreadyLoaded, PublishClass, InsertClass,
                          InsertExternal, Loaded
<1> QED
  BY <1>2, <1>3, <1>4, <1>5, StepCases DEF Apart

LEMMA ContextInvInit == ContextInit => ContextInv
<1> SUFFICES ASSUME ContextInit PROVE ContextInv
  OBVIOUS
<1>1. /\ setup \in Setup
      /\ setup.methods \in Seq(Spec0)
      /\ n_first <= MaxMethod
      /\ setup.calls \in [Thread -> Seq(Call(n_first))]
      /\ MaxMethod \in Nat
  BY ContextAssumption DEF ContextInit, n_first
<1>2. n_first \in Nat /\ \A m \in 1 .. n_first : setup.methods[m] \in Spec0
  BY <1>1, LenProperties, ElementOfSeq DEF n_first
<1>3. 1 .. n_first \subseteq Method
  BY <1>1, <1>2, SMT DEF Method
<1>4. spec \in [Method -> Spec0 \cup {None}] /\ \A m \in 1 .. n_first : spec[m] = setup.methods[m]
  <2>1. spec = [m \in Method |-> IF m <= n_first THEN setup.methods[m] ELSE None]
    BY DEF ContextInit, n_first
  <2>2. \A m \in Method : m <= n_first <=> m \in 1 .. n_first
    BY <1>1, <1>2, SMT DEF Method
  <2> QED
    BY <1>2, <1>3, <2>1, <2>2
<1>5. ContextTypes
  <2>1. calls \in [Thread -> Seq(Call(n_first))] /\ pc \in [Thread -> Label]
        /\ try \in [Thread -> Seq(Str)] /\ \A t \in Thread : pc[t] = "idle"
    BY <1>1, SMT DEF ContextInit, Label
  <2>2. /\ self \in [Type -> Classes \cup {None}]
        /\ classes \subseteq Classes
        /\ loads \in [Type -> SUBSET (Thread \X {"duplicate", "thrown", "published"})]
    BY DEF ContextInit
  <2>3. externals \in Seq(Classes)
    BY SMT DEF ContextInit
  <2> QED
    BY <1>1, <1>2, <1>4, <2>1, <2>2, <2>3 DEF ContextTypes
<1>6. ClassInv
  BY DEF ContextInit, ClassInv, PublishedIsSelf, ClassIsSelf, LoadsLeaveClass, SelfIsKept,
         Published, Adding
<1>7. ExternalInv
  <2>1. 1 .. Len(externals) = {}
    BY SMT DEF ContextInit
  <2>2. \A t \in Thread : ~Adding(t) /\ ~Published(t)
    BY DEF ContextInit, Adding, Published
  <2>3. classes = {}
    BY DEF ContextInit
  <2> QED
    BY <2>1, <2>2, <2>3 DEF ExternalInv, ListedAreKept, ListedOnce, NotListedYet, AddsExternal,
                            ExternalsListed
<1> QED
  BY <1>5, <1>6, <1>7 DEF ContextInv

LEMMA StepCalls ==
  ASSUME ContextTypes, NEW t \in Thread, Step(t)
  PROVE  /\ setup' = setup
         /\ calls' \in [Thread -> Seq(Call(n_first))]
         /\ pc' \in [Thread -> Label]
<1> DEFINE Goal == calls' \in [Thread -> Seq(Call(n_first))] /\ pc' \in [Thread -> Label]
<1>1. ASSUME calls[t] # <<>>, Ends(t) PROVE Goal
  <2>1. Tail(calls[t]) \in Seq(Call(n_first))
    BY <1>1, OpFields
  <2> QED
    BY <1>1, <2>1 DEF Ends, Becomes, ContextTypes, Label
<1>2. ASSUME NEW l \in Label, Becomes(t, l), calls' = calls PROVE Goal
  BY <1>2 DEF Becomes, ContextTypes
<1>3. ASSUME UNCHANGED <<calls, pc>> PROVE Goal
  BY <1>3 DEF ContextTypes
<1>4. CASE CallMakeString(t) \/ StringMade(t) \/ InMakeString(t) \/ CallMap(t)
  BY <1>1, <1>2, <1>3, <1>4 DEF CallMakeString, StringMade, InMakeString, CallMap, callVars,
                                Calls, Label
<1>5. CASE OnMap(t)
  <2>1. CASE UNCHANGED callVars
    BY <1>3, <1>5, <2>1, OnMapIs DEF callVars
  <2>2. ASSUME NEW ok, NEW n, MapReturns(t, ok, n) PROVE Goal
    BY <1>1, <1>2, <2>2, MapReturnsIs DEF GoesOn
  <2> QED
    BY <1>5, <2>1, <2>2, OnMapIs
<1>6. CASE Mutate(t)
  BY <1>2, <1>6 DEF Mutate, MutateLock, Respec, Rename, Renamed, Label
<1>7. CASE Loading(t)
  BY <1>1, <1>2, <1>7 DEF Loading, ClassAlreadyLoaded, PublishClass, InsertClass,
                          InsertExternal, Loaded, Loads, Calls, Label
<1> QED
  BY <1>4, <1>5, <1>6, <1>7, StepCases DEF Apart

\* The spec of a method changes in mutate_method only.
LEMMA MethodTypes ==
  ASSUME ContextTypes, NEW t \in Thread, Step(t)
  PROVE  /\ spec' \in [Method -> Spec0 \cup {None}]
         /\ \A m \in 1 .. n_first : spec'[m] \in Spec0
<1> DEFINE Goal == /\ spec' \in [Method -> Spec0 \cup {None}]
                   /\ \A m \in 1 .. n_first : spec'[m] \in Spec0
<1>1. ASSUME spec' = spec PROVE Goal
  BY <1>1 DEF ContextTypes
<1>2. ASSUME NEW m, NEW k \in Spec0, spec' = [spec EXCEPT ![m] = k] PROVE Goal
  <2>1. \A j \in Method : spec'[j] = IF j = m THEN k ELSE spec[j]
    BY <1>2 DEF ContextTypes
  <2> QED
    BY <1>2, <2>1, FirstMethods DEF ContextTypes
<1>3. CASE CallMakeString(t) \/ StringMade(t) \/ InMakeString(t) \/ CallMap(t)
  BY <1>1, <1>3 DEF CallMakeString, StringMade, InMakeString, CallMap, callVars
<1>4. CASE OnMap(t)
  BY <1>1, <1>4, OnMapIs, MapReturnsIs DEF callVars
<1>5. CASE MutateLock(t) \/ Rename(t)
  BY <1>1, <1>5 DEF MutateLock, Rename
<1>6. CASE Respec(t)
  <2>1. Op(t).spec \in Spec0
    BY <1>6, OpFields DEF Respec, Mutates, Calls
  <2> QED
    BY <1>2, <1>6, <2>1 DEF Respec
<1>7. CASE Renamed(t)
  <2>1. Op(t).method \in 1 .. n_first /\ try[t] \in Seq(Str) /\ try[t] # <<>>
    BY <1>7, OpFields DEF Renamed, Mutates, In, Calls, ContextTypes
  <2>2. spec[Op(t).method] \in Spec0 /\ Head(try[t]) \in Str
    BY <2>1, HeadTailProperties DEF ContextTypes
  <2>3. <<spec[Op(t).method][1], Head(try[t])>> \in Spec0
    BY <2>2, ContextAssumption
  <2> QED
    BY <1>2, <1>7, <2>3 DEF Renamed
<1>8. CASE Loading(t)
  BY <1>1, <1>8 DEF Loading, ClassAlreadyLoaded, PublishClass, InsertClass, InsertExternal
<1> QED
  BY <1>3, <1>4, <1>5, <1>6, <1>7, <1>8, StepCases DEF Apart, Mutate

\* A step outside publish_class and the tests before it leaves the classes alone.
LEMMA ApartFrame ==
  ASSUME NEW t, Apart(t)
  PROVE  /\ UNCHANGED classVars
         /\ ~Calls(t, "create_class") \/ UNCHANGED <<calls, pc>>
<1>1. CASE CallMakeString(t) \/ StringMade(t)
  BY <1>1 DEF CallMakeString, StringMade, Calls
<1>2. CASE InMakeString(t) \/ CallMap(t)
  BY <1>2 DEF InMakeString, CallMap, callVars
<1>3. CASE OnMap(t)
  BY <1>3, OnMapIs, MapReturnsIs DEF callVars
<1>4. CASE Mutate(t)
  BY <1>4 DEF Mutate, MutateLock, Respec, Rename, Renamed, Mutates, Calls
<1> QED
  BY <1>1, <1>2, <1>3, <1>4 DEF Apart

LEMMA ClassTypes ==
  ASSUME ContextTypes, NEW t \in Thread, Step(t)
  PROVE  /\ self' \in [Type -> Classes \cup {None}]
         /\ classes' \subseteq Classes
         /\ externals' \in Seq(Classes)
         /\ loads' \in [Type -> SUBSET (Thread \X {"duplicate", "thrown", "published"})]
<1>1. CASE Apart(t)
  BY <1>1, ApartFrame DEF classVars, ContextTypes
<1>2. CASE Loading(t)
  <2>1. Class(t) \in Classes /\ Op(t).type \in Type
    BY <1>2, OpFields DEF Loading, ClassAlreadyLoaded, PublishClass, InsertClass,
                          InsertExternal, Loads, Calls
  <2>2. ASSUME NEW how \in {"duplicate", "thrown", "published"}, Loaded(t, how)
        PROVE  loads' \in [Type -> SUBSET (Thread \X {"duplicate", "thrown", "published"})]
    BY <2>1, <2>2, SMT DEF Loaded, ContextTypes
  <2>3. CASE ClassAlreadyLoaded(t)
    BY <2>2, <2>3 DEF ClassAlreadyLoaded, ContextTypes
  <2>4. CASE PublishClass(t)
    BY <2>1, <2>2, <2>4 DEF PublishClass, ContextTypes
  <2>5. CASE InsertClass(t)
    BY <2>1, <2>2, <2>5 DEF InsertClass, ContextTypes
  <2>6. CASE InsertExternal(t)
    <3>1. externals' \in Seq(Classes)
      BY <2>1, <2>6, AppendProperties DEF InsertExternal, ContextTypes
    <3> QED
      BY <2>2, <2>6, <3>1 DEF InsertExternal, ContextTypes
  <2> QED
    BY <1>2, <2>3, <2>4, <2>5, <2>6 DEF Loading
<1> QED
  BY <1>1, <1>2, StepCases

\* The names that are left to try.
LEMMA TryTypes ==
  ASSUME ContextTypes, NEW t \in Thread, Step(t)
  PROVE  /\ try' \in [Thread -> Seq(Str)]
         /\ \A u \in Thread : (Calls(u, "mutate_method") /\ pc[u] \in {"rename", "renamed"}
                               => try[u] # <<>>)'
<1> DEFINE Goal ==
             /\ try' \in [Thread -> Seq(Str)]
             /\ \A u \in Thread : (Calls(u, "mutate_method") /\ pc[u] \in {"rename", "renamed"}
                                   => try[u] # <<>>)'
<1>0. OwnCallOnly(t) /\ pc' \in [Thread -> Label]
  BY StepIsLocal, StepCalls
<1>1. ASSUME try' = try, pc'[t] \in {"rename", "renamed"} => try[t] # <<>> PROVE Goal
  BY <1>0, <1>1 DEF ContextTypes, OwnCallOnly, Calls, Op
<1>2. ASSUME NEW q \in Seq(Str), try' = [try EXCEPT ![t] = q], pc'[t] = "collide" PROVE Goal
  BY <1>0, <1>2 DEF ContextTypes, OwnCallOnly, Calls, Op
<1>3. ASSUME UNCHANGED <<calls, pc, try>> PROVE Goal
  BY <1>3 DEF ContextTypes, Calls, Op
<1> USE DEF Becomes, Ends, ContextTypes
<1>4. CASE CallMakeString(t) \/ StringMade(t)
  BY <1>1, <1>4 DEF CallMakeString, StringMade
<1>5. CASE InMakeString(t) \/ CallMap(t)
  BY <1>3, <1>5 DEF InMakeString, CallMap, callVars
<1>6. CASE OnMap(t)
  <2>1. CASE UNCHANGED callVars
    BY <1>3, <2>1 DEF callVars
  <2>2. ASSUME NEW ok, NEW n, MapReturns(t, ok, n) PROVE Goal
    <3>1. try' = try /\ (GoesOn(t) \/ Ends(t))
      BY <2>2, MapReturnsIs
    <3>2. CASE Ends(t)
      BY <1>1, <3>1, <3>2
    <3>3. CASE GoesOn(t)
      <4>1. pc'[t] # "renamed"
        BY <2>2 DEF MapReturns, MakeLoad, TryInsert, EraseMethod, MutateErase, Collide,
                    AssertFree, AssertFails, MutateEmplace, Returns, MutateThrows
      <4> QED
        BY <1>1, <3>1, <3>3, <4>1 DEF GoesOn
    <3> QED
      BY <3>1, <3>2, <3>3
  <2> QED
    BY <1>6, <2>1, <2>2, OnMapIs
<1>7. CASE Loading(t)
  BY <1>1, <1>7 DEF Loading, ClassAlreadyLoaded, PublishClass, InsertClass, InsertExternal,
                    Loaded
<1>8. CASE MutateLock(t) \/ Rename(t)
  BY <1>1, <1>8 DEF MutateLock, Rename, Mutates, In
<1>9. CASE Respec(t)
  <2>1. Op(t).method \in 1 .. n_first /\ Op(t).spec \in Spec0
    BY <1>9, OpFields DEF Respec, Mutates, Calls
  <2>2. spec[Op(t).method] \in Spec0
    BY <2>1
  <2>3. /\ Numbered(Op(t).spec[2]) \in Seq(Str)
        /\ Parts(spec[Op(t).method][2], spec[Op(t).method][1]) \in Seq(Str)
    BY <2>1, <2>2, ContextAssumption
  <2>4. pc'[t] = "collide"
    BY <1>9 DEF Respec
  <2>5. \E q \in Seq(Str) : try' = [try EXCEPT ![t] = q]
    BY <1>9, <2>3 DEF Respec
  <2> QED
    BY <1>2, <2>4, <2>5
<1>10. CASE Renamed(t)
  <2>1. Tail(try[t]) \in Seq(Str)
    BY <1>10, HeadTailProperties DEF Renamed, Mutates, In
  <2>2. pc'[t] = "collide" /\ try' = [try EXCEPT ![t] = Tail(try[t])]
    BY <1>10 DEF Renamed
  <2> QED
    BY <1>2, <2>1, <2>2
<1> QED
  BY <1>4, <1>5, <1>6, <1>7, <1>8, <1>9, <1>10, StepCases DEF Apart, Mutate

LEMMA ContextTypesStep ==
  ASSUME ContextTypes, NEW t \in Thread, Step(t)
  PROVE  ContextTypes'
<1>1. n_first' = n_first /\ setup' \in Setup
  BY StepCalls DEF n_first, ContextTypes
<1> QED
  BY <1>1, StepCalls, MethodTypes, ClassTypes, TryTypes DEF ContextTypes
-----------------------------------------------------------------------------
\* Steps outside publish_class and the tests before it keep what is known of
\* the classes.
LEMMA ClassFrame ==
  ASSUME ContextTypes, ClassInv, ExternalInv, NEW t \in Thread, Step(t), Apart(t)
  PROVE  ClassInv' /\ ExternalInv'
<1>0. /\ UNCHANGED <<self, classes, externals, loads>>
      /\ ~Calls(t, "create_class") \/ UNCHANGED <<calls, pc>>
  BY ApartFrame DEF classVars
<1>1. OwnCallOnly(t)
  BY StepIsLocal
<1>2. \A u \in Thread : (Published(u)' <=> Published(u)) /\ (Adding(u)' <=> Adding(u))
  BY <1>0, <1>1 DEF OwnCallOnly, Published, Adding, Calls, Op
<1>3. \A u \in Thread : Published(u) \/ Adding(u) => Op(u)' = Op(u) /\ Class(u)' = Class(u)
  BY <1>0, <1>1 DEF OwnCallOnly, Published, Adding, Calls, Op, Class
<1>4. PublishedIsSelf'
  BY <1>0, <1>2, <1>3 DEF ClassInv, PublishedIsSelf
<1>5. ClassIsSelf' /\ LoadsLeaveClass'
  BY <1>0 DEF ClassInv, ClassIsSelf, LoadsLeaveClass
<1>6. SelfIsKept'
  BY <1>0, <1>2, <1>3 DEF ClassInv, SelfIsKept
<1>7. ListedAreKept' /\ ListedOnce'
  BY <1>0 DEF ExternalInv, ListedAreKept, ListedOnce
<1>8. NotListedYet' /\ AddsExternal'
  BY <1>0, <1>2, <1>3 DEF ExternalInv, NotListedYet, AddsExternal, Listed
<1>9. ExternalsListed'
  BY <1>0, <1>2, <1>3 DEF ExternalInv, ExternalsListed, Listed
<1> QED
  BY <1>4, <1>5, <1>6, <1>7, <1>8, <1>9 DEF ClassInv, ExternalInv

\* What the steps of a load know of the call.
LEMMA LoadingCall ==
  ASSUME ContextTypes, NEW t \in Thread, Step(t), Loading(t)
  PROVE  /\ Calls(t, "create_class")
         /\ Op(t).type \in Type
         /\ Class(t) \in Classes
         /\ Class(t)[1] = Op(t).type
         /\ Class(t) # None
         /\ \A u \in Thread \ {t} : /\ Published(u)' <=> Published(u)
                                    /\ Adding(u)' <=> Adding(u)
                                    /\ Op(u)' = Op(u)
                                    /\ Class(u)' = Class(u)
         /\ pc[t] \in {"idle", "publish"} => ~Published(t) /\ ~Adding(t)
         /\ pc'[t] \in {"idle", "publish"} => ~Published(t)' /\ ~Adding(t)'
<1>1. Calls(t, "create_class")
  BY DEF Loading, ClassAlreadyLoaded, PublishClass, InsertClass, InsertExternal, Loads
<1>2. OwnCallOnly(t)
  BY StepIsLocal
<1>3. Op(t).type \in Type /\ Class(t) \in Classes /\ Class(t)[1] = Op(t).type /\ Class(t) # None
  BY <1>1, OpFields, ContextAssumption DEF Calls, Classes
<1>4. \A u \in Thread \ {t} : /\ Published(u)' <=> Published(u)
                              /\ Adding(u)' <=> Adding(u)
                              /\ Op(u)' = Op(u)
                              /\ Class(u)' = Class(u)
  BY <1>2 DEF OwnCallOnly, Published, Adding, Calls, Op, Class
<1>5. /\ pc[t] \in {"idle", "publish"} => ~Published(t) /\ ~Adding(t)
      /\ pc'[t] \in {"idle", "publish"} => ~Published(t)' /\ ~Adding(t)'
  BY DEF Published, Adding
<1> QED
  BY <1>1, <1>3, <1>4, <1>5

\* A step that stores no class, of a call that has none stored.
LEMMA StoresNothing ==
  ASSUME ContextTypes, ClassInv, ExternalInv, NEW t \in Thread, Step(t), Loading(t),
         UNCHANGED <<self, classes, externals>>,
         pc[t] \in {"idle", "publish"}, pc'[t] \in {"idle", "publish"}
  PROVE  PublishedIsSelf' /\ ClassIsSelf' /\ SelfIsKept' /\ ExternalInv'
<1>1. ~Published(t) /\ ~Adding(t) /\ ~Published(t)' /\ ~Adding(t)'
  BY LoadingCall
<1>2. \A u \in Thread \ {t} : /\ Published(u)' <=> Published(u)
                              /\ Adding(u)' <=> Adding(u)
                              /\ Op(u)' = Op(u)
                              /\ Class(u)' = Class(u)
  BY LoadingCall
<1>3. PublishedIsSelf' /\ ClassIsSelf'
  BY <1>1, <1>2 DEF ClassInv, PublishedIsSelf, ClassIsSelf
<1>4. SelfIsKept'
  BY <1>1, <1>2 DEF ClassInv, SelfIsKept
<1>5. ListedAreKept' /\ ListedOnce'
  BY DEF ExternalInv, ListedAreKept, ListedOnce
<1>6. NotListedYet' /\ AddsExternal'
  BY <1>1, <1>2 DEF ExternalInv, NotListedYet, AddsExternal, Listed
<1>7. ExternalsListed'
  BY <1>1, <1>2 DEF ExternalInv, ExternalsListed, Listed
<1> QED
  BY <1>3, <1>4, <1>5, <1>6, <1>7 DEF ExternalInv

\* The tests, and a publish_class that comes too late.
LEMMA LoadGivenUp ==
  ASSUME ContextTypes, ClassInv, ExternalInv, NEW t \in Thread, Step(t),
         ClassAlreadyLoaded(t) \/ (PublishClass(t) /\ self[Op(t).type] # None)
  PROVE  ClassInv' /\ ExternalInv'
<1>0. Loading(t)
  BY DEF Loading
<1>1. UNCHANGED <<self, classes, externals>>
      /\ pc[t] \in {"idle", "publish"} /\ pc'[t] \in {"idle", "publish"}
  BY DEF ClassAlreadyLoaded, PublishClass, Loaded, Ends, Becomes, Loads, In, ContextTypes
<1>2. /\ \A y \in Type : y # Op(t).type => loads'[y] = loads[y]
      /\ loads' = loads \/ self[Op(t).type] # None
  BY DEF ClassAlreadyLoaded, PublishClass, Loaded, ContextTypes
<1>3. LoadsLeaveClass'
  BY <1>1, <1>2 DEF ClassInv, LoadsLeaveClass
<1> QED
  BY <1>0, <1>1, <1>3, StoresNothing DEF ClassInv

\* The exchange of m_self that succeeds.
LEMMA SelfStored ==
  ASSUME ContextTypes, ClassInv, ExternalInv, NEW t \in Thread, Step(t),
         PublishClass(t), self[Op(t).type] = None
  PROVE  ClassInv' /\ ExternalInv'
<1> DEFINE y0 == Op(t).type
<1>0. Loading(t)
  BY DEF Loading
<1>1. y0 \in Type /\ Calls(t, "create_class") /\ Class(t)[1] = y0 /\ Class(t) # None
  BY <1>0, LoadingCall
<1>2. \A u \in Thread \ {t} : /\ Published(u)' <=> Published(u)
                              /\ Adding(u)' <=> Adding(u)
                              /\ Op(u)' = Op(u)
                              /\ Class(u)' = Class(u)
  BY <1>0, LoadingCall
<1>3. PublishedIsSelf /\ ClassIsSelf /\ LoadsLeaveClass /\ SelfIsKept
  BY DEF ClassInv
<1>4. /\ self' = [self EXCEPT ![y0] = Class(t)]
      /\ UNCHANGED <<calls, loads, classes, externals>>
      /\ pc'[t] = "published" /\ pc[t] = "publish"
  BY DEF PublishClass, Becomes, Loads, In, ContextTypes
<1>5. /\ Published(t)' /\ ~Adding(t)' /\ Op(t)' = Op(t) /\ Class(t)' = Class(t)
      /\ ~Published(t) /\ ~Adding(t)
  BY <1>1, <1>4 DEF Published, Adding, Calls, Op, Class
<1>6. \A y \in Type : self'[y] = IF y = y0 THEN Class(t) ELSE self[y]
  BY <1>4 DEF ContextTypes
<1>7. \A c \in classes : c[1] \in Type /\ self[c[1]] = c /\ c[1] # y0
  <2>1. \A c \in classes : c[1] \in Type /\ c # None /\ self[c[1]] = c
    BY <1>3, ContextAssumption DEF ClassIsSelf, ContextTypes, Classes
  <2> QED
    BY <2>1
<1>8. PublishedIsSelf'
  <2>1. ASSUME NEW u \in Thread \ {t}, Published(u) \/ Adding(u)
        PROVE  self'[Op(u).type] = Class(u)
    <3>1. self[Op(u).type] = Class(u)
      BY <1>3, <2>1 DEF PublishedIsSelf
    <3>2. Op(u).type \in Type /\ Class(u) \in Classes
      BY <2>1, OpFields DEF Published, Adding, Calls
    <3>3. Class(u) # None
      BY <3>2, ContextAssumption DEF Classes
    <3> QED
      BY <1>6, <3>1, <3>2, <3>3
  <2>2. self'[Op(t)'.type] = Class(t)'
    BY <1>1, <1>5, <1>6
  <2> QED
    BY <1>2, <2>1, <2>2 DEF PublishedIsSelf
<1>9. ClassIsSelf'
  BY <1>4, <1>6, <1>7 DEF ClassIsSelf
<1>10. LoadsLeaveClass'
  BY <1>1, <1>3, <1>4, <1>6 DEF LoadsLeaveClass
<1>11. SelfIsKept'
  <2>1. ASSUME NEW y \in Type, y # y0, self[y] # None
        PROVE  self[y] \in classes \/ \E u \in Thread \ {t} : Published(u) /\ Op(u).type = y
    BY <1>3, <1>5, <2>1 DEF SelfIsKept
  <2>2. ASSUME NEW y \in Type, y # y0, self[y] # None
        PROVE  self'[y] \in classes' \/ \E u \in Thread : Published(u)' /\ Op(u)'.type = y
    <3>1. self'[y] = self[y] /\ classes' = classes
      BY <1>4, <1>6, <2>2
    <3> QED
      BY <1>2, <2>1, <2>2, <3>1
  <2>3. \E u \in Thread : Published(u)' /\ Op(u)'.type = y0
    BY <1>5
  <2> QED
    BY <1>6, <2>2, <2>3 DEF SelfIsKept
<1>12. ListedAreKept' /\ ListedOnce'
  BY <1>4 DEF ExternalInv, ListedAreKept, ListedOnce
<1>13. NotListedYet'
  <2>1. ~Listed(Class(t))
    BY <1>1, <1>7 DEF ExternalInv, ListedAreKept, Listed
  <2> QED
    BY <1>2, <1>4, <1>5, <2>1 DEF ExternalInv, NotListedYet, Listed
<1>14. AddsExternal' /\ ExternalsListed'
  BY <1>2, <1>4, <1>5 DEF ExternalInv, AddsExternal, ExternalsListed, Listed
<1> QED
  BY <1>8, <1>9, <1>10, <1>11, <1>12, <1>13, <1>14 DEF ClassInv, ExternalInv

\* m_classes.insert, after which an external class is still to be listed.
LEMMA ClassStored ==
  ASSUME ContextTypes, ClassInv, ExternalInv, NEW t \in Thread, Step(t), InsertClass(t)
  PROVE  ClassInv' /\ ExternalInv'
<1> DEFINE y0 == Op(t).type
<1>0. Loading(t)
  BY DEF Loading
<1>1. y0 \in Type /\ Calls(t, "create_class") /\ Class(t)[1] = y0 /\ Class(t) # None
  BY <1>0, LoadingCall
<1>2. \A u \in Thread \ {t} : /\ Published(u)' <=> Published(u)
                              /\ Adding(u)' <=> Adding(u)
                              /\ Op(u)' = Op(u)
                              /\ Class(u)' = Class(u)
  BY <1>0, LoadingCall
<1>3. PublishedIsSelf /\ ClassIsSelf /\ LoadsLeaveClass /\ SelfIsKept
  BY DEF ClassInv
<1>4. /\ UNCHANGED <<self, externals>>
      /\ classes' = classes \cup {Class(t)}
      /\ \A y \in Type : y # y0 => loads'[y] = loads[y]
      /\ pc[t] = "published"
  BY DEF InsertClass, Loaded, Loads, In, ContextTypes
<1>5. \/ Op(t).from = "jar" /\ pc'[t] = "external" /\ calls' = calls
      \/ Op(t).from # "jar" /\ pc'[t] = "idle"
  BY DEF InsertClass, Loaded, Ends, Becomes, ContextTypes
<1>6. Published(t) /\ ~Adding(t) /\ ~Published(t)'
  BY <1>1, <1>4, <1>5 DEF Published, Adding
<1>7. \/ Op(t).from = "jar" /\ Adding(t)' /\ Op(t)' = Op(t) /\ Class(t)' = Class(t)
      \/ Op(t).from # "jar" /\ ~Adding(t)'
  BY <1>1, <1>5 DEF Adding, Calls, Op, Class
<1>8. self[y0] = Class(t) /\ ~Listed(Class(t))
  BY <1>3, <1>6 DEF PublishedIsSelf, ExternalInv, NotListedYet
<1>9. PublishedIsSelf'
  BY <1>2, <1>3, <1>4, <1>6, <1>7, <1>8 DEF PublishedIsSelf
<1>10. ClassIsSelf'
  BY <1>1, <1>3, <1>4, <1>8 DEF ClassIsSelf
<1>11. LoadsLeaveClass'
  BY <1>1, <1>3, <1>4, <1>8 DEF LoadsLeaveClass
<1>12. SelfIsKept'
  <2>1. ASSUME NEW y \in Type, y # y0, self[y] # None
        PROVE  self[y] \in classes \/ \E u \in Thread \ {t} : Published(u) /\ Op(u).type = y
    BY <1>3, <2>1 DEF SelfIsKept
  <2>2. ASSUME NEW y \in Type, y # y0, self[y] # None
        PROVE  self'[y] \in classes' \/ \E u \in Thread : Published(u)' /\ Op(u)'.type = y
    BY <1>2, <1>4, <2>1, <2>2
  <2>3. self'[y0] \in classes'
    BY <1>4, <1>8
  <2> QED
    BY <1>4, <2>2, <2>3 DEF SelfIsKept
<1>13. ListedAreKept' /\ ListedOnce'
  BY <1>4 DEF ExternalInv, ListedAreKept, ListedOnce
<1>14. NotListedYet'
  BY <1>2, <1>4, <1>6, <1>7, <1>8 DEF ExternalInv, NotListedYet, Listed
<1>15. AddsExternal'
  BY <1>2, <1>4, <1>7 DEF ExternalInv, AddsExternal
<1>16. ExternalsListed'
  <2>1. ASSUME NEW c \in classes, c[4] = "jar"
        PROVE  Listed(c)' \/ \E u \in Thread : Adding(u)' /\ Class(u)' = c
    <3>1. Listed(c) \/ \E u \in Thread \ {t} : Adding(u) /\ Class(u) = c
      BY <1>6, <2>1 DEF ExternalInv, ExternalsListed
    <3>2. Listed(c)' <=> Listed(c)
      BY <1>4 DEF Listed
    <3> QED
      BY <1>2, <3>1, <3>2
  <2>2. Class(t)[4] = "jar" => \E u \in Thread : Adding(u)' /\ Class(u)' = Class(t)
    <3>1. Class(t)[4] = Op(t).from
      BY DEF Class
    <3> QED
      BY <1>7, <3>1
  <2> QED
    BY <1>4, <2>1, <2>2 DEF ExternalsListed
<1> QED
  BY <1>9, <1>10, <1>11, <1>12, <1>13, <1>14, <1>15, <1>16 DEF ClassInv, ExternalInv

\* m_external_classes.push_back.
LEMMA ClassListed ==
  ASSUME ContextTypes, ClassInv, ExternalInv, NEW t \in Thread, Step(t), InsertExternal(t)
  PROVE  ClassInv' /\ ExternalInv'
<1> DEFINE y0 == Op(t).type
           n  == Len(externals)
<1>0. Loading(t)
  BY DEF Loading
<1>1. y0 \in Type /\ Calls(t, "create_class") /\ Class(t) \in Classes /\ Class(t) # None
  BY <1>0, LoadingCall
<1>2. \A u \in Thread \ {t} : /\ Published(u)' <=> Published(u)
                              /\ Adding(u)' <=> Adding(u)
                              /\ Op(u)' = Op(u)
                              /\ Class(u)' = Class(u)
                              /\ Class(u) # Class(t)
  <2>1. \A u \in Thread \ {t} : Class(u) # Class(t)
    <3>1. \A u \in Thread : Class(u)[3] = u
      BY DEF Class
    <3> QED
      BY <3>1
  <2> QED
    BY <1>0, <2>1, LoadingCall
<1>3. /\ UNCHANGED <<self, classes>>
      /\ externals' = Append(externals, Class(t))
      /\ \A y \in Type : y # y0 => loads'[y] = loads[y]
      /\ pc[t] = "external" /\ pc'[t] = "idle"
  BY DEF InsertExternal, Loaded, Loads, Ends, Becomes, In, ContextTypes
<1>4. ~Published(t) /\ Adding(t) /\ ~Published(t)' /\ ~Adding(t)'
  BY <1>1, <1>3 DEF Published, Adding
<1>5. self[y0] = Class(t) /\ ~Listed(Class(t)) /\ Class(t) \in classes /\ Op(t).from = "jar"
  BY <1>4 DEF ClassInv, PublishedIsSelf, ExternalInv, NotListedYet, AddsExternal
<1>6. Class(t)[4] = "jar"
  BY <1>5 DEF Class
<1>7. /\ n \in Nat
      /\ Len(externals') = n + 1
      /\ \A i \in 1 .. n : externals'[i] = externals[i]
      /\ externals'[n + 1] = Class(t)
  <2>1. externals \in Seq(Classes)
    BY DEF ContextTypes
  <2> QED
    BY <1>1, <1>3, <2>1, AppendProperties, LenProperties, SMT
<1>8. \A i : i \in 1 .. Len(externals') <=> i \in 1 .. n \/ i = n + 1
  BY <1>7, SMT
<1>9. \A c : Listed(c)' <=> Listed(c) \/ c = Class(t)
  BY <1>7, <1>8 DEF Listed
<1>10. PublishedIsSelf' /\ ClassIsSelf'
  BY <1>2, <1>3, <1>4 DEF ClassInv, PublishedIsSelf, ClassIsSelf
<1>11. LoadsLeaveClass'
  BY <1>1, <1>3, <1>5 DEF ClassInv, LoadsLeaveClass
<1>12. SelfIsKept'
  BY <1>2, <1>3, <1>4 DEF ClassInv, SelfIsKept
<1>13. ListedAreKept'
  <2>1. \A i \in 1 .. n : externals'[i] \in classes' /\ externals'[i][4] = "jar"
    BY <1>3, <1>7 DEF ExternalInv, ListedAreKept
  <2>2. externals'[n + 1] \in classes' /\ externals'[n + 1][4] = "jar"
    BY <1>3, <1>5, <1>6, <1>7
  <2> QED
    BY <1>8, <2>1, <2>2 DEF ListedAreKept
<1>14. ListedOnce'
  <2>1. \A i \in 1 .. n : externals[i] # Class(t)
    BY <1>5 DEF Listed
  <2> QED
    BY <1>7, <1>8, <2>1 DEF ExternalInv, ListedOnce
<1>15. NotListedYet' /\ AddsExternal'
  BY <1>2, <1>3, <1>4, <1>9 DEF ExternalInv, NotListedYet, AddsExternal
<1>16. ExternalsListed'
  BY <1>2, <1>3, <1>9 DEF ExternalInv, ExternalsListed
<1> QED
  BY <1>10, <1>11, <1>12, <1>13, <1>14, <1>15, <1>16 DEF ClassInv, ExternalInv

LEMMA ClassStep ==
  ASSUME ContextTypes, ClassInv, ExternalInv, NEW t \in Thread, Step(t)
  PROVE  ClassInv' /\ ExternalInv'
<1>1. CASE Apart(t)
  BY <1>1, ClassFrame
<1>2. CASE ClassAlreadyLoaded(t) \/ (PublishClass(t) /\ self[Op(t).type] # None)
  BY <1>2, LoadGivenUp
<1>3. CASE PublishClass(t) /\ self[Op(t).type] = None
  BY <1>3, SelfStored
<1>4. CASE InsertClass(t)
  BY <1>4, ClassStored
<1>5. CASE InsertExternal(t)
  BY <1>5, ClassListed
<1> QED
  BY <1>1, <1>2, <1>3, <1>4, <1>5, StepCases DEF Loading

LEMMA ContextInvNext == ContextInv /\ [Next]_allVars => ContextInv'
<1>1. ASSUME ContextInv, NEW t \in Thread, Step(t) PROVE ContextInv'
  BY <1>1, ContextTypesStep, ClassStep DEF ContextInv
<1>2. ASSUME ContextInv, UNCHANGED allVars PROVE ContextInv'
  <2>1. UNCHANGED callVars /\ UNCHANGED classVars
    BY <1>2 DEF allVars
  <2>2. ContextTypes'
    BY <1>2, <2>1 DEF ContextInv, ContextTypes, n_first, Calls, Op, callVars, classVars
  <2>3. ClassInv'
    BY <1>2, <2>1 DEF ContextInv, ClassInv, PublishedIsSelf, ClassIsSelf, LoadsLeaveClass,
                      SelfIsKept, Published, Adding, Calls, Op, Class, callVars, classVars
  <2>4. ExternalInv'
    <3>1. /\ UNCHANGED <<classes, externals>>
          /\ \A t \in Thread : /\ Published(t)' <=> Published(t)
                               /\ Adding(t)' <=> Adding(t)
                               /\ Op(t)' = Op(t)
                               /\ Class(t)' = Class(t)
      BY <2>1 DEF Published, Adding, Calls, Op, Class, callVars, classVars
    <3>2. \A c : Listed(c)' <=> Listed(c)
      BY <3>1 DEF Listed
    <3>3. ListedAreKept' /\ ListedOnce'
      BY <1>2, <3>1 DEF ContextInv, ExternalInv, ListedAreKept, ListedOnce
    <3>4. NotListedYet' /\ AddsExternal' /\ ExternalsListed'
      BY <1>2, <3>1, <3>2 DEF ContextInv, ExternalInv, NotListedYet, AddsExternal,
                              ExternalsListed
    <3> QED
      BY <3>3, <3>4 DEF ExternalInv
  <2> QED
    BY <2>2, <2>3, <2>4 DEF ContextInv
<1> QED
  BY <1>1, <1>2 DEF Next

\* The inductive invariant of the calls of RedexContext and of its classes: what
\* each load in progress knows of the class of its type stays true until it is
\* used.
THEOREM ContextInvariant == ContextSpec => []ContextInv
BY ContextInvInit, ContextInvNext, PTL DEF ContextSpec
-----------------------------------------------------------------------------
\* A step of the context is one of the string storage, or none.
LEMMA StringsOfStep == ContextInv /\ [Next]_allVars => [StringNext]_stringVars
<1>1. ASSUME ContextInv, NEW t \in Thread, Step(t) PROVE [StringNext]_stringVars
  <2>1. CASE CallMakeString(t)
    <3>1. Op(t).str \in Str /\ MakeString(t, Op(t).str)
      BY <1>1, <2>1, OpFields DEF CallMakeString, Calls, ContextInv
    <3> QED
      BY <3>1 DEF StringNext
  <2>2. CASE InMakeString(t)
    BY <2>2 DEF InMakeString, StringNext
  <2>3. CASE Rename(t)
    <3>1. try[t] \in Seq(Str) /\ try[t] # <<>>
      BY <1>1, <2>3 DEF Rename, Mutates, In, ContextInv, ContextTypes
    <3>2. Head(try[t]) \in Str /\ MakeString(t, Head(try[t]))
      BY <2>3, <3>1, HeadTailProperties DEF Rename
    <3> QED
      BY <3>2 DEF StringNext
  <2>4. CASE StringMade(t) \/ CallMap(t) \/ OnMap(t) \/ Loading(t)
    <3>1. UNCHANGED stringVars
      BY <2>4, OnMapIs DEF StringMade, CallMap, Loading, ClassAlreadyLoaded, PublishClass,
                           InsertClass, InsertExternal
    <3> QED
      BY <3>1
  <2>5. CASE MutateLock(t) \/ Respec(t) \/ Renamed(t)
    <3>1. UNCHANGED stringVars
      BY <2>5 DEF MutateLock, Respec, Renamed
    <3> QED
      BY <3>1
  <2> QED
    BY <1>1, <2>1, <2>2, <2>3, <2>4, <2>5, StepCases DEF Apart, Mutate
<1>2. CASE UNCHANGED allVars
  BY <1>2 DEF allVars
<1> QED
  BY <1>1, <1>2 DEF Next

\* Refinement: whatever the threads call, RedexContext uses the string storage
\* as StringSpec allows, also for the names that mutate_method makes while it
\* holds s_method_lock.
THEOREM ContextUsesStorage == ContextSpec => StringSpec
<1>1. ContextInit => StringInit
  BY DEF ContextInit
<1> QED
  BY <1>1, ContextInvariant, StringsOfStep, PTL DEF ContextSpec, StringSpec

\* Hence, under every use the context makes of make_string, the containers of
\* ConcurrentStringStorage are each in one place, storage belongs to one string,
\* and the same characters get the same DexString.
THEOREM ContextStrings == ContextSpec => [](ContainerOwnedOnce /\ StorageDisjoint /\ SameString)
BY ContextUsesStorage, StringsAreSafe, PTL

\* publish_class keeps one class for a type, the one the type points to, however
\* loads of dex files and jars race; the classes of jars are in
\* m_external_classes, once.
THEOREM ContextClasses == ContextSpec => []OneClassPerType
<1>1. ContextInv => OneClassPerType
  <2> SUFFICES ASSUME ContextInv PROVE OneClassPerType
    OBVIOUS
  <2>1. AllDone => \A t \in Thread : ~Published(t) /\ ~Adding(t)
    BY DEF AllDone, Calls, Published, Adding
  <2>2. ASSUME NEW y \in Type
        PROVE  /\ {c \in classes : c[1] = y} \subseteq {self[y]}
               /\ loads[y] # {} => self[y] # None
               /\ AllDone /\ loads[y] # {} => self[y] \in classes
    <3>1. {c \in classes : c[1] = y} \subseteq {self[y]}
      BY DEF ContextInv, ClassInv, ClassIsSelf
    <3>2. loads[y] # {} => self[y] # None
      BY DEF ContextInv, ClassInv, LoadsLeaveClass
    <3>3. AllDone /\ loads[y] # {} => self[y] \in classes
      BY <2>1, <3>2 DEF ContextInv, ClassInv, SelfIsKept
    <3> QED
      BY <3>1, <3>2, <3>3
  <2>3. \A i, j \in 1 .. Len(externals) : externals[i] = externals[j] => i = j
    BY DEF ContextInv, ExternalInv, ListedOnce
  <2>4. AllDone => \A c \in classes :
          c[4] = "jar" <=> \E i \in 1 .. Len(externals) : externals[i] = c
    BY <2>1 DEF ContextInv, ExternalInv, ExternalsListed, ListedAreKept, Listed
  <2> QED
    BY <2>2, <2>3, <2>4 DEF OneClassPerType
<1> QED
  BY <1>1, ContextInvariant, PTL
=============================================================================

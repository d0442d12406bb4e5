--------------------------- MODULE StringStorage ---------------------------
(***************************************************************************)
(* RedexContext::make_string with the ConcurrentStringStorage below it     *)
(* (libredex/RedexContext.cpp and .h).  A thread that has a new string to  *)
(* store borrows a container from a slot, from the pool, or makes one, and *)
(* gives it back to its slot; a container it finds there goes to the pool. *)
(*                                                                         *)
(* A container is a number, storage is a container with an offset counted  *)
(* in strings; the three storages for different lengths, which differ in   *)
(* their sizes only, are one.  The critical sections of pool_lock are      *)
(* single steps, the allocation in a container, which has no lock, is two. *)
(* The string sets are insert-only concurrent sets, whose operations are   *)
(* atomic (ConcurrentHashtable).                                           *)
(***************************************************************************)
EXTENDS Integers, FiniteSets, Sequences

CONSTANTS Thread, Str,
          n_slots,         \* the number of slots
          max_containers,  \* at least n_slots, by the constructor
          None

VARIABLES
  slots,       \* slots[i].container
  pool,        \* the containers in the pool; which one is last is left open
  created,     \* the number of containers made
  next_index,  \* the static next_index of get_context
  index,       \* the thread-local index_plus_1; 0 when not set yet
  used,        \* the offset of the first free storage of each container
  strings,     \* the string sets: the storage of each string, or None
  spc,         \* where each thread is in make_string
  want,        \* the string it wants
  held,        \* the container of its Context
  storage,     \* the storage it has allocated
  result,      \* what make_string returned
  returned     \* history: all the pairs of a string and what was returned

stringVars == <<slots, pool, created, next_index, index, used, strings,
                spc, want, held, storage, result, returned>>

Slot == 1 .. n_slots
Container == 1 .. max_containers
Address == Container \X Nat

ASSUME StorageAssumption ==
  /\ n_slots \in Nat \ {0}
  /\ max_containers \in Nat
  /\ max_containers >= n_slots
  /\ None \notin Container
  /\ None \notin Address

StringInit ==
  /\ slots = [i \in Slot |-> None]
  /\ pool = {}
  /\ created = 0
  /\ next_index = 0
  /\ index = [t \in Thread |-> 0]
  /\ used = [c \in Container |-> 0]
  /\ strings = [s \in Str |-> None]
  /\ spc = [t \in Thread |-> "idle"]
  /\ want = [t \in Thread |-> None]
  /\ held = [t \in Thread |-> None]
  /\ storage = [t \in Thread |-> None]
  /\ result = [t \in Thread |-> None]
  /\ returned = {}

Goto(t, label) == spc' = [spc EXCEPT ![t] = label]

\* The call.
MakeString(t, s) ==
  /\ spc[t] = "idle"
  /\ want' = [want EXCEPT ![t] = s]
  /\ Goto(t, "get")
  /\ UNCHANGED <<slots, pool, created, next_index, index, used, strings,
                 held, storage, result, returned>>

ReturnString(t, r) ==
  /\ result' = [result EXCEPT ![t] = r]
  /\ returned' = returned \cup {<<want[t], r>>}
  /\ Goto(t, "idle")

NextIndex(t) ==
  /\ index' = [index EXCEPT ![t] = (next_index % n_slots) + 1]
  /\ next_index' = (next_index + 1) % n_slots

\* The look-up in the set, and what get_context does before its loop.
Get(t) ==
  /\ spc[t] = "get"
  /\ \/ /\ strings[want[t]] # None
        /\ ReturnString(t, strings[want[t]])
        /\ UNCHANGED <<index, next_index>>
     \/ /\ strings[want[t]] = None
        /\ Goto(t, "exchange")
        /\ IF index[t] = 0 THEN NextIndex(t) ELSE UNCHANGED <<index, next_index>>
        /\ UNCHANGED <<result, returned>>
  /\ UNCHANGED <<slots, pool, created, used, strings, want, held, storage>>

\* Mutant: the slot is read, and not emptied.
Exchange_Load(t) ==
  /\ spc[t] = "exchange"
  /\ held' = [held EXCEPT ![t] = slots[index[t]]]
  /\ Goto(t, IF slots[index[t]] = None THEN "pool" ELSE "allocate")
  /\ UNCHANGED <<slots, pool, created, next_index, index, used, strings, want,
                 storage, result, returned>>

Exchange(t) ==
  /\ spc[t] = "exchange"
  /\ held' = [held EXCEPT ![t] = slots[index[t]]]
  /\ slots' = [slots EXCEPT ![index[t]] = None]
  /\ Goto(t, IF slots[index[t]] = None THEN "pool" ELSE "allocate")
  /\ UNCHANGED <<pool, created, next_index, index, used, strings, want,
                 storage, result, returned>>

\* The three outcomes of the critical section: a container of the pool, a
\* new container, or another slot to try.
TakePooled(t) ==
  /\ spc[t] = "pool"
  /\ \E c \in pool :
       /\ pool' = pool \ {c}
       /\ held' = [held EXCEPT ![t] = c]
  /\ Goto(t, "allocate")
  /\ UNCHANGED <<slots, created, next_index, index, used, strings, want,
                 storage, result, returned>>

MayCreate == created < max_containers

Create(t) ==
  /\ spc[t] = "pool"
  /\ pool = {}
  /\ MayCreate
  /\ created' = created + 1
  /\ held' = [held EXCEPT ![t] = created + 1]
  /\ Goto(t, "allocate")
  /\ UNCHANGED <<slots, pool, next_index, index, used, strings, want,
                 storage, result, returned>>

Spin(t) ==
  /\ spc[t] = "pool"
  /\ pool = {}
  /\ ~MayCreate
  /\ NextIndex(t)
  /\ Goto(t, "exchange")
  /\ UNCHANGED <<slots, pool, created, used, strings, want, held, storage,
                 result, returned>>

\* allocate reads where the free storage begins, and then moves it.
Allocate(t) ==
  /\ spc[t] = "allocate"
  /\ storage' = [storage EXCEPT ![t] = <<held[t], used[held[t]]>>]
  /\ Goto(t, "allocated")
  /\ UNCHANGED <<slots, pool, created, next_index, index, used, strings, want,
                 held, result, returned>>

Allocated(t) ==
  /\ spc[t] = "allocated"
  /\ used' = [used EXCEPT ![held[t]] = storage[t][2] + 1]
  /\ Goto(t, "release")
  /\ UNCHANGED <<slots, pool, created, next_index, index, strings, want, held,
                 storage, result, returned>>

\* ~Context: back to the slot; held is then what was found there.
Release(t) ==
  /\ spc[t] = "release"
  /\ slots' = [slots EXCEPT ![index[t]] = held[t]]
  /\ held' = [held EXCEPT ![t] = slots[index[t]]]
  /\ Goto(t, IF slots[index[t]] = None THEN "insert" ELSE "give")
  /\ UNCHANGED <<pool, created, next_index, index, used, strings, want,
                 storage, result, returned>>

\* Mutant: the container found in the slot is dropped.
GiveToPool_Dropped(t) ==
  /\ spc[t] = "give"
  /\ held' = [held EXCEPT ![t] = None]
  /\ Goto(t, "insert")
  /\ UNCHANGED <<slots, pool, created, next_index, index, used, strings, want,
                 storage, result, returned>>

GiveToPool(t) ==
  /\ spc[t] = "give"
  /\ pool' = pool \cup {held[t]}
  /\ held' = [held EXCEPT ![t] = None]
  /\ Goto(t, "insert")
  /\ UNCHANGED <<slots, created, next_index, index, used, strings, want,
                 storage, result, returned>>

Stored(t) == IF strings[want[t]] = None THEN storage[t] ELSE strings[want[t]]

\* The insertion: when another thread was first, its string is returned and
\* the storage is wasted.
Insert(t) ==
  /\ spc[t] = "insert"
  /\ strings' = [strings EXCEPT ![want[t]] = Stored(t)]
  /\ ReturnString(t, Stored(t))
  /\ storage' = [storage EXCEPT ![t] = None]
  /\ UNCHANGED <<slots, pool, created, next_index, index, used, want, held>>

StringStep(t) ==
  \/ Get(t)
  \/ Exchange(t)
  \/ TakePooled(t)
  \/ Create(t)
  \/ Spin(t)
  \/ Allocate(t)
  \/ Allocated(t)
  \/ Release(t)
  \/ GiveToPool(t)
  \/ Insert(t)

\* The storage by itself, for callers that ask for any strings.
StringNext == \E t \in Thread : StringStep(t) \/ \E s \in Str : MakeString(t, s)
StringSpec == StringInit /\ [][StringNext]_stringVars
-----------------------------------------------------------------------------
StringTypeOK ==
  /\ slots \in [Slot -> Container \cup {None}]
  /\ pool \subseteq Container
  /\ created \in 0 .. max_containers
  /\ next_index \in 0 .. n_slots - 1
  /\ index \in [Thread -> 0 .. n_slots]
  /\ used \in [Container -> Nat]
  /\ spc \in [Thread -> {"idle", "get", "exchange", "pool", "allocate",
                         "allocated", "release", "give", "insert"}]
  /\ strings \in [Str -> Address \cup {None}]
  /\ want \in [Thread -> Str \cup {None}]
  /\ storage \in [Thread -> Address \cup {None}]
  /\ held \in [Thread -> Container \cup {None}]

\* A container is not thread-safe.  Each one that was made is in one slot, or
\* in the pool, or held by one thread: two threads never allocate in the same
\* one, and none is lost, although slots are exchanged without a lock.
ContainerOwnedOnce ==
  /\ \A i, j \in Slot : slots[i] = slots[j] => i = j \/ slots[i] = None
  /\ \A t, u \in Thread : held[t] = held[u] => t = u \/ held[t] = None
  /\ \A i \in Slot, t \in Thread : slots[i] = held[t] => held[t] = None
  /\ \A i \in Slot : slots[i] \notin pool
  /\ \A t \in Thread : held[t] \notin pool
  /\ \A c \in Container :
       c <= created <=> \/ c \in pool
                        \/ \E i \in Slot : slots[i] = c
                        \/ \E t \in Thread : held[t] = c

\* The storage of a string, which its DexString points to for the rest of the
\* program, is given to no other string.
StorageDisjoint ==
  /\ \A t, u \in Thread :
       t # u /\ storage[t] # None => storage[t] # storage[u]
  /\ \A s \in Str, t \in Thread : strings[s] # None => strings[s] # storage[t]
  /\ \A s, r \in Str : s # r /\ strings[s] # None => strings[s] # strings[r]

\* Strings are compared by address: every call for the same characters
\* returns the same DexString, whoever was first.
SameString ==
  \A p, q \in returned : p[1] = q[1] => p[2] = q[2]
=============================================================================

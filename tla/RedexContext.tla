---------------------------- MODULE RedexContext ----------------------------
(***************************************************************************)
(* The global tables of libredex/RedexContext.cpp under concurrent use:    *)
(* interning (make_method; make_type, make_field, make_type_list,          *)
(* make_proto and make_location have the same two steps), the change of a  *)
(* method's spec (mutate_method; mutate_field is alike), erasure, and the  *)
(* publication of loaded classes.  Strings are those of StringStorage,     *)
(* which mutate_method calls for new names while it holds s_method_lock.   *)
(*                                                                         *)
(* s_method_map is an AtomicMap, which calls its hashtable without a lock: *)
(* an operation on it is a call on an instance of ConcurrentHashtable, and *)
(* takes that module's steps.  The keys of different slots have nothing in *)
(* common, so there is one slot.                                           *)
(*                                                                         *)
(* A spec is a pair of a class and a name; prototypes play the same part   *)
(* as names.  The methods that exist at the start are numbers; one that    *)
(* make_method creates is named by the node it is put into.  A thread      *)
(* makes a sequence of calls.                                              *)
(***************************************************************************)
EXTENDS StringStorage

CONSTANTS
  Spec0,        \* specs
  Hash,         \* the hash of each spec
  Setup,        \* records: the calls of each thread, the first methods in
                \* the order of their chain, the size of their table, and
                \* which duplicates of classes are tolerated
  Type,         \* types of classes to load
  MaxMethod,    \* bound: the number of methods at the start
  MaxCalls,     \* bound: the number of calls of a thread
  Constructor,  \* the names <init> and <clinit>
  Numbered(_),  \* the names name$0, name$1, ..., more than are ever taken
  Parts(_, _)   \* the names made from a name and the parts of a class name

Method == 1 .. MaxMethod

\* The calls of threads that start with n methods.
Call(n) ==
  [op : {"make_string"}, str : Str]
    \cup [op : {"make_method"}, spec : Spec0]
    \cup [op : {"erase_method"}, method : 1 .. n]
    \cup [op : {"mutate_method"}, method : 1 .. n, spec : Spec0, rename : BOOLEAN]
    \cup [op : {"create_class"}, type : Type, file : Nat, from : {"dex", "jar"}]

\* A node of s_method_map: its spec, the thread that has made it, and how many
\* calls that thread had still to make.  An entry that was there at the start
\* has no thread.
Node == (Spec0 \X Thread \X (1 .. MaxCalls)) \cup (Spec0 \X {None} \X {0})

First(k) == <<k, None, 0>>

ASSUME ContextAssumption ==
  /\ MaxMethod \in Nat
  /\ None \notin Thread
  /\ None \notin Node
  /\ None \notin Type \X Nat \X Thread \X {"dex", "jar"}
  /\ Hash \in [Spec0 -> Nat]
  /\ \A k \in Spec0 : /\ Numbered(k[2]) \in Seq(Str)
                       /\ Parts(k[2], k[1]) \in Seq(Str)
                       /\ \A s \in Str : <<k[1], s>> \in Spec0
  /\ \A s \in Setup :
       /\ s.size \in Nat \ {0}
       /\ s.methods \in Seq(Spec0)
       /\ Len(s.methods) <= MaxMethod
       /\ \A i \in 1 .. Len(s.methods) : Hash[s.methods[i]] % s.size = 0
       /\ s.calls \in [Thread -> Seq(Call(Len(s.methods)))]
       /\ \A t \in Thread : Len(s.calls[t]) <= MaxCalls

VARIABLES
  setup,     \* the element of Setup
  calls,     \* the calls each thread has still to make
  pc,        \* where each thread is in its call
  try,       \* the names a mutate_method has still to try
  lock,      \* the owner of s_method_lock
  spec,      \* m_spec of each of the first methods
  outcome,   \* history: how the last mutate_method of a method ended
  given,     \* history: the entries whose method make_method has returned
  self,      \* DexType::m_self: the class of a type
  classes,   \* m_classes
  externals, \* m_external_classes
  loads      \* history: the outcomes of the loads of each type

VARIABLES    \* s_method_map: the variables of ConcurrentHashtable, of which
  program,   \* program[t] is the call that thread t makes on the map
  sizes, version, root, prev, count, resizing, erased,
  mpc, call, st, seen, cursor, bucket, chain, new, results

callVars   == <<setup, calls, pc, try, lock, spec, outcome, given>>
classVars  == <<self, classes, externals, loads>>
tableVars  == <<sizes, version, root, prev, count, resizing, erased, mpc, st, seen,
                cursor, bucket, chain, new>>
mapVars    == <<program, call, results, tableVars>>
allVars    == <<stringVars, callVars, classVars, mapVars>>

Chain(s) == [i \in 1 .. Len(s.methods) |-> First(s.methods[i])]
NoCall   == [t \in Thread |-> <<>>]

Map == INSTANCE ConcurrentHashtable WITH
  Null    <- None,
  Key     <- Spec0,
  NodeKey <- [n \in Node |-> n[1]],
  Setups  <- {[size |-> s.size, chain |-> Chain(s), program |-> NoCall] : s \in Setup},
  setup   <- [size |-> setup.size, chain |-> Chain(setup), program |-> program],
  storage <- version,
  pc      <- mpc

ContextInit ==
  /\ StringInit
  /\ setup \in Setup
  /\ calls = setup.calls
  /\ pc = [t \in Thread |-> "idle"]
  /\ try = [t \in Thread |-> <<>>]
  /\ lock = None
  /\ spec = [m \in Method |-> IF m <= Len(setup.methods) THEN setup.methods[m] ELSE None]
  /\ outcome = [m \in Method |-> None]
  /\ given = {}
  /\ self = [y \in Type |-> None]
  /\ classes = {}
  /\ externals = <<>>
  /\ loads = [y \in Type |-> {}]
  /\ program = NoCall
  /\ Map!Init

Op(t) == Head(calls[t])
Calls(t, op) == calls[t] # <<>> /\ Op(t).op = op
In(t, label) == pc[t] = label
Becomes(t, label) == pc' = [pc EXCEPT ![t] = label]

\* The call ends.
Ends(t) ==
  /\ calls' = [calls EXCEPT ![t] = Tail(@)]
  /\ Becomes(t, "idle")
-----------------------------------------------------------------------------
CallMakeString(t) ==
  /\ Calls(t, "make_string")
  /\ In(t, "idle")
  /\ MakeString(t, Op(t).str)
  /\ Becomes(t, "string")
  /\ UNCHANGED <<setup, calls, try, lock, spec, outcome, given, classVars, mapVars>>

StringMade(t) ==
  /\ Calls(t, "make_string")
  /\ In(t, "string")
  /\ spc[t] = "idle"
  /\ Ends(t)
  /\ UNCHANGED <<stringVars, setup, try, lock, spec, outcome, given, classVars, mapVars>>

\* Any thread that is in make_string.
InMakeString(t) == StringStep(t) /\ UNCHANGED <<callVars, classVars, mapVars>>
-----------------------------------------------------------------------------
(***************************************************************************)
(* Calls on s_method_map: count and load are a get, emplace an insertion.  *)
(***************************************************************************)
Makes(t, label)   == Calls(t, "make_method") /\ In(t, label)
Erases(t, label)  == Calls(t, "erase_method") /\ In(t, label)
Mutates(t, label) == Calls(t, "mutate_method") /\ In(t, label)

InMap(t) == call[t] <= Len(program[t])

Begins(t, op, k) ==
  /\ program' = [program EXCEPT ![t] =
       <<[op |-> op, key |-> k,
          node |-> IF op = "insert" THEN <<k, t, Len(calls[t])>> ELSE None]>>]
  /\ call' = [call EXCEPT ![t] = 1]
  /\ results' = [results EXCEPT ![t] = <<>>]

\* The call that a thread makes where it is.
CallMap(t) ==
  /\ ~InMap(t)
  /\ \/ Makes(t, "idle") /\ Begins(t, "get", Op(t).spec)
     \/ Makes(t, "insert") /\ Begins(t, "insert", Op(t).spec)
     \/ Erases(t, "idle") /\ Begins(t, "erase", spec[Op(t).method])
     \/ Mutates(t, "erase") /\ Begins(t, "erase", spec[Op(t).method])
     \/ /\ \E label \in {"collide", "assert", "fail"} : Mutates(t, label)
        /\ Begins(t, "get", spec[Op(t).method])
     \/ Mutates(t, "emplace") /\ Begins(t, "insert", spec[Op(t).method])
  /\ outcome' = IF Calls(t, "erase_method") THEN [outcome EXCEPT ![Op(t).method] = None]
                ELSE outcome
  /\ UNCHANGED <<stringVars, setup, calls, pc, try, lock, spec, given, classVars, tableVars>>
-----------------------------------------------------------------------------
(***************************************************************************)
(* What follows when the call on the map has found, inserted or erased     *)
(* node n (ok), or has not.                                                *)
(*                                                                         *)
(* make_method: a look-up, and an insertion that may find that another     *)
(* thread was first (try_insert).                                          *)
(***************************************************************************)
Returns(t, n) ==
  /\ given' = given \cup {n}
  /\ Ends(t)
  /\ UNCHANGED <<try, lock, spec, outcome>>

MakeLoad(t, ok, n) ==
  /\ Makes(t, "idle")
  /\ \/ ok /\ Returns(t, n)
     \/ ~ok /\ Becomes(t, "insert") /\ UNCHANGED <<calls, try, lock, spec, outcome, given>>

\* Mutant: a thread that was not the first returns the method it has made.
TryInsert_Own(t, n) ==
  /\ Makes(t, "insert")
  /\ Returns(t, <<Op(t).spec, t, Len(calls[t])>>)

TryInsert(t, n) ==
  /\ Makes(t, "insert")
  /\ Returns(t, n)

\* erase_method, which takes no lock.  The alias it also erases is never
\* inserted in this build (kInsertDeobfuscatedNameLinks).
EraseMethod(t) ==
  /\ Erases(t, "idle")
  /\ Ends(t)
  /\ UNCHANGED <<try, lock, spec, outcome, given>>
-----------------------------------------------------------------------------
(***************************************************************************)
(* mutate_method, under s_method_lock.  The calls of make_method and       *)
(* erase_method do not take that lock.                                     *)
(***************************************************************************)
MutateErase(t) ==
  /\ Mutates(t, "erase")
  /\ Becomes(t, "respec")
  /\ UNCHANGED <<calls, try, lock, spec, outcome, given>>

\* Mutant: an exception leaves the lock taken.
MutateThrows_Locked(t) ==
  /\ outcome' = [outcome EXCEPT ![Op(t).method] = "thrown"]
  /\ lock' = lock
  /\ Ends(t)

MutateThrows(t) ==
  /\ outcome' = [outcome EXCEPT ![Op(t).method] = "thrown"]
  /\ lock' = None
  /\ Ends(t)

\* The first test, and the test at the end of each turn of the loops; the
\* loop over the parts of a class name may run out of names.  A constructor
\* is not renamed.
Collide(t, taken) ==
  LET renames == taken /\ Op(t).rename
  IN  /\ Mutates(t, "collide")
      /\ \/ /\ renames
            /\ spec[Op(t).method][2] \in Constructor
            /\ MutateThrows(t)
         \/ /\ ~(renames /\ spec[Op(t).method][2] \in Constructor)
            /\ Becomes(t, IF renames /\ try[t] # <<>> THEN "rename" ELSE "assert")
            /\ UNCHANGED <<calls, lock, outcome>>
      /\ UNCHANGED <<try, spec, given>>

\* The test for a collision, and the same test again in the assertion, whose
\* failure is thrown.
AssertFree(t, taken) ==
  /\ Mutates(t, "assert")
  /\ Becomes(t, IF taken THEN "fail" ELSE "emplace")
  /\ UNCHANGED <<calls, try, lock, spec, outcome, given>>

AssertFails(t, taken) ==
  /\ Mutates(t, "fail")
  /\ \/ taken /\ MutateThrows(t)
     \/ ~taken /\ Becomes(t, "emplace") /\ UNCHANGED <<calls, lock, outcome>>
  /\ UNCHANGED <<try, spec, given>>

\* emplace does nothing when the entry has been made since the test, and its
\* result is not looked at.
MutateEmplace(t) ==
  /\ Mutates(t, "emplace")
  /\ outcome' = [outcome EXCEPT ![Op(t).method] = "changed"]
  /\ lock' = None
  /\ Ends(t)
  /\ UNCHANGED <<try, spec, given>>

MapReturns(t, ok, n) ==
  \/ MakeLoad(t, ok, n)
  \/ TryInsert(t, n)
  \/ EraseMethod(t)
  \/ MutateErase(t)
  \/ Collide(t, ok)
  \/ AssertFree(t, ok)
  \/ AssertFails(t, ok)
  \/ MutateEmplace(t)

\* A step of the call on the map; with the last one its caller goes on.
OnMap(t) ==
  /\ InMap(t)
  /\ UNCHANGED <<stringVars, setup, classVars, program>>
  /\ Map!Step(t)
  /\ IF call'[t] = call[t] THEN UNCHANGED callVars
     ELSE LET c  == program[t][1]
              ok == results'[t][1]
          IN  MapReturns(t, ok, IF c.op = "insert" /\ ok THEN c.node ELSE cursor[t])
-----------------------------------------------------------------------------
\* The steps of mutate_method that are not on the map.  Mutant: the lock is not
\* waited for.
MutateLock_NoWait(t) ==
  /\ Mutates(t, "idle")
  /\ lock' = t
  /\ Becomes(t, "erase")
  /\ outcome' = [outcome EXCEPT ![Op(t).method] = None]
  /\ UNCHANGED <<stringVars, setup, calls, try, spec, given, classVars, mapVars>>

MutateLock(t) ==
  /\ Mutates(t, "idle")
  /\ lock = None
  /\ lock' = t
  /\ Becomes(t, "erase")
  /\ outcome' = [outcome EXCEPT ![Op(t).method] = None]
  /\ UNCHANGED <<stringVars, setup, calls, try, spec, given, classVars, mapVars>>

\* The new spec; the names to try, should it be taken, depend on whether the
\* class changes.
Respec(t) ==
  LET m == Op(t).method
      k == Op(t).spec
  IN  /\ Mutates(t, "respec")
      /\ spec' = [spec EXCEPT ![m] = k]
      /\ try' = [try EXCEPT ![t] = IF k[1] = spec[m][1] THEN Numbered(k[2])
                                   ELSE Parts(spec[m][2], spec[m][1])]
      /\ Becomes(t, "collide")
      /\ UNCHANGED <<stringVars, setup, calls, lock, outcome, given, classVars, mapVars>>

\* make_string of the next name, and its use.
Rename(t) ==
  /\ Mutates(t, "rename")
  /\ MakeString(t, Head(try[t]))
  /\ Becomes(t, "renamed")
  /\ UNCHANGED <<setup, calls, try, lock, spec, outcome, given, classVars, mapVars>>

Renamed(t) ==
  LET m == Op(t).method
  IN  /\ Mutates(t, "renamed")
      /\ spc[t] = "idle"
      /\ spec' = [spec EXCEPT ![m] = <<@[1], Head(try[t])>>]
      /\ try' = [try EXCEPT ![t] = Tail(@)]
      /\ Becomes(t, "collide")
      /\ UNCHANGED <<stringVars, setup, calls, lock, outcome, given, classVars, mapVars>>

Mutate(t) == MutateLock(t) \/ Respec(t) \/ Rename(t) \/ Renamed(t)
-----------------------------------------------------------------------------
(***************************************************************************)
(* Loading: the test for a class of the same type (class_already_loaded,   *)
(* or the one of the jar loader), and publish_class after the class was    *)
(* read.  The classes of a dex are loaded in parallel, those of jars later *)
(* and one at a time; here any loads may meet, as the mutex of             *)
(* publish_class is made for.  A class is <<type, file, thread, kind of    *)
(* file>>; those of a jar are external.                                    *)
(***************************************************************************)
Class(t) == <<Op(t).type, Op(t).file, t, Op(t).from>>

Loads(t, label) == Calls(t, "create_class") /\ In(t, label)

Loaded(t, how) ==
  /\ loads' = [loads EXCEPT ![Op(t).type] = @ \cup {<<t, how>>}]
  /\ Ends(t)

\* A second class is tolerated when the type is a known duplicate; in a dex when
\* it is in the same file or duplicates are allowed, in a jar when it meets
\* another of a jar or is_allowed holds of it.
Benign(t) ==
  LET y == Op(t).type IN
  \/ y \in setup.known_dups
  \/ Op(t).from = "dex" /\ (self[y][2] = Op(t).file \/ setup.allow_class_duplicates)
  \/ Op(t).from = "jar" /\ (self[y][4] = "jar" \/ y \in setup.allowed_in_jar)

ClassAlreadyLoaded(t) ==
  /\ Loads(t, "idle")
  /\ \/ /\ self[Op(t).type] = None
        /\ Becomes(t, "publish")
        /\ UNCHANGED <<calls, loads>>
     \/ /\ self[Op(t).type] # None
        /\ Loaded(t, IF Benign(t) THEN "duplicate" ELSE "thrown")
  /\ UNCHANGED <<stringVars, setup, try, lock, spec, outcome, given, self, classes,
                 externals, mapVars>>

\* Mutant: the class is stored whether or not there is one.
PublishClass_Store(t) ==
  /\ Loads(t, "publish")
  /\ self' = [self EXCEPT ![Op(t).type] = Class(t)]
  /\ Becomes(t, "published")
  /\ UNCHANGED <<stringVars, setup, calls, loads, try, lock, spec, outcome, given,
                 classes, externals, mapVars>>

\* The compare-and-exchange of m_self, whose failure is an assertion's.
PublishClass(t) ==
  /\ Loads(t, "publish")
  /\ \/ /\ self[Op(t).type] = None
        /\ self' = [self EXCEPT ![Op(t).type] = Class(t)]
        /\ Becomes(t, "published")
        /\ UNCHANGED <<calls, loads>>
     \/ /\ self[Op(t).type] # None
        /\ Loaded(t, "thrown")
        /\ UNCHANGED self
  /\ UNCHANGED <<stringVars, setup, try, lock, spec, outcome, given, classes,
                 externals, mapVars>>

\* m_classes.insert.
InsertClass(t) ==
  /\ Loads(t, "published")
  /\ classes' = classes \cup {Class(t)}
  /\ IF Op(t).from = "jar" THEN Becomes(t, "external") /\ UNCHANGED <<calls, loads>>
     ELSE Loaded(t, "published")
  /\ UNCHANGED <<stringVars, setup, try, lock, spec, outcome, given, self, externals,
                 mapVars>>

\* m_external_classes, under its mutex.
InsertExternal(t) ==
  /\ Loads(t, "external")
  /\ externals' = Append(externals, Class(t))
  /\ Loaded(t, "published")
  /\ UNCHANGED <<stringVars, setup, try, lock, spec, outcome, given, self, classes,
                 mapVars>>
-----------------------------------------------------------------------------
Step(t) ==
  \/ CallMakeString(t)
  \/ StringMade(t)
  \/ InMakeString(t)
  \/ CallMap(t)
  \/ OnMap(t)
  \/ Mutate(t)
  \/ ClassAlreadyLoaded(t)
  \/ PublishClass(t)
  \/ InsertClass(t)
  \/ InsertExternal(t)

AllDone == \A t \in Thread : calls[t] = <<>>

Next == (\E t \in Thread : Step(t)) \/ (AllDone /\ UNCHANGED allVars)

ContextSpec == /\ ContextInit
               /\ [][Next]_allVars
               /\ \A t \in Thread : WF_allVars(Step(t))
-----------------------------------------------------------------------------
TypeOK ==
  /\ StringTypeOK
  /\ lock \in Thread \cup {None}
  /\ spec \in [Method -> Spec0 \cup {None}]
  /\ outcome \in [Method -> {None, "changed", "thrown"}]
  /\ given \subseteq Node

\* The call that has made an entry; whether the entry has the m-th of the first
\* methods, or one that make_method has made.
Origin(n) == LET made == setup.calls[n[2]] IN made[Len(made) + 1 - n[3]]

HasMethod(n, m) ==
  IF n[2] = None THEN n[1] = setup.methods[m]
  ELSE Origin(n).op = "mutate_method" /\ Origin(n).method = m

HasNew(n) == n[2] # None /\ Origin(n).op = "make_method"

\* Whether an erasure has taken the entry out of the map.
Erased(n) ==
  \/ \E i \in 1 .. Len(erased) : erased[i] = n
  \/ \E t \in Thread : mpc[t] = "uncount" /\ cursor[t] = n

\* "This insertion may fail if another thread has already inserted that key.
\* In that case, return the existing value" (the comment on try_insert): the
\* entry whose method make_method has returned for a spec is the only one that
\* the map has for it, until it is erased.  Methods are compared by address.
OneMethodPerSpec ==
  \A n \in given : Erased(n) \/ Map!Holding(n[1]) = {n}

\* Strings and methods are compared by address: every call for the same
\* characters returns the same DexString, and what make_method has returned for
\* a spec is what every later call returns, until the entry is erased.
Canonical == SameString /\ OneMethodPerSpec

\* Two methods that were changed with success never end up with the same spec,
\* whatever they collided with: s_method_lock covers the search for a name.
\* A changed method is found under its spec and under no other, unless a
\* make_method for that very spec came between the last test and the insertion;
\* then the map has the method made by that call, and nobody is told.  This is
\* for threads that do not erase a method whose change has thrown: it keeps the
\* new spec, and its erasure would take the entry of the method it collided with.
MutateOutcome ==
  \A m \in Method :
    outcome[m] = "changed" =>
      /\ \A n \in Method \ {m} : outcome[n] = "changed" => spec[n] # spec[m]
      /\ \E n \in Map!Holding(spec[m]) : HasMethod(n, m) \/ HasNew(n)
      /\ \A k \in Spec0 \ {spec[m]} : \A n \in Map!Holding(k) : ~HasMethod(n, m)

\* One class is kept for a type, the one that the type points to: parallel
\* loading never has two in m_classes, and a load that was given up, as a
\* duplicate or by an exception, was given up for a class that stays.  The
\* external ones among them are in m_external_classes, once.
OneClassPerType ==
  /\ \A y \in Type :
       /\ {c \in classes : c[1] = y} \subseteq {self[y]}
       /\ loads[y] # {} => self[y] # None
       /\ AllDone /\ loads[y] # {} => self[y] \in classes
  /\ \A i, j \in 1 .. Len(externals) : externals[i] = externals[j] => i = j
  /\ AllDone => \A c \in classes :
       c[4] = "jar" <=> \E i \in 1 .. Len(externals) : externals[i] = c

\* Every call returns: no thread keeps s_method_lock or a bucket of the map, and
\* a thread that finds no container gets one when the others have given theirs
\* back.
CallsReturn == <>AllDone
=============================================================================

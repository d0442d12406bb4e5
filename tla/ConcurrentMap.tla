--------------------------- MODULE ConcurrentMap ---------------------------
(***************************************************************************)
(* ConcurrentMap (libredex/ConcurrentContainers.h): values over a          *)
(* ConcurrentHashtable, with a mutex for each slot.  The mutex guards the  *)
(* values and not the table: an insertion or an erasure does not take it,  *)
(* insert_or_assign, at, get and observe take it when the table has found  *)
(* the node, and update holds it from the start.                           *)
(*                                                                         *)
(* The keys of different slots have nothing in common, so there is one     *)
(* slot.  A call on the map is one call on the table and what the map does *)
(* around it.  A value is the sequence of the calls that have made it: the *)
(* one that constructed or assigned it, and the updates since then.        *)
(***************************************************************************)
EXTENDS ConcurrentHashtable

CONSTANT Use   \* Use[s][p][i]: for what the map makes the i-th call of p in
               \* setup s; "plain" is insert, emplace, count, get_and_erase

ASSUME UseAssumption ==
  \A s \in Setups : \A p \in Thread : \A i \in 1 .. Len(s.program[p]) :
    LET op == s.program[p][i].op
    IN  Use[s][p][i] \in IF op = "insert" THEN {"plain", "assign", "update"}
                         ELSE IF op = "get" THEN {"plain", "read"} ELSE {"plain"}

\* Null is also the owner of a free slot.
ASSUME OwnerAssumption == Null \notin Thread

VARIABLES
  value,     \* the second of the pair in each node
  lock,      \* the owner of m_locks[slot]
  mpc,       \* each thread: what it does around its call on the table,
  ptr,       \* the node that the table has returned,
  reg,       \* the value that its updater has read
  outcomes   \* and the results of its calls on the map (history)

mapVars == <<value, lock, mpc, ptr, reg, outcomes>>
allVars == <<vars, mapVars>>

Used(p, i) == Use[setup][p][i]

\* What the call that has the node n for its insertion puts into it.
Constructed(n) ==
  LET calls == {c \in UNION {{p} \X (1 .. Len(Program[p])) : p \in Thread} :
                  /\ Program[c[1]][c[2]].op = "insert"
                  /\ Program[c[1]][c[2]].node = n}
      c == CHOOSE d \in calls : TRUE
  IN  IF calls = {} \/ Used(c[1], c[2]) = "update" THEN <<>> ELSE <<c>>

MapInit ==
  /\ Init
  /\ value = [n \in Node |-> Constructed(n)]
  /\ lock = Null
  /\ mpc = [p \in Thread |-> "call"]
  /\ ptr = [p \in Thread |-> Null]
  /\ reg = [p \in Thread |-> <<>>]
  /\ outcomes = [p \in Thread |-> <<>>]
-----------------------------------------------------------------------------
Calling(p) == mpc[p] = "call" /\ call[p] <= Len(Program[p])

MapReturn(p, outcome) ==
  /\ mpc' = [mpc EXCEPT ![p] = "call"]
  /\ ptr' = [ptr EXCEPT ![p] = Null]
  /\ reg' = [reg EXCEPT ![p] = <<>>]
  /\ outcomes' = [outcomes EXCEPT ![p] = Append(@, outcome)]

UpdateBegin(p) ==
  /\ Calling(p)
  /\ Used(p, call[p]) = "update"
  /\ lock = Null
  /\ lock' = p
  /\ mpc' = [mpc EXCEPT ![p] = "table"]
  /\ UNCHANGED <<vars, value, ptr, reg, outcomes>>

\* The call on the table returns ok, and a pointer to the node n.
TableReturns(p, ok, n) ==
  LET use == Used(p, call[p]) IN
  /\ UNCHANGED <<value, lock>>
  /\ IF use = "plain" THEN MapReturn(p, ok)
     ELSE IF use = "assign" /\ ok THEN MapReturn(p, Null)
     ELSE IF use = "read" /\ ~ok THEN MapReturn(p, Null)
     ELSE /\ mpc' = [mpc EXCEPT ![p] = use]
          /\ ptr' = [ptr EXCEPT ![p] = n]
          /\ outcomes' = IF use = "update" THEN [outcomes EXCEPT ![p] = Append(@, ~ok)]
                         ELSE outcomes
          /\ UNCHANGED reg

Table(p) ==
  /\ mpc[p] = "table" \/ (Calling(p) /\ Used(p, call[p]) # "update")
  /\ Step(p)
  /\ IF call'[p] = call[p] THEN UNCHANGED mapVars
     ELSE LET ok == results'[p][call[p]]
          IN  TableReturns(p, ok, IF Op(p) = "insert" /\ ok THEN Call(p).node
                                  ELSE cursor[p])

\* The call that the thread has last made on the table.
LastCall(p) == <<p, call[p] - 1>>

\* Mutant: the assignment does not wait for the slot.
Assign_NoLock(p) ==
  /\ mpc[p] = "assign"
  /\ value' = [value EXCEPT ![ptr[p]] = <<LastCall(p)>>]
  /\ MapReturn(p, Null)
  /\ UNCHANGED <<vars, lock>>

\* The critical sections of insert_or_assign, and of at, get and observe.
Assign(p) ==
  /\ mpc[p] = "assign"
  /\ lock = Null
  /\ value' = [value EXCEPT ![ptr[p]] = <<LastCall(p)>>]
  /\ MapReturn(p, Null)
  /\ UNCHANGED <<vars, lock>>

Read(p) ==
  /\ mpc[p] = "read"
  /\ lock = Null
  /\ MapReturn(p, value[ptr[p]])
  /\ UNCHANGED <<vars, value, lock>>

\* The updater reads the value, and writes it; then update returns.
UpdateLoad(p) ==
  /\ mpc[p] = "update"
  /\ reg' = [reg EXCEPT ![p] = value[ptr[p]]]
  /\ mpc' = [mpc EXCEPT ![p] = "store"]
  /\ UNCHANGED <<vars, value, lock, ptr, outcomes>>

UpdateEnd(p) ==
  /\ mpc[p] = "store"
  /\ value' = [value EXCEPT ![ptr[p]] = Append(reg[p], LastCall(p))]
  /\ lock' = Null
  /\ mpc' = [mpc EXCEPT ![p] = "call"]
  /\ ptr' = [ptr EXCEPT ![p] = Null]
  /\ reg' = [reg EXCEPT ![p] = <<>>]
  /\ UNCHANGED <<vars, outcomes>>

MapStep(p) ==
  UpdateBegin(p) \/ Table(p) \/ Assign(p) \/ Read(p) \/ UpdateLoad(p) \/ UpdateEnd(p)

AllIdle == AllReturned /\ \A p \in Thread : mpc[p] = "call"

MapNext == (\E p \in Thread : MapStep(p)) \/ (AllIdle /\ UNCHANGED allVars)

MapSpec == MapInit /\ [][MapNext]_allVars

\* The threads are scheduled, and one that spins on a bucket does not keep the
\* others from running; who waits for a slot gets it at some time.
FairMapSpec == MapSpec /\ \A p \in Thread : WF_allVars(MapStep(p))
-----------------------------------------------------------------------------
\* Every call on the map and on its table returns: the spinning on a locked
\* bucket ends, and nobody waits forever for a slot, which update holds while
\* it spins or resizes the table.
MapCallsReturn == <>AllIdle
=============================================================================

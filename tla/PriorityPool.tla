---------------------------- MODULE PriorityPool ----------------------------
(***************************************************************************)
(* What a PriorityThreadPool promises: each posted item is started once,   *)
(* never while an item of a higher priority is pending, at most Width at a *)
(* time; and once the pool is joined nothing is pending or active.         *)
(***************************************************************************)
EXTENDS Integers, FiniteSets

CONSTANTS Item, Priority, Width

VARIABLES pending, active, joined

vars == <<pending, active, joined>>

Init ==
  /\ pending = {}
  /\ active = {}
  /\ joined = FALSE

Post(i) ==
  /\ ~joined
  /\ i \notin pending \cup active
  /\ pending' = pending \cup {i}
  /\ UNCHANGED <<active, joined>>

Start(i) ==
  /\ i \in pending
  /\ \A j \in pending : Priority[j] <= Priority[i]
  /\ Cardinality(active) < Width
  /\ pending' = pending \ {i}
  /\ active' = active \cup {i}
  /\ UNCHANGED joined

End(i) ==
  /\ i \in active
  /\ active' = active \ {i}
  /\ UNCHANGED <<pending, joined>>

Joined ==
  /\ ~joined
  /\ pending = {}
  /\ active = {}
  /\ joined' = TRUE
  /\ UNCHANGED <<pending, active>>

Next == (\E i \in Item : Post(i) \/ Start(i) \/ End(i)) \/ Joined

Spec == Init /\ [][Next]_vars
=============================================================================

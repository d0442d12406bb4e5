------------------------------ MODULE WorkPool ------------------------------
(***************************************************************************)
(* What WorkQueue::run_all promises its caller: every task that was added, *)
(* or that a running task pushes, is executed exactly once; run_all        *)
(* returns when nothing is left to do.  Once a task has failed, tasks may  *)
(* be dropped or left undone, but no execution is abandoned.               *)
(***************************************************************************)
EXTENDS Sequences

CONSTANTS Task, Spawn, MayThrow

VARIABLES can_push, added, todo, active, ended, failed, returned

queue == <<can_push, added>>

vars == <<queue, todo, active, ended, failed, returned>>

Pushable(t) == {Spawn[t][i] : i \in DOMAIN Spawn[t]}

Init ==
  /\ can_push \in BOOLEAN
  /\ added \subseteq Task
  /\ todo = added
  /\ active = {}
  /\ ended = {}
  /\ failed = FALSE
  /\ returned = FALSE

Start(t) ==
  /\ t \in todo
  /\ todo' = todo \ {t}
  /\ active' = active \cup {t}
  /\ UNCHANGED <<ended, failed, returned>>

\* An executing task adds one that nobody has seen yet.
Push(t, c) ==
  /\ can_push
  /\ t \in active
  /\ c \in Pushable(t)
  /\ c \notin todo \cup active \cup ended
  /\ todo' = todo \cup {c}
  /\ UNCHANGED <<active, ended, failed, returned>>

End(t) ==
  /\ t \in active
  /\ failed \/ Pushable(t) \subseteq todo \cup active \cup ended
  /\ active' = active \ {t}
  /\ ended' = ended \cup {t}
  /\ UNCHANGED <<todo, failed, returned>>

Fail(t) ==
  /\ t \in active
  /\ t \in MayThrow \/ (~can_push /\ Pushable(t) # {})
  /\ active' = active \ {t}
  /\ ended' = ended \cup {t}
  /\ failed' = TRUE
  /\ UNCHANGED <<todo, returned>>

Drop(t) ==
  /\ failed
  /\ t \in todo
  /\ todo' = todo \ {t}
  /\ UNCHANGED <<active, ended, failed, returned>>

Return ==
  /\ ~returned
  /\ active = {}
  /\ failed \/ todo = {}
  /\ returned' = TRUE
  /\ UNCHANGED <<todo, active, ended, failed>>

Next ==
  /\ \/ \E t \in Task :
          \/ Start(t) \/ End(t) \/ Fail(t) \/ Drop(t)
          \/ \E c \in Task : Push(t, c)
     \/ Return
  /\ UNCHANGED queue

Spec == Init /\ [][Next]_vars
=============================================================================

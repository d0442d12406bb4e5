-------------------------- MODULE MCDAGScheduler --------------------------
(***************************************************************************)
(* A diamond of four tasks on three threads.  The executor registers a     *)
(* function and two continuations for the second task, and the function a  *)
(* third one; it also registers a function for the third task.             *)
(***************************************************************************)
EXTENDS DAGScheduler, TLC

CONSTANTS t1, t2, t3, t4, f, g, c1, c2, c3

MCTask         == {t1, t2, t3, t4}
MCDependency   == {<<t2, t1>>, <<t3, t1>>, <<t4, t2>>, <<t4, t3>>}
MCAction       == MCTask \cup {f, g, c1, c2, c3}
MCTaskOf       == [a \in MCAction |-> IF a \in MCTask THEN a
                                      ELSE IF a = g THEN t3 ELSE t2]
MCAugment      == t2 :> <<c1, f, c2>> @@ f :> <<c3>> @@ t3 :> <<g>>
                  @@ [a \in MCAction |-> <<>>]
MCContinuation == {c1, c2, c3}
=============================================================================

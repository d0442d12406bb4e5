----------------------------- MODULE MCPoolRun -----------------------------
(***************************************************************************)
(* The owner submits j1 and j2; j1 runs a work queue with the workers j3   *)
(* and j4.  j2 may throw, and so may j1, since run_all rethrows what a     *)
(* worker has caught.                                                      *)
(***************************************************************************)
EXTENDS PoolRun, TLC

CONSTANTS j1, j2, j3, j4

MCJob == {j1, j2, j3, j4}
MCSubmitter == (j1 :> Main) @@ (j2 :> Main) @@ (j3 :> j1) @@ (j4 :> j1)
MCNeeds == [j \in MCJob |-> {}]
MCMayThrow == {j1, j2}
MCWorkerJob == <<j3, j4>>
=============================================================================

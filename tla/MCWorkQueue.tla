---------------------------- MODULE MCWorkQueue ----------------------------
(***************************************************************************)
(* Small instances of WorkQueue: the tasks that add_item deals to the      *)
(* workers, and the tasks that those push.                                 *)
(***************************************************************************)
EXTENDS WorkQueue, TLC

CONSTANTS a, b, c, d, e

MCTask == {a, b, c, d, e}

\* add_item on a fresh queue: the k-th item goes to worker k % NumThreads.
Deal(items) ==
  [w \in Worker |->
     SelectSeq(items, LAMBDA t :
       (CHOOSE k \in DOMAIN items : items[k] = t) % NumThreads = w)]

Queue(push, items) == [can_push |-> push, initial |-> Deal(items)]

\* a pushes c and d.
MCSpawn == a :> <<c, d>> @@ [t \in MCTask |-> <<>>]

\* A queue whose tasks push, and two that accept no pushed tasks.
MCQueues == {Queue(TRUE, <<a, b>>), Queue(FALSE, <<b, e>>), Queue(FALSE, <<a, e>>)}

\* A queue of two tasks that push nothing although they might.
TwoTasks == {Queue(TRUE, <<b, e>>)}
=============================================================================

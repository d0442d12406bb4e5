------------------------ MODULE MCPriorityThreadPool ------------------------
(***************************************************************************)
(* Three threads; the owner posts a, b and c, with two priorities, and the *)
(* item a posts two more.                                                  *)
(***************************************************************************)
EXTENDS PriorityThreadPool, TLC

CONSTANTS t1, t2, t3, a, b, c, d, e

MCThread    == {t1, t2, t3}
MCItem      == {a, b, c, d, e}
MCPriority  == a :> 0 @@ b :> 1 @@ c :> 0 @@ d :> 1 @@ e :> -1
MCMainPosts == <<a, b, c>>
MCItemPosts == a :> <<d, e>> @@ [i \in MCItem |-> <<>>]
=============================================================================

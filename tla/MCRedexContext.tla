--------------------------- MODULE MCRedexContext ---------------------------
(***************************************************************************)
(* Small instances of RedexContext: one of strings only, with more threads *)
(* than containers, and some in which threads intern, change, erase and    *)
(* load.  All specs share a bucket of s_method_map.  Its table starts with *)
(* five buckets, of which four entries make it full, and has thirteen when *)
(* it has grown once.                                                      *)
(***************************************************************************)
EXTENDS RedexContext, TLC

CONSTANTS t1, t2, t3, A, B, init, x, x0, x1, xA, xAp, C, D

MCThread == {t1, t2, t3}
MCStr == {init, x, x0, x1, xA, xAp}
MCSpec0 == {A, B} \X MCStr
MCHash == [k \in MCSpec0 |-> 0]
MCType == {C, D}

MCNumbered(n) == CASE n = x -> <<x0, x1>> [] OTHER -> <<>>
MCParts(n, c) == CASE n = x /\ c = A -> <<xA, xAp>> [] OTHER -> <<>>

string(s) == [op |-> "make_string", str |-> s]
make(c, n) == [op |-> "make_method", spec |-> <<c, n>>]
mutate(m, c, n) ==
  [op |-> "mutate_method", method |-> m, spec |-> <<c, n>>, rename |-> TRUE]
mutateOnly(m, c, n) ==
  [op |-> "mutate_method", method |-> m, spec |-> <<c, n>>, rename |-> FALSE]
erase(m) == [op |-> "erase_method", method |-> m]
create(y, f) == [op |-> "create_class", type |-> y, file |-> f, from |-> "dex"]
createJar(y, f) == [op |-> "create_class", type |-> y, file |-> f, from |-> "jar"]

Calls3(p, q, r) == t1 :> p @@ t2 :> q @@ t3 :> r
Case(size, methods, c) ==
  [size |-> size, methods |-> methods, calls |-> c,
   known_dups |-> {}, allow_class_duplicates |-> FALSE, allowed_in_jar |-> {}]

MCSetup ==
  { \* Three threads, two containers.
    Case(5, <<>>, Calls3(<<string(x), string(x0)>>, <<string(x)>>, <<string(x1)>>)),
    \* Two methods take the same name, which is also asked for.
    Case(13, <<<<A, x0>>, <<A, x1>>>>,
         Calls3(<<mutate(1, A, x)>>, <<mutate(2, A, x)>>, <<make(A, x), make(A, x)>>)),
    \* Two threads intern what another is about to leave and to come to.
    Case(13, <<<<A, x>>, <<A, x0>>>>,
         Calls3(<<mutate(1, B, x), mutate(1, A, x)>>, <<make(A, x)>>,
                <<make(B, x)>>)),
    \* A method moves to a class in which its names are taken.
    Case(13, <<<<A, x>>, <<B, x>>, <<B, xA>>>>,
         Calls3(<<mutate(1, B, x)>>, <<make(B, xAp)>>, <<erase(3)>>)),
    \* Without renaming, and a constructor.
    Case(13, <<<<A, init>>, <<B, init>>, <<A, x>>>>,
         Calls3(<<mutate(1, B, init)>>, <<mutateOnly(3, B, init)>>, <<erase(2)>>)),
    \* Interning while the table grows.
    Case(5, <<<<A, x0>>, <<A, x1>>, <<B, x>>, <<B, x0>>>>,
         Calls3(<<make(A, x)>>, <<make(A, x)>>, <<>>)),
    \* A change while the table grows.
    Case(5, <<<<A, x0>>, <<A, x1>>, <<B, x>>, <<B, x0>>>>,
         Calls3(<<make(A, x)>>, <<mutate(1, A, x), mutate(1, B, x)>>, <<>>)),
    \* Loading.
    Case(5, <<>>, Calls3(<<create(C, 1), create(D, 1)>>, <<create(C, 1)>>, <<create(D, 2)>>)),
    Case(5, <<>>, Calls3(<<createJar(C, 1), createJar(D, 1)>>, <<createJar(C, 2)>>,
                         <<create(D, 3)>>)),
    [Case(5, <<>>, Calls3(<<create(C, 1)>>, <<createJar(C, 2)>>, <<create(D, 1), create(D, 2)>>))
       EXCEPT !.known_dups = {D}],
    [Case(5, <<>>, Calls3(<<create(C, 1)>>, <<create(C, 2)>>, <<createJar(C, 3), createJar(D, 3)>>))
       EXCEPT !.allow_class_duplicates = TRUE, !.allowed_in_jar = {C}] }

\* An interning that makes the table grow, an erasure, and two that intern one
\* spec.
MixedSetup ==
  { Case(5, <<<<A, x0>>, <<A, x1>>, <<B, x>>, <<B, x0>>>>,
         Calls3(<<make(A, xA)>>, <<erase(1), make(A, x)>>, <<make(A, x)>>)) }
=============================================================================

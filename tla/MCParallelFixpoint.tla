------------------------ MODULE MCParallelFixpoint ------------------------
(***************************************************************************)
(* Small graphs for ParallelFixpoint: a family of graphs on four nodes,    *)
(* and some larger ones with the shapes of WeakPartialOrderingTest.cpp and *)
(* MonotonicFixpointIteratorTest.cpp.                                      *)
(***************************************************************************)
EXTENDS ParallelFixpoint

Flow(succ, inc, cap, gate) ==
  [entry |-> 1, succ |-> succ, inc |-> inc, cap |-> cap, gate |-> gate]
Same(succ, v) == [n \in DOMAIN succ |-> v]

Ascending(S) == SetToSortSeq(S, LAMBDA x, y : x < y)

UpTo(k) == {S \in SUBSET (1 .. 4) : Cardinality(S) <= k}

\* Every graph on 1 .. 4 with the edges 1 -> 2 and 1 -> 3 from the entry, at
\* most two edges from 2 and from 3, and at most one from 4: reducible and
\* irreducible loops, self loops, loops on the entry, cross edges into a
\* component, an unreachable node with an edge to a reachable one.
FourNodes ==
  {Flow(<<<<2, 3>>, Ascending(a), Ascending(b), Ascending(c)>>,
        <<0, 1, 1, 0>>, <<3, 3, 2, 3>>, <<1, 1, 1, 2>>) :
     a \in UpTo(2), b \in UpTo(2), c \in UpTo(1)}

\* The graph of Bourdoncle's paper.
Bourdoncle ==
  Flow(<<<<2>>, <<3, 8>>, <<4>>, <<5, 7>>, <<6>>, <<7, 5>>, <<8, 3>>, <<>>>>,
       <<0, 0, 0, 1, 0, 1, 0, 0>>, <<3, 3, 3, 3, 3, 3, 2, 3>>,
       <<1, 1, 1, 1, 1, 1, 2, 1>>)
\* Two loops side by side in a loop on the entry, with a repeated edge.
TwoInner ==
  Flow(<<<<2, 3, 2>>, <<2, 4>>, <<3, 4>>, <<1>>>>,
       <<0, 1, 0, 0>>, <<3, 3, 2, 3>>, <<1, 1, 1, 1>>)
\* A loop in a loop, entered at its last node from outside of both.
NestedEntry ==
  Flow(<<<<2, 5>>, <<3>>, <<4>>, <<3, 2>>, <<4>>>>,
       <<0, 0, 1, 0, 1>>, <<3, 3, 3, 2, 3>>, <<1, 1, 1, 1, 1>>)
Single == Flow(<<<<>>>>, <<1>>, <<3>>, <<1>>)

MCGraphs == FourNodes \cup {Bourdoncle, TwoInner, NestedEntry, Single}
MCInits == <<2, 1>>
=============================================================================

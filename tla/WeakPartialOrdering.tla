------------------------ MODULE WeakPartialOrdering ------------------------
(***************************************************************************)
(* sparta/WeakPartialOrdering.h: the decomposition of a rooted graph into  *)
(* nested components, each with a head and an exit, and the scheduling     *)
(* constraints between them that the fixpoint iterators follow.            *)
(*                                                                         *)
(* A graph is a record g with g.entry and g.succ, where g.succ[n] is the   *)
(* sequence of the successors of n; a successor may be repeated.  The      *)
(* builder works on depth-first numbers, the result on the positions of    *)
(* the nodes in m_wpo_space (here from 1).  The sizes of the components,   *)
(* the post-order numbers and the lifted constraints, which the iterators  *)
(* do not ask for, are left out.                                           *)
(***************************************************************************)
EXTENDS Integers, FiniteSets, Sequences, SequencesExt

\* The least superset of S that is closed under the relation rel.
RECURSIVE Closure(_, _)
Closure(rel, S) ==
  LET T == S \cup {e[2] : e \in {r \in rel : r[1] \in S}}
  IN  IF T = S THEN S ELSE Closure(rel, T)
-----------------------------------------------------------------------------
(***************************************************************************)
(* construct_auxilary: the iterative depth-first search.  The union-find   *)
(* structure with its ancestor map is the function anc: a vertex and its   *)
(* finished descendants map to the closest of its ancestors that is still  *)
(* open, which is the lowest common ancestor a cross edge asks for.        *)
(***************************************************************************)
Entry(node, pred, finished) ==
  [node |-> node, pred |-> pred, finished |-> finished]

Finish(d, e) ==
  [d EXCEPT !.stack = Tail(@),
            !.black = @ \cup {e.finished},
            !.anc = [v \in DOMAIN @ |-> IF @[v] = e.finished THEN e.pred
                                                             ELSE @[v]]]

\* A new vertex: the successors not seen yet are pushed, the first one on
\* top; the others are the targets of cross edges or of back edges.
Discover(g, d, e) ==
  LET v      == Len(d.ref) + 1
      dfn    == [d.dfn EXCEPT ![e.node] = v]
      new    == SelectSeq(g.succ[e.node], LAMBDA n : dfn[n] = 0)
      seen   == {dfn[n] : n \in Range(g.succ[e.node])} \ {0}
  IN  [stack   |-> [i \in DOMAIN new |-> Entry(new[i], v, 0)]
                      \o <<Entry(e.node, e.pred, v)>> \o Tail(d.stack),
       dfn     |-> dfn,
       ref     |-> Append(d.ref, e.node),
       black   |-> d.black,
       anc     |-> Append(d.anc, v),
       cross   |-> d.cross \cup {<<d.anc[s], v, s>> : s \in seen \cap d.black},
       back    |-> d.back \cup {<<v, s>> : s \in seen \ d.black},
       nonback |-> d.nonback \cup (IF e.pred = 0 THEN {} ELSE {<<e.pred, v>>})]

RECURSIVE DepthFirst(_, _)
DepthFirst(g, d) ==
  IF d.stack = <<>> THEN d
  ELSE LET e == Head(d.stack)
       IN  DepthFirst(g,
             IF e.finished # 0 THEN Finish(d, e)
             ELSE IF d.dfn[e.node] # 0 THEN [d EXCEPT !.stack = Tail(@)]
             ELSE Discover(g, d, e))

construct_auxilary(g) ==
  DepthFirst(g, [stack |-> <<Entry(g.entry, 0, 0)>>,
                 dfn |-> [n \in DOMAIN g.succ |-> 0],
                 ref |-> <<>>, black |-> {}, anc |-> <<>>,
                 cross |-> {}, back |-> {}, nonback |-> {}])
-----------------------------------------------------------------------------
(***************************************************************************)
(* construct_wpo.  b.rep[v] is the head of the component v has been merged *)
(* into, b.exit its exit; b.origin holds <<v, u, w>> for an edge u -> w    *)
(* that now targets the component of v.  b.nodes is m_wpo_space, b.edges   *)
(* the constraints, and b.outer m_for_outer_preds, which gets one element  *)
(* for each new constraint.                                                *)
(***************************************************************************)
AddNode(b, dfn, ref, kind) ==
  [b EXCEPT !.nodes = Append(@, [dfn |-> dfn, node |-> ref, kind |-> kind])]

\* add_successor for the edges that target the components in S.
Constrain(b, S) ==
  LET new == {<<b.exit[b.rep[o[2]]], o[3], b.exit[o[1]]>> :
                 o \in {p \in b.origin : p[1] \in S}}
      out == {<<b.exit[b.rep[o[2]]], o[3], b.exit[o[1]]>> :
                 o \in {p \in b.origin : p[1] \in S /\ b.exit[p[1]] # p[1]}}
  IN  [b EXCEPT !.edges = @ \cup {<<c[1], c[2]>> : c \in new},
                !.outer = @ \cup out]

\* Mutant: a restored cross edge makes no scheduling constraint.
RestoreCross_Unordered(d, b, h) ==
  LET edges == {c \in d.cross : c[1] = h}
  IN  [b EXCEPT !.nonback = @ \cup {<<c[2], b.rep[c[3]]>> : c \in edges}]

\* The cross edges whose lowest common ancestor is h.
RestoreCross(d, b, h) ==
  LET edges == {c \in d.cross : c[1] = h}
  IN  [b EXCEPT !.nonback = @ \cup {<<c[2], b.rep[c[3]]>> : c \in edges},
                !.origin = @ \cup {<<b.rep[c[3]], c[2], c[3]>> : c \in edges}]

\* The component of h: its exit and its head are added, then the constraints
\* to the exit and between the nested components, which are merged into h.
Component(d, b, h, backpreds) ==
  LET rel    == {<<e[2], b.rep[e[1]]>> :
                   e \in {f \in b.nonback : b.rep[f[1]] # h}}
      nested == Closure(rel, backpreds)
      x      == Len(d.ref) + 1
                  + Cardinality({i \in DOMAIN b.nodes : b.nodes[i].kind = "exit"})
      b1     == AddNode(AddNode(b, x, d.ref[h], "exit"), h, d.ref[h], "head")
      ends   == IF backpreds = {} THEN {h} ELSE {b.exit[p] : p \in backpreds}
      b2     == Constrain([b1 EXCEPT !.edges = @ \cup {<<e, x>> : e \in ends}],
                          nested)
  IN  [b2 EXCEPT !.rep = [v \in DOMAIN @ |-> IF @[v] \in nested THEN h ELSE @[v]],
                 !.parent = [v \in DOMAIN @ |-> IF v \in nested THEN h ELSE @[v]],
                 !.exit[h] = x]

BuildHead(d, b, h) ==
  LET b1        == RestoreCross(d, b, h)
      backpreds == {b1.rep[e[1]] : e \in {f \in d.back : f[2] = h /\ f[1] # h}}
  IN  IF backpreds = {} /\ <<h, h>> \notin d.back
      THEN AddNode(b1, h, d.ref[h], "plain")
      ELSE Component(d, b1, h, backpreds)

RECURSIVE BuildHeads(_, _, _)
BuildHeads(d, b, h) ==
  IF h = 0 THEN b ELSE BuildHeads(d, BuildHead(d, b, h), h - 1)

construct_wpo(d) ==
  LET V == DOMAIN d.ref
      b == BuildHeads(d, [rep |-> [v \in V |-> v], exit |-> [v \in V |-> v],
                          parent |-> [v \in V |-> v],
                          origin |-> {<<e[2], e[1], e[2]>> : e \in d.nonback},
                          nonback |-> d.nonback, nodes |-> <<>>,
                          edges |-> {}, outer |-> {}],
                      Len(d.ref))
  IN  Constrain(b, {v \in V : b.rep[v] = v})
-----------------------------------------------------------------------------
(***************************************************************************)
(* build and the constructor.  The loop over m_for_outer_preds counts a    *)
(* predecessor of v from outside of the component of x_max for every       *)
(* component from the smallest one around v up to that one.                *)
(***************************************************************************)
\* Mutant: only the largest of the components is counted.
ExitsUpTo_Largest(parent, h, x_max) == {x_max}

RECURSIVE ExitsUpTo(_, _, _)
ExitsUpTo(parent, h, x_max) ==
  IF h - 1 = x_max THEN {x_max}
  ELSE {h - 1} \cup ExitsUpTo(parent, parent[h], x_max)

Wpo(g) ==
  IF g.succ[g.entry] = <<>>
  THEN [node |-> <<g.entry>>, kind |-> <<"plain">>, succ |-> <<{}>>,
        parent |-> <<1>>, outer |-> <<>>]
  ELSE
    LET b        == construct_wpo(construct_auxilary(g))
        Idx      == DOMAIN b.nodes
        At(dfn)  == CHOOSE i \in Idx : b.nodes[i].dfn = dfn
        IsExit(i) == b.nodes[i].kind = "exit"
        parent   == [i \in Idx |-> IF IsExit(i) THEN 0
                                   ELSE At(b.parent[b.nodes[i].dfn])]
        \* <<v, exits of the components the predecessor is outside of, from>>
        outer    == {<<At(o[2]),
                       ExitsUpTo(parent,
                                 IF b.nodes[At(o[2])].kind = "head"
                                 THEN At(o[2]) ELSE parent[At(o[2])],
                                 At(o[3])),
                       o[1]>> : o \in b.outer}
    IN  [node   |-> [i \in Idx |-> b.nodes[i].node],
         kind   |-> [i \in Idx |-> b.nodes[i].kind],
         succ   |-> [i \in Idx |-> {At(e[2]) : e \in {f \in b.edges :
                                               f[1] = b.nodes[i].dfn}}],
         parent |-> parent,
         outer  |-> [x \in {i \in Idx : IsExit(i)} |->
                       [v \in Idx |-> Cardinality({o \in outer :
                                        o[1] = v /\ x \in o[2]})]]]

Nodes(w) == DOMAIN w.node
get_entry(w) == Len(w.node)
is_exit(w, i) == w.kind[i] = "exit"
get_head_of_exit(w, i) == i + 1
get_predecessors(w, i) == {j \in Nodes(w) : i \in w.succ[j]}
get_num_preds(w, i) == Cardinality(get_predecessors(w, i))
=============================================================================

---------------------- MODULE WeakTopologicalOrdering ----------------------
(***************************************************************************)
(* sparta/WeakTopologicalOrdering.h: Bourdoncle's recursive decomposition. *)
(* A component is a record of its head, whether it is a loop, and the      *)
(* sequence of the components nested in it.  The vector m_components with  *)
(* its position links is the list wto, to which a new component is added   *)
(* in front.  Graphs are as in WeakPartialOrdering.                        *)
(***************************************************************************)
EXTENDS Integers, Sequences, SequencesExt

\* The depth-first number +oo (UINT32_MAX in the code) of finished vertices.
Infinity == 1000

\* s.head and s.loop are the locals of the visit under way.
RECURSIVE visit(_, _, _)
visit(g, s, vertex) ==
  LET num   == s.num + 1
      VisitSucc(a, succ) ==
        LET b   == IF a.dfn[succ] = 0 THEN visit(g, a, succ) ELSE a
            min == IF a.dfn[succ] = 0 THEN b.head ELSE a.dfn[succ]
        IN  [b EXCEPT !.head = IF min <= a.head THEN min ELSE a.head,
                      !.loop = a.loop \/ min <= a.head]
      r     == FoldLeft(VisitSucc,
                        [s EXCEPT !.stack = <<vertex>> \o @, !.num = num,
                                  !.dfn[vertex] = num, !.head = num,
                                  !.loop = FALSE],
                        g.succ[vertex])
      depth == CHOOSE i \in DOMAIN r.stack : r.stack[i] = vertex
      above == {r.stack[i] : i \in 1 .. depth - 1}
      done  == [r EXCEPT !.stack = SubSeq(@, depth + 1, Len(@)),
                         !.dfn = [n \in DOMAIN @ |->
                                    IF n = vertex THEN Infinity
                                    ELSE IF n \in above THEN 0 ELSE @[n]]]
      PushSucc(a, succ) == IF a.dfn[succ] = 0 THEN visit(g, a, succ) ELSE a
      inner == IF r.loop
               THEN FoldLeft(PushSucc, [done EXCEPT !.wto = <<>>], g.succ[vertex])
               ELSE [done EXCEPT !.wto = <<>>]
  IN  IF r.head # r.dfn[vertex] THEN r
      ELSE [inner EXCEPT
              !.head = r.head,
              !.wto = <<[head |-> vertex, loop |-> r.loop, nested |-> @]>>
                         \o r.wto]

Wto(g) ==
  visit(g, [stack |-> <<>>, num |-> 0, dfn |-> [n \in DOMAIN g.succ |-> 0],
            head |-> 0, loop |-> FALSE, wto |-> <<>>], g.entry).wto
=============================================================================

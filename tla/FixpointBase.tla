---------------------------- MODULE FixpointBase ----------------------------
(***************************************************************************)
(* What the three iterators of sparta/MonotonicFixpointIterator.h share    *)
(* (MonotonicFixpointIteratorBase) and the recursive, sequential one       *)
(* (WTOMonotonicFixpointIterator), as operators on the states of an        *)
(* analysis.                                                               *)
(*                                                                         *)
(* The analysis is the client's: here its domain is the chain 0 .. Top     *)
(* with 0 for bottom, a node adds g.inc to a value, up to g.cap, and the   *)
(* edges into a node are infeasible for the values below g.gate.  These    *)
(* transformers are monotone, as the iterators require.                    *)
(***************************************************************************)
EXTENDS Integers, FiniteSets, Sequences, SequencesExt, WeakTopologicalOrdering

CONSTANT Top

bottom == 0
join_with(x, y) == IF x >= y THEN x ELSE y
leq(x, y) == x <= y
widen_with(x, y) == IF leq(y, x) THEN x ELSE Top

analyze_node(g, n, x) ==
  IF x = bottom THEN bottom
  ELSE IF x + g.inc[n] <= g.cap[n] THEN x + g.inc[n] ELSE g.cap[n]
analyze_edge(g, n, x) == IF x < g.gate[n] THEN bottom ELSE x

Preds(g, n) == {m \in DOMAIN g.succ : n \in Range(g.succ[m])}

\* The join of the state given with the initial value, at the entry, and
\* with what the edges from the predecessors carry.
compute_entry_state(g, init, exits, n, state) ==
  LET carried == {state} \cup (IF n = g.entry THEN {init} ELSE {})
                   \cup {analyze_edge(g, n, exits[m]) : m \in Preds(g, n)}
  IN  FoldSet(join_with, bottom, carried)

extrapolate(iterations, current, new) ==
  IF iterations = 0 THEN join_with(current, new) ELSE widen_with(current, new)

\* analyze_vertex: the entry state accumulates, the exit state is recomputed.
EntryAfter(g, init, st, n) ==
  compute_entry_state(g, init, st.exit, n, st.entry[n])
analyze_vertex(g, init, st, n) ==
  LET state == EntryAfter(g, init, st, n)
  IN  [st EXCEPT !.entry[n] = state, !.exit[n] = analyze_node(g, n, state)]

AllBottom(g) == [n \in DOMAIN g.succ |-> bottom]
-----------------------------------------------------------------------------
RECURSIVE analyze_component(_, _, _, _)
RECURSIVE analyze_scc(_, _, _, _, _)
analyze_scc(g, init, st, c, iterations) ==
  LET Component(s, d) == analyze_component(g, init, s, d)
      after == FoldLeft(Component, analyze_vertex(g, init, st, c.head), c.nested)
      new   == compute_entry_state(g, init, after.exit, c.head, bottom)
  IN  IF leq(new, after.entry[c.head])
      THEN [after EXCEPT !.entry[c.head] = new]
      ELSE analyze_scc(g, init,
                       [after EXCEPT !.entry[c.head] =
                                        extrapolate(iterations, @, new)],
                       c, iterations + 1)

analyze_component(g, init, st, c) ==
  IF c.loop THEN analyze_scc(g, init, st, c, 0)
  ELSE analyze_vertex(g, init, st, c.head)

WtoRun(g, init) ==
  LET Component(s, d) == analyze_component(g, init, s, d)
  IN  FoldLeft(Component, [entry |-> AllBottom(g), exit |-> AllBottom(g)], Wto(g))
=============================================================================

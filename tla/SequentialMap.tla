--------------------------- MODULE SequentialMap ---------------------------
(***************************************************************************)
(* A sequential map, from a key to a value or Null, and what the calls on  *)
(* a ConcurrentMap return compared with it.                                *)
(***************************************************************************)
EXTENDS ConcurrentMap

\* The value of the key of the i-th call of p after the call, which finds v.
After(p, i, v) ==
  LET op == Program[p][i].op
      use == Used(p, i)
  IN  IF op = "erase" THEN Null
      ELSE IF op = "insert" /\ use = "update"
           THEN Append(IF v = Null THEN <<>> ELSE v, <<p, i>>)
      ELSE IF op = "insert" /\ (v = Null \/ use = "assign") THEN <<<<p, i>>>>
      ELSE v

\* What the call returns.
Outcome(p, i, v) ==
  LET op == Program[p][i].op
      use == Used(p, i)
  IN  CASE use = "assign" -> Null
        [] use = "read" -> v
        [] use = "update" -> v # Null
        [] OTHER -> IF op = "insert" THEN v = Null ELSE v # Null

RECURSIVE Interleaves(_, _)
\* The calls from the i[p]-th ones on can be put in an order in which, on a
\* sequential map that holds m now, they return what they have returned, and
\* leave what the table holds.
Interleaves(i, m) ==
  LET open == {p \in Thread : i[p] <= Len(Program[p])} IN
  IF open = {}
  THEN \A k \in Key : m[k] = IF Holding(k) = {} THEN Null
                             ELSE value[CHOOSE n \in Holding(k) : TRUE]
  ELSE \E p \in open :
         LET c == Program[p][i[p]]
             j == [i EXCEPT ![p] = @ + 1]
         IN  IF c.op = "reserve" THEN Interleaves(j, m)
             ELSE /\ outcomes[p][i[p]] = Outcome(p, i[p], m[c.key])
                  /\ Interleaves(j, [m EXCEPT ![c.key] = After(p, i[p], @)])

\* All calls together have returned, and left, what they would on a sequential
\* map, made one at a time in some order in which each thread makes its calls
\* in turn: although the table is changed without the mutex of the slot, and
\* a value may be assigned, read or updated after its key was erased, no
\* update, assignment or erasure is lost, torn or seen by halves.
SequentiallyConsistent ==
  AllIdle => Interleaves([p \in Thread |-> 1],
                         [k \in Key |-> IF Initially(k) > 0 THEN <<>> ELSE Null])
=============================================================================

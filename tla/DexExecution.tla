---------------------------- MODULE DexExecution ----------------------------
(***************************************************************************)
(* What a program may do at run time, as seen from its kept entry points:  *)
(* the methods that are entered, the classes of which there are objects,   *)
(* and the positions that are reached, over all executions.  Outside code  *)
(* calls the kept methods of kept classes and whatever overrides a method  *)
(* of its own.  This is the meaning of programs that Reachability.cpp has  *)
(* to respect; it is not code of the repository.                           *)
(***************************************************************************)
EXTENDS DexProgram

NoRun == [calls |-> {}, objects |-> {}, at |-> {}, returned |-> {}]

CodeBlock(p, a) == p.mth[a[1]].code[a[2]]
HasInsn(p, a) == a[3] <= Len(CodeBlock(p, a).insns)
InsnOf(p, a) == CodeBlock(p, a).insns[a[3]]

Entries(p) ==
  {m \in Method(p) : /\ p.mth[m].root /\ p.mth[m].cls \in Scope(p)
                     /\ p.cls[p.mth[m].cls].root}

\* The implementation that an object of class d has of a virtual method.
Dispatch(p, d, m) ==
  LET found(c) == {n \in Range(p.cls[c].vmethods) : n = m \/ m \in Overridden(p, n)}
      cs == SelectSeq(Supers(p, d), LAMBDA c : found(c) # {})
  IN  IF cs = <<>> THEN {} ELSE {n \in found(Head(cs)) : ~p.mth[n].abstract}

Receivers(p, E, c) == {d \in E.objects : IsSubclass(p, d, c)}

\* An instruction that needs an object has one; a cast lets null through.
Executes(p, E, i) ==
  \/ i.op = "cast"
  \/ Needs(p, i) \notin Scope(p)
  \/ Receivers(p, E, Needs(p, i)) # {}

Entered(p, E, i) ==
  IF i.op = "virtual"
  THEN UNION {Dispatch(p, d, n) : d \in Receivers(p, E, i.cls), n \in Callees(p, i)}
  ELSE Callees(p, i)

Continues(p, E, i) ==
  IsInvoke(i) =>
    \/ i.op = "virtual" /\ i.cls \notin Scope(p)
    \/ \E n \in Callees(p, i) : p.mth[n].external
    \/ \E m \in Entered(p, E, i) : IsReturning(p, m, E.returned)

Executed(p, E) == {a \in E.at : HasInsn(p, a) /\ Executes(p, E, InsnOf(p, a))}
ExecutedInsns(p, E) == {InsnOf(p, a) : a \in Executed(p, E)}

\* Classes are initialized when they are made use of.
Initialized(p, E) ==
  UNION {Range(Supers(p, c)) : c \in
    E.objects \cup {p.mth[m].cls : m \in {n \in E.calls : IsStatic(p, n)}}
      \cup {p.fld[i.fld].cls : i \in {j \in ExecutedInsns(p, E) : j.op = "sfield"}}}

Outside(p) == {m \in Method(p) : p.mth[m].external}
              \cup {m \in Entries(p) : IsVirtual(p, m)}

FollowingPositions(p, E, a) ==
  LET blk == CodeBlock(p, a)
      i == InsnOf(p, a)
  IN  {<<a[1], e[1], 1>> : e \in IF a[3] >= Len(blk.insns) THEN Range(blk.throws) ELSE {}}
        \cup (IF ~HasInsn(p, a) THEN {<<a[1], b, 1>> : b \in Range(blk.succs)}
              ELSE IF i.op # "return" /\ Executes(p, E, i) /\ Continues(p, E, i)
              THEN {<<a[1], a[2], a[3] + 1>>} ELSE {})

RunStep(p, E) ==
  [calls |-> {m \in Entries(p) : ~IsVirtual(p, m)}
     \cup UNION {Dispatch(p, d, m) : d \in E.objects, m \in Outside(p)}
     \cup UNION {Entered(p, E, i) : i \in {j \in ExecutedInsns(p, E) : IsInvoke(j)}}
     \cup {m \in Method(p) : p.mth[m].kind = "clinit" /\ p.mth[m].cls \in Initialized(p, E)},
   objects |-> {p.mth[m].cls : m \in {n \in Entries(p) : IsInit(p, n)}}
     \cup {i.cls : i \in {j \in ExecutedInsns(p, E) : j.op = "new"}},
   at |-> {<<m, 1, 1>> : m \in {n \in E.calls : HasCode(p, n)}}
     \cup UNION {FollowingPositions(p, E, a) : a \in E.at},
   returned |-> {a[1] : a \in {b \in Executed(p, E) : InsnOf(p, b).op = "return"}}]

RECURSIVE RunFrom(_, _)
RunFrom(p, E) ==
  LET D == RunStep(p, E)
      G == [k \in DOMAIN E |-> E[k] \cup D[k]]
  IN  IF G = E THEN E ELSE RunFrom(p, G)

Executions(p) == RunFrom(p, NoRun)
=============================================================================

------------------------- MODULE ReachabilityRules -------------------------
(***************************************************************************)
(* What the marking should compute, without an order: the least set of     *)
(* facts that is closed under its rules.  A position <<m, b, i>> is in the *)
(* code of m, at the instruction i of block b or behind the last one.      *)
(***************************************************************************)
EXTENDS DexProgram

NoFacts == [marked |-> {}, instantiable |-> {}, direct |-> {}, callable |-> {},
            implementation |-> {}, exact |-> {}, base |-> {}, dynamic |-> {},
            returning |-> {}, at |-> {}]

BlockOf(p, a) == p.mth[a[1]].code[a[2]]
AtInsn(p, a) == a[3] <= Len(BlockOf(p, a).insns)
Insn(p, a) == BlockOf(p, a).insns[a[3]]

Blocked(p, F, a) ==
  /\ AtInsn(p, a)
  /\ InstantiableDependency(p, Insn(p, a), F.instantiable) # None

\* The positions with an instruction that has its effect.
Gathered(p, F) == {a \in F.at : AtInsn(p, a) /\ ~Blocked(p, F, a)}
Insns(p, F) == {Insn(p, a) : a \in Gathered(p, F)}

\* Control stays at a, but for exceptions.
Stops(p, F, a) ==
  \/ Blocked(p, F, a) /\ Insn(p, a).op # "cast"
  \/ ~Blocked(p, F, a) /\ ReturningDependency(p, Insn(p, a), F.returning) # {}

Throws(p, F, a) ==
  IF ~AtInsn(p, a) \/ (Stops(p, F, a) /\ a[3] = Len(BlockOf(p, a).insns))
  THEN Range(BlockOf(p, a).throws) ELSE {}

NextPositions(p, F, a) ==
  {<<a[1], e[1], 1>> : e \in Throws(p, F, a)}
    \cup (IF ~AtInsn(p, a) THEN {<<a[1], b, 1>> : b \in Range(BlockOf(p, a).succs)}
          ELSE IF Stops(p, F, a) THEN {}
          ELSE {<<a[1], a[2], a[3] + 1>>})

Enters(p, F, m) ==
  /\ HasCode(p, m)
  /\ ~p.check_instantiable \/ ~p.check_callable \/ IsStatic(p, m) \/ m \in F.callable

Seq2Set(f(_), S) == UNION {Range(f(x)) : x \in S}

Conditional(p, F) ==
  [instantiable |-> IfInstantiable(p) \cup F.exact
     \cup {Insn(p, a).cls : a \in {b \in F.at : AtInsn(p, b) /\ Insn(p, b).op = "cast"}},
   retained |-> IfRetained(p)
     \cup {x \in IfDynamicallyReferenced(p) : ClassOf(p, x) \in F.dynamic}]

MarkedBy(p, F) ==
  LET cs == F.marked \cap Scope(p)
      ms == {m \in F.marked \cap Method(p) : TRUE}
      fs == F.marked \cap Field(p)
  IN  RootClasses(p)
        \cup {p.cls[c].super : c \in cs}
        \cup Seq2Set(LAMBDA c : p.cls[c].refs, cs)
        \cup (IF p.relaxed_interfaces THEN {} ELSE Seq2Set(LAMBDA c : p.cls[c].interfaces, cs))
        \cup {p.fld[f].cls : f \in fs} \cup Seq2Set(LAMBDA f : p.fld[f].refs, fs)
        \cup {p.mth[m].cls : m \in ms} \cup {p.mth[m].resolved : m \in ms}
        \cup Seq2Set(LAMBDA m : p.mth[m].refs, ms)
        \cup UNION {Range(Objects(i)) : i \in Insns(p, F)}
        \cup UNION {{e[2] : e \in Throws(p, F, a)} : a \in F.at}
        \cup {x \in Conditional(p, F).instantiable : ClassOf(p, x) \in F.instantiable}
        \cup {x \in Conditional(p, F).retained : ClassOf(p, x) \in F.marked}

Constructed(p, F) ==
  {p.mth[m].cls : m \in {n \in F.marked \cap Method(p) :
     IsInit(p, n) /\ p.mth[n].cls \in Scope(p) /\ ~p.cls[p.mth[n].cls].abstract}}

Implemented(p, F) ==
  Seq2Set(LAMBDA c : Implementations(p, Supers(p, c), {}), F.direct)

Defs(p, F) == {m \in F.marked \cap Method(p) : p.mth[m].resolved = m /\ ~p.mth[m].external}

\* The classes that annotations refer to by name.
Annotated(p, F) ==
  Seq2Set(LAMBDA c : p.cls[c].dynamic, F.marked \cap Scope(p))
    \cup Seq2Set(LAMBDA f : p.fld[f].dynamic, F.marked \cap Field(p))
    \cup Seq2Set(LAMBDA m : p.mth[m].dynamic, Defs(p, F))

NormalBase(p, m, b) == <<m, IF b = p.mth[m].cls THEN None ELSE b>>

Derive(p, F) ==
  [marked |-> MarkedBy(p, F) \cap (Scope(p) \cup Method(p) \cup Field(p)),
   instantiable |-> Scope(p) \cap
     ({p.cls[c].super : c \in F.instantiable}
        \cup Seq2Set(LAMBDA c : p.cls[c].interfaces, F.instantiable)
        \cup F.direct
        \cup {c \in F.marked \cap Scope(p) : InterfaceInstantiable(p, c)}
        \cup (IF p.check_callable THEN {} ELSE Constructed(p, F))),
   direct |-> {i.cls : i \in {j \in Insns(p, F) : j.op = "new"}}
     \cup {c \in Constructed(p, F) : Relaxed(p, c) => c \in F.dynamic},
   callable |-> Seq2Set(LAMBDA c : InstanceMethods(p, Supers(p, c)), F.direct)
     \cup {m \in F.implementation : UnconditionallyCallable(p, m) \/ m \in F.exact}
     \cup UNION {Range(SuperTargets(p, i)) : i \in Insns(p, F)},
   implementation |-> Implemented(p, F),
   exact |-> {e[1] : e \in {b \in F.base :
                /\ ~p.mth[b[1]].abstract /\ ~p.mth[b[1]].external
                /\ b[2] = None \/ Overrides(p, b[1], b[2]) \/ b[3]}},
   base |-> {NormalBase(p, b[1], b[2]) \o <<TRUE>> :
             b \in UNION {Range(BaseTargets(p, i)) : i \in Insns(p, F)}}
     \cup {<<m, None, TRUE>> : m \in {n \in Defs(p, F) : IsVirtual(p, n) /\ p.mth[n].root}}
     \cup UNION {{NormalBase(p, n, b[2]) \o <<FALSE>> : n \in Range(p.mth[b[1]].children)} : b \in F.base},
   dynamic |-> {c \in {x \in F.marked \cap Scope(p) : p.relaxed /\ p.cls[x].string}
                  \cup UNION {Range(DynamicReferences(p, i)) : i \in Insns(p, F)}
                  \cup (IF p.relaxed THEN Annotated(p, F) ELSE {}) :
                    consider_dynamically_referenced(p, c)},
   returning |-> {a[1] : a \in {b \in Gathered(p, F) : Insn(p, b).op = "return"}},
   at |-> {<<m, 1, 1>> : m \in {n \in Defs(p, F) : Enters(p, F, n)}}
     \cup UNION {NextPositions(p, F, a) : a \in F.at}]

RECURSIVE Closure(_, _)
Closure(p, F) ==
  LET D == Derive(p, F)
      G == [k \in DOMAIN F |-> F[k] \cup D[k]]
  IN  IF G = F THEN F ELSE Closure(p, G)

Rules(p) == Closure(p, NoFacts)
=============================================================================

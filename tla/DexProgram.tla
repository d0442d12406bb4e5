----------------------------- MODULE DexProgram -----------------------------
(***************************************************************************)
(* What Reachability.cpp reads of a program that it does not change.       *)
(* Classes, methods and fields are names; a class that is not in the scope *)
(* is external.  The references of annotations, and the strings that are   *)
(* names of types, are among the references of their holder.  A            *)
(* constructor without arguments and a volatile field are seeds just as    *)
(* roots are, and root stands for these too; a <clinit> is not trivial.    *)
(* Fields are definitions.  Left out are no_optimizations, the names that  *)
(* may not change, deserializable and parcelable types, which all add      *)
(* roots or instances, and annotation types.                               *)
(*                                                                         *)
(* A program p has                                                         *)
(*   p.cls[c]: super, interfaces, interface, abstract, root, string (kept  *)
(*     because a string names it), refs, dynamic (the classes that the     *)
(*     annotations refer to by name), fields, dmethods, vmethods           *)
(*   p.mth[m]: cls, kind, abstract, external, root, resolved, children (in *)
(*     the override graph), others (the classes that inherit m as their    *)
(*     implementation of an interface), refs, dynamic, code                *)
(*   p.fld[f]: cls, static, root, refs, dynamic                            *)
(* and the flags relaxed, relaxed_interfaces, check_instantiable,          *)
(* check_callable and check_returning.  Code is a sequence of blocks with  *)
(* insns, succs and throws, pairs of a block and the class that is caught. *)
(***************************************************************************)
EXTENDS Integers, Sequences, SequencesExt, FiniteSets

None == "none"

Scope(p) == DOMAIN p.cls
Method(p) == DOMAIN p.mth
Field(p) == DOMAIN p.fld
ClassOf(p, x) == IF x \in Method(p) THEN p.mth[x].cls
                 ELSE IF x \in Field(p) THEN p.fld[x].cls ELSE x

RECURSIVE Supers(_, _)
\* A class and its superclasses in the scope, from the class upwards.
Supers(p, c) == IF c \in Scope(p) THEN <<c>> \o Supers(p, p.cls[c].super) ELSE <<>>

RECURSIVE IsSubclass(_, _, _)
\* type::check_cast.
IsSubclass(p, c, d) ==
  \/ c = d
  \/ /\ c \in Scope(p)
     /\ \/ IsSubclass(p, p.cls[c].super, d)
        \/ \E j \in Range(p.cls[c].interfaces) : IsSubclass(p, j, d)

Parents(p, m) == {n \in Method(p) : m \in Range(p.mth[n].children)}

RECURSIVE Overridden(_, _)
\* get_overridden_methods.
Overridden(p, m) ==
  Parents(p, m) \cup UNION {Overridden(p, n) : n \in Parents(p, m)}

Overriding(p, m) == {n \in Method(p) : m \in Overridden(p, n)}

\* Node::overrides: m is called for an object of the type base, of its own class
\* or of one that inherits m as an implementation.
Overrides(p, m, base) ==
  \E c \in {p.mth[m].cls} \cup p.mth[m].others : IsSubclass(p, c, base)

Members(p, c) == p.cls[c].fields \o p.cls[c].dmethods \o p.cls[c].vmethods
IFields(p, c) == SelectSeq(p.cls[c].fields, LAMBDA f : ~p.fld[f].static)

IsInit(p, m) == p.mth[m].kind = "init"
IsStatic(p, m) == p.mth[m].kind \in {"static", "clinit"}
IsVirtual(p, m) == p.mth[m].kind = "virtual"
HasCode(p, m) == p.mth[m].code # <<>>
IsNative(p, m) == ~HasCode(p, m) /\ ~p.mth[m].abstract /\ ~p.mth[m].external

consider_dynamically_referenced(p, c) ==
  c \in Scope(p) /\ ~p.cls[c].root /\ ~p.cls[c].interface
-----------------------------------------------------------------------------
\* RootSetMarker::mark, as the members it marks for each condition.
Relaxed(p, c) == p.relaxed /\ consider_dynamically_referenced(p, c)

RootLike(p, x) ==
  \/ x \in Field(p) /\ p.fld[x].root
  \/ x \in Method(p) /\ (p.mth[x].root \/ p.mth[x].kind = "clinit")

Seeds(p) == {x \in Field(p) \cup Method(p) : ClassOf(p, x) \in Scope(p) /\ RootLike(p, x)}

\* An instance field or a virtual method.
IsInstanceVirtual(p, x) ==
  (x \in Field(p) /\ ~p.fld[x].static) \/ (x \in Method(p) /\ IsVirtual(p, x))

\* A method that is not virtual, has code, and is not <clinit>.
IsRelaxedDirect(p, x) ==
  x \in Method(p) /\ ~IsVirtual(p, x) /\ HasCode(p, x) /\ p.mth[x].kind # "clinit"

IfDynamicallyReferenced(p) ==
  {x \in Seeds(p) : /\ Relaxed(p, ClassOf(p, x))
                    /\ IsInstanceVirtual(p, x) \/ IsRelaxedDirect(p, x)}

IfRetained(p) == Seeds(p) \ IfDynamicallyReferenced(p)

\* mark_external_method_overriders.
ExternalOverriders(p) ==
  UNION {{n \in Overriding(p, m) : ~p.mth[n].external} :
           m \in {n \in Method(p) : p.mth[n].external}}

IfInstantiable(p) ==
  {x \in IfDynamicallyReferenced(p) : IsInstanceVirtual(p, x)} \cup ExternalOverriders(p)

RootClasses(p) == {c \in Scope(p) : p.cls[c].root}
-----------------------------------------------------------------------------
\* get_instantiable_dependency: the class without an instance of which an
\* instruction throws, or does nothing of interest (a cast).
Needs(p, i) ==
  CASE i.op = "ifield" -> p.fld[i.fld].cls
    [] i.op = "virtual" -> i.cls
    [] i.op = "super" -> p.mth[i.mth].cls
    [] i.op = "direct" /\ (p.check_callable \/ ~IsInit(p, i.mth)) -> p.mth[i.mth].cls
    [] i.op = "cast" -> i.cls
    [] OTHER -> None

InstantiableDependency(p, i, instantiable) ==
  IF p.check_instantiable /\ Needs(p, i) \in Scope(p) \ instantiable THEN Needs(p, i)
  ELSE None

\* resolve_method, for the method of an invocation.
Callee(p, i) == p.mth[i.mth].resolved
Callees(p, i) == {Callee(p, i)} \cap Method(p)

\* unknown_invoke_virtual_targets.
UnknownTargets(p, i) ==
  \/ i.cls \notin Scope(p)
  \/ Callees(p, i) = {}
  \/ \E n \in Callees(p, i) : p.mth[n].external /\ ~p.mth[n].abstract
  \/ p.cls[i.cls].interface /\ \E n \in Callees(p, i) : p.mth[n].root

IsInvoke(i) == i.op \in {"static", "direct", "super", "virtual"}

\* The methods that an invocation may come to.
Targets(p, i) ==
  {n \in Callees(p, i) \cup (IF i.op = "virtual"
                            THEN {n \in Overriding(p, Callee(p, i)) :
                                    i.cls = p.mth[Callee(p, i)].cls \/ Overrides(p, n, i.cls)}
                            ELSE {}) :
     ~p.mth[n].abstract}

IsReturning(p, m, returning) ==
  p.mth[m].external \/ IsNative(p, m) \/ m \in returning

\* get_returning_dependency: the methods one of which must return.
ReturningDependency(p, i, returning) ==
  IF \/ ~(p.check_returning /\ IsInvoke(i))
     \/ i.op = "virtual" /\ UnknownTargets(p, i)
     \/ \E m \in Targets(p, i) : IsReturning(p, m, returning)
     \/ i.op # "virtual" /\ Targets(p, i) = {}
  THEN {}
  ELSE IF Targets(p, i) = {} THEN {None} ELSE Targets(p, i)

\* default_gather_mie: what is referred to by an instruction.
Objects(i) ==
  CASE i.op \in {"new", "cast", "const_class"} -> <<i.cls>>
    [] i.op \in {"ifield", "sfield"} -> <<i.fld>>
    [] IsInvoke(i) -> <<i.mth>>
    [] OTHER -> <<>>

SuperTargets(p, i) ==
  IF i.op = "super" /\ \E n \in Callees(p, i) : ~p.mth[n].external /\ ~p.mth[n].abstract
  THEN <<Callee(p, i)>> ELSE <<>>

BaseTargets(p, i) ==
  IF i.op = "virtual" /\ Callees(p, i) # {} THEN <<<<Callee(p, i), i.cls>>>> ELSE <<>>

DynamicReferences(p, i) ==
  IF p.relaxed /\ i.op \in {"new", "const_class"} THEN <<i.cls>> ELSE <<>>
-----------------------------------------------------------------------------
\* is_interface_instantiable of visit_cls.
InterfaceInstantiable(p, c) ==
  /\ p.cls[c].interface
  /\ p.cls[c].root \/ \E m \in Range(p.cls[c].vmethods) : p.mth[m].root

RECURSIVE Implementations(_, _, _)
\* The loop of directly_instantiable: the virtual methods of the classes cs
\* that no class further down overrides.
Implementations(p, cs, overridden) ==
  IF cs = <<>> THEN <<>>
  ELSE LET ms == SelectSeq(p.cls[Head(cs)].vmethods,
                           LAMBDA m : m \notin overridden /\ ~p.mth[m].abstract)
       IN  ms \o Implementations(p, Tail(cs),
                   overridden \cup UNION {Overridden(p, m) : m \in Range(ms)})

InstanceMethods(p, cs) ==
  FlattenSeq([k \in 1 .. Len(cs) |->
                SelectSeq(p.cls[cs[k]].dmethods, LAMBDA m : ~IsStatic(p, m))])

\* is_unconditionally_instance_callable of implementation_method.
UnconditionallyCallable(p, m) ==
  \E n \in {m} \cup Overridden(p, m) : p.mth[n].root \/ p.mth[n].external

OverridesAbstract(p, m) ==
  \E n \in Overridden(p, m) : p.mth[n].abstract \/ p.mth[n].external
-----------------------------------------------------------------------------
RECURSIVE AbstractAbove(_, _)
\* visit_abstract_method of compute_zombie_methods.
AbstractAbove(p, m) ==
  LET as == {n \in Parents(p, m) : p.mth[n].abstract}
  IN  as \cup UNION {AbstractAbove(p, n) : n \in as}

RECURSIVE Elders_Down(_, _)
\* Mutant: the loop goes to the overriding methods.
Elders_Down(p, m) ==
  <<m>> \o (IF p.mth[m].children = <<>> THEN <<>> ELSE Elders_Down(p, Head(p.mth[m].children)))

RECURSIVE Elders(_, _)
\* The methods that the loop of compute_zombie_methods comes to.
Elders(p, m) ==
  LET up == {n \in Parents(p, m) : ~p.mth[n].abstract}
  IN  <<m>> \o (IF up = {} THEN <<>> ELSE Elders(p, CHOOSE n \in up : TRUE))

\* The method that is kept so that m's class has an implementation, if any.
Zombies(p, m, marked) ==
  LET kept(n) == n \in marked \/ p.mth[n].external
      elders == Elders(p, m)
  IN  IF /\ \A n \in Range(elders) : ~kept(n)
         /\ \E n \in Range(elders) : \E a \in AbstractAbove(p, n) : kept(a)
      THEN {Last(elders)} ELSE {}
=============================================================================

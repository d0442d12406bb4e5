---------------------------- MODULE Reachability ----------------------------
(***************************************************************************)
(* The parallel marking of libredex/Reachability.cpp, which decides what   *)
(* RemoveUnreachable keeps.  The root set is marked first; then the        *)
(* workers of a work queue visit objects, and mark and push what these     *)
(* refer to, at once or when a condition comes true: the class is kept, is *)
(* instantiable, is referred to by name, a method is called or returns.    *)
(*                                                                         *)
(* A worker runs a stack of operations, the calls that are still to be     *)
(* made in its task.  An operation is one access to the shared state, and  *)
(* its successors replace it on the stack.  All the sets but zombie only   *)
(* grow, so a test with the insertion that it leads to is one operation.   *)
(* A gatherer (MethodReferencesGatherer) advances one instruction at a     *)
(* time, under its mutex.  An operation that has nothing left to do, since *)
(* what it would insert is there, stays without effect and is not taken.   *)
(*                                                                         *)
(* The work queue is the one of WorkQueue: a worker takes the tasks of its *)
(* own queue, first those that were there at the start and then the newest *)
(* one, and steals when it has none.  Who retains whom, which is recorded  *)
(* for diagnostics only, is left out.                                      *)
(***************************************************************************)
EXTENDS ReachabilityRules, DexExecution

CONSTANTS Worker,   \* the numbers from 0
          Program   \* a sequence of programs

VARIABLES
  number,    \* the program is Program[number]
  tasks,     \* the tasks in the work queue: initial ones, and additional ones
             \* with the newest first
  todo,      \* the operations of each worker
  reach,     \* marked objects, and the sets of ReachableAspects
  cond,      \* ConditionallyMarked: the sets
  waiting,   \* ConditionallyMarked: the methods whose gatherers wait for a
             \* class to be instantiable, or for a method to return
  gatherer,  \* the gatherer of each method
  phase      \* "marking", then "marked", then "done"

vars == <<number, tasks, todo, reach, cond, waiting, gatherer, phase>>

P == Program[number]

NoGatherer == [next |-> "initial", lock |-> FALSE, pushed |-> {}, visited |-> 0,
               instantiable |-> [c \in Scope(P) |-> {}],
               returning |-> [m \in Method(P) \cup {None} |-> {}]]

\* add_item deals the root set out to the workers.
Dealt(roots, t) ==
  LET mine == {k \in 1 .. Len(roots) : k % Cardinality(Worker) = t}
  IN  [k \in 1 .. Cardinality(mine) |->
         <<"CLASS", roots[CHOOSE j \in mine : Cardinality({i \in mine : i <= j}) = k]>>]

Init ==
  /\ number \in DOMAIN Program
  /\ \E roots \in SetToSeqs(RootClasses(P)) :
       tasks = [t \in Worker |-> [initial |-> Dealt(roots, t), additional |-> <<>>]]
  /\ todo = [t \in Worker |-> <<>>]
  /\ reach = [marked |-> RootClasses(P), instantiable |-> {}, direct |-> {},
              callable |-> {}, implementation |-> {}, exact |-> {}, base |-> {},
              dynamic |-> {}, returning |-> {}, zombie |-> {}]
  /\ cond = [retained |-> IfRetained(P), dynamic |-> IfDynamicallyReferenced(P),
             instantiable |-> IfInstantiable(P), direct |-> {}, exact |-> {},
             callable |-> {}]
  /\ waiting = [instantiable |-> [c \in Scope(P) |-> {}],
                returning |-> [m \in Method(P) \cup {None} |-> {}]]
  /\ gatherer = [m \in Method(P) |-> NoGatherer]
  /\ phase = "marking"

\* The operations op on each element of a sequence.
Each(op, xs) == [k \in 1 .. Len(xs) |-> <<op, xs[k]>>]
If(test, ops) == IF test THEN ops ELSE <<>>

Runs(t, op) == todo[t] # <<>> /\ Head(todo[t])[1] = op
Arg(t) == Head(todo[t])[2]

\* Calls that return early for what is not in the scope, or not considered.
External(op) ==
  LET x == op[2]
  IN  CASE op[1] = "push" -> x \notin Scope(P) \cup Method(P) \cup Field(P)
        [] op[1] = "instantiable" -> x \notin Scope(P)
        [] op[1] = "exact" -> P.mth[x].external
        [] op[1] = "dynamically_referenced" -> ~consider_dynamically_referenced(P, x)
        [] OTHER -> FALSE

\* Calls that return early since what they insert is there, or have nothing to
\* do for an object that is marked.
Present(op) ==
  LET x == op[2]
  IN  CASE op[1] \in {"push", "push if retained", "push if instantiable", "if retained",
                      "if instantiable", "test retained", "test instantiable", "test zombie"} ->
             x \in reach.marked
        [] op[1] = "dynamically_referenced" -> x \in reach.dynamic
        [] op[1] \in {"instantiable", "direct", "callable", "implementation", "exact"} ->
             x \in reach[op[1]]
        [] OTHER -> FALSE

\* An operation that will have no effect, whenever it is executed.
Idle(op) == External(op) \/ Present(op)

\* The worker goes on with the operations, and then with those it had.
Then(t, ops) ==
  todo' = [todo EXCEPT ![t] = SelectSeq(ops \o Tail(@), LAMBDA op : ~Idle(op))]

\* push_task, for a sequence of tasks.
Push(t, new) == tasks' = [tasks EXCEPT ![t].additional = Reverse(new) \o @]

\* Insert x into a set, and go on with the operations if it is new.
Insert(t, set, x, ops, new) ==
  IF x \in reach[set]
  THEN Then(t, <<>>) /\ UNCHANGED <<reach, tasks>>
  ELSE /\ reach' = [reach EXCEPT ![set] = @ \cup {x}]
       /\ Then(t, ops)
       /\ Push(t, new)

InsertCond(t, set, x, ops) ==
  /\ cond' = [cond EXCEPT ![set] = @ \cup {x}]
  /\ Then(t, ops)

NoConds == UNCHANGED <<number, cond, waiting, gatherer, phase>>
-----------------------------------------------------------------------------
(***************************************************************************)
(* The visits.                                                             *)
(***************************************************************************)
visit_cls(c) ==
  If(InterfaceInstantiable(P, c), <<<<"instantiable", c>>>>)
    \o <<<<"push", P.cls[c].super>>>>
    \o If(~P.relaxed_interfaces, Each("push", P.cls[c].interfaces))
    \o Each("push", P.cls[c].refs)
    \o If(P.relaxed, Each("dynamically_referenced", P.cls[c].dynamic))
    \o If(Relaxed(P, c) /\ P.cls[c].string, <<<<"dynamically_referenced", c>>>>)
    \o Each("push if retained", Members(P, c))

visit_field_ref(f) == <<<<"push", P.fld[f].cls>>>> \o Each("push", P.fld[f].refs)

visit_instantiable(c) ==
  <<<<"instantiable", P.cls[c].super>>>>
    \o Each("instantiable", P.cls[c].interfaces)
    \o Each("push if instantiable",
            <<c>> \o IFields(P, c) \o P.cls[c].dmethods \o P.cls[c].vmethods)
    \o <<<<"schedule instantiable", c>>>>

visit_method_ref(m) ==
  LET c == P.mth[m].cls
      r == P.mth[m].resolved
      makes == c \in Scope(P) /\ ~P.cls[c].abstract /\ IsInit(P, m)
  IN  If(r # None, <<<<"push", r>>>>)
        \o If(r = m, <<<<"gather", m>>>>)
        \o <<<<"push", c>>>>
        \o Each("push", P.mth[m].refs)
        \o If(makes /\ ~P.check_callable, <<<<"instantiable", c>>>>)
        \o If(makes, <<<<IF Relaxed(P, c) THEN "direct if dynamic" ELSE "direct", c>>>>)
        \o If(r = m /\ IsVirtual(P, m) /\ ~P.mth[m].external /\ P.mth[m].root,
              <<<<"base", <<m, None, FALSE>>>>, <<"erase zombie", m>>>>)

Visit(task) ==
  CASE task[1] = "CLASS" -> visit_cls(task[2])
    [] task[1] = "FIELD" -> visit_field_ref(task[2])
    [] task[1] = "METHOD" -> visit_method_ref(task[2])
    [] task[1] = "INSTANTIABLE" -> visit_instantiable(task[2])
    [] task[1] = "RETURNS" -> <<<<"schedule returning", task[2]>>>>
    [] OTHER -> <<task>>

HasTask(t) == tasks[t].initial # <<>> \/ tasks[t].additional # <<>>

\* A worker takes a task.
Take(t) ==
  /\ phase = "marking"
  /\ todo[t] = <<>>
  /\ \E u \in IF HasTask(t) THEN {t} ELSE {u \in Worker : HasTask(u)} :
       LET queue == IF tasks[u].initial # <<>> THEN "initial" ELSE "additional"
       IN  /\ tasks' = [tasks EXCEPT ![u][queue] = Tail(@)]
           /\ todo' = [todo EXCEPT ![t] =
                SelectSeq(Visit(Head(tasks[u][queue])), LAMBDA op : ~Idle(op))]
  /\ UNCHANGED <<number, reach, cond, waiting, gatherer, phase>>
-----------------------------------------------------------------------------
(***************************************************************************)
(* Marking.                                                                *)
(***************************************************************************)
Kind(x) == IF x \in Method(P) THEN "METHOD" ELSE IF x \in Field(P) THEN "FIELD" ELSE "CLASS"

Mark(t, x) ==
  IF x \in Field(P)
  THEN Insert(t, "marked", x,
              Each("push", P.fld[x].refs)
                \o If(P.relaxed, Each("dynamically_referenced", P.fld[x].dynamic))
                \o <<<<"push task", x>>>>, <<>>)
  ELSE Insert(t, "marked", x, <<>>, <<<<Kind(x), x>>>>)

push(t) == Runs(t, "push") /\ Mark(t, Arg(t)) /\ NoConds

\* A field is visited after its references are pushed.
PushTask(t) ==
  /\ Runs(t, "push task")
  /\ Then(t, <<>>)
  /\ Push(t, <<<<"FIELD", Arg(t)>>>>)
  /\ UNCHANGED reach
  /\ NoConds

MarkIf(t, test) ==
  /\ IF test THEN Mark(t, Arg(t)) ELSE Then(t, <<>>) /\ UNCHANGED <<reach, tasks>>
  /\ NoConds

\* The members that wait for their class, in visit_cls and visit_instantiable.
PushIfRetained(t) ==
  Runs(t, "push if retained") /\ MarkIf(t, Arg(t) \in cond.retained)

PushIfInstantiable(t) ==
  Runs(t, "push if instantiable") /\ MarkIf(t, Arg(t) \in cond.instantiable)

\* The condition is recorded before it is tested: whoever makes it true either
\* finds the record or is found by the test.
Records(t, set, test) ==
  /\ UNCHANGED <<number, tasks, reach, waiting, gatherer, phase>>
  /\ IF Arg(t) \in reach.marked THEN Then(t, <<>>) /\ UNCHANGED cond
     ELSE InsertCond(t, set, Arg(t), <<<<test, Arg(t)>>>>)

push_if_class_retained(t) == Runs(t, "if retained") /\ Records(t, "retained", "test retained")

TestRetained(t) ==
  Runs(t, "test retained") /\ MarkIf(t, ClassOf(P, Arg(t)) \in reach.marked)

push_if_class_instantiable(t) ==
  Runs(t, "if instantiable") /\ Records(t, "instantiable", "test instantiable")

\* Mutant: the test after the insertion is left out.
TestInstantiable_Never(t) == Runs(t, "test instantiable") /\ MarkIf(t, FALSE)

TestInstantiable(t) ==
  Runs(t, "test instantiable") /\ MarkIf(t, ClassOf(P, Arg(t)) \in reach.instantiable)

Marking(t) ==
  \/ push(t) \/ PushTask(t) \/ PushIfRetained(t) \/ PushIfInstantiable(t)
  \/ push_if_class_retained(t) \/ TestRetained(t)
  \/ push_if_class_instantiable(t) \/ TestInstantiable(t)
-----------------------------------------------------------------------------
(***************************************************************************)
(* What is known of classes and methods.                                   *)
(***************************************************************************)
instantiable(t) ==
  /\ Runs(t, "instantiable")
  /\ Insert(t, "instantiable", Arg(t), <<>>, <<<<"INSTANTIABLE", Arg(t)>>>>)
  /\ NoConds

directly_instantiable(t) ==
  LET cs == Supers(P, Arg(t))
  IN  /\ Runs(t, "direct")
      /\ Insert(t, "direct", Arg(t),
                <<<<"instantiable", Arg(t)>>>>
                  \o Each("callable", InstanceMethods(P, cs))
                  \o Each("implementation", Implementations(P, cs, {})), <<>>)
      /\ NoConds

instance_callable(t) ==
  /\ Runs(t, "callable")
  /\ Insert(t, "callable", Arg(t), <<<<"release", Arg(t)>>>>, <<>>)
  /\ NoConds

implementation_method(t) ==
  LET m == Arg(t)
  IN  /\ Runs(t, "implementation")
      /\ Insert(t, "implementation", m,
                <<<<IF UnconditionallyCallable(P, m) THEN "callable" ELSE "callable if exact", m>>>>
                  \o If(OverridesAbstract(P, m), <<<<"test zombie", m>>>>), <<>>)
      /\ NoConds

InsertZombie(t) ==
  /\ Runs(t, "zombie")
  /\ Then(t, <<>>)
  /\ reach' = [reach EXCEPT !.zombie = @ \cup {Arg(t)}]
  /\ UNCHANGED tasks
  /\ NoConds

EraseZombie(t) ==
  /\ Runs(t, "erase zombie")
  /\ Then(t, <<>>)
  /\ reach' = [reach EXCEPT !.zombie = @ \ {Arg(t)}]
  /\ UNCHANGED tasks
  /\ NoConds

instance_callable_if_exact_invoke_virtual_target(t) ==
  /\ Runs(t, "callable if exact")
  /\ IF Arg(t) \in cond.exact THEN Then(t, <<>>) /\ UNCHANGED cond
     ELSE InsertCond(t, "exact", Arg(t), <<<<"test exact", Arg(t)>>>>)
  /\ UNCHANGED <<number, tasks, reach, waiting, gatherer, phase>>

\* A test that is followed by a call.
CallIf(t, test, call) ==
  /\ Then(t, If(test, <<<<call, Arg(t)>>>>))
  /\ UNCHANGED <<number, tasks, reach, cond, waiting, gatherer, phase>>

TestZombie(t) ==
  Runs(t, "test zombie") /\ CallIf(t, Arg(t) \notin reach.marked, "zombie")

TestExact(t) ==
  Runs(t, "test exact") /\ CallIf(t, Arg(t) \in reach.exact, "callable")

exact_invoke_virtual_target(t) ==
  LET m == Arg(t)
  IN  /\ Runs(t, "exact")
      /\ Insert(t, "exact", m, <<<<"if instantiable", m>>, <<"test callable", m>>>>, <<>>)
      /\ NoConds

TestCallable(t) ==
  Runs(t, "test callable") /\ CallIf(t, Arg(t) \in cond.exact, "callable")

\* Mutant: the overriding methods are not visited.
Children_None(m, base) == <<>>
Children(m, base) ==
  [k \in 1 .. Len(P.mth[m].children) |-> <<"base", <<P.mth[m].children[k], base, TRUE>>>>]

base_invoke_virtual_target(t) ==
  LET m == Arg(t)[1]
      base == IF Arg(t)[2] = P.mth[m].cls THEN None ELSE Arg(t)[2]
      exact == /\ ~P.mth[m].abstract
               /\ ~Arg(t)[3] \/ base = None \/ Overrides(P, m, base)
  IN  /\ Runs(t, "base")
      /\ Insert(t, "base", <<m, base>>,
                If(exact, <<<<"exact", m>>>>) \o Children(m, base), <<>>)
      /\ NoConds

\* The conditions of the seeds do not change any more, so that the members
\* are known here.
dynamically_referenced(t) ==
  LET c == Arg(t)
  IN  /\ Runs(t, "dynamically_referenced")
      /\ Insert(t, "dynamic", c,
                Each("if retained", SelectSeq(Members(P, c), LAMBDA x : x \in cond.dynamic))
                  \o <<<<"test direct", c>>>>, <<>>)
      /\ NoConds

TestDirect(t) ==
  Runs(t, "test direct") /\ CallIf(t, Arg(t) \in cond.direct, "direct")

push_directly_instantiable_if_class_dynamically_referenced(t) ==
  /\ Runs(t, "direct if dynamic")
  /\ InsertCond(t, "direct", Arg(t), <<<<"test dynamic", Arg(t)>>>>)
  /\ UNCHANGED <<number, tasks, reach, waiting, gatherer, phase>>

TestDynamic(t) ==
  Runs(t, "test dynamic") /\ CallIf(t, Arg(t) \in reach.dynamic, "direct")

returns(t) ==
  /\ Runs(t, "returns")
  /\ Insert(t, "returning", Arg(t), <<>>, <<<<"RETURNS", Arg(t)>>>>)
  /\ NoConds

Aspects(t) ==
  \/ instantiable(t) \/ directly_instantiable(t) \/ returns(t)
  \/ instance_callable(t) \/ implementation_method(t)
  \/ TestZombie(t) \/ InsertZombie(t) \/ EraseZombie(t)
  \/ instance_callable_if_exact_invoke_virtual_target(t) \/ TestExact(t)
  \/ exact_invoke_virtual_target(t) \/ TestCallable(t)
  \/ base_invoke_virtual_target(t)
  \/ dynamically_referenced(t) \/ TestDirect(t)
  \/ push_directly_instantiable_if_class_dynamically_referenced(t) \/ TestDynamic(t)
-----------------------------------------------------------------------------
(***************************************************************************)
(* The gatherers.                                                          *)
(***************************************************************************)
NoReferences ==
  [objects |-> <<>>, base |-> <<>>, super |-> <<>>, casts |-> <<>>,
   dynamic |-> <<>>, new |-> <<>>, instantiable |-> <<>>, returning |-> <<>>,
   returns |-> FALSE]

\* What gather_and_push does with the references.
PushReferences(m, r) ==
  Each("push", r.objects)
    \o [k \in DOMAIN r.base |-> <<"base", <<r.base[k][1], r.base[k][2], FALSE>>>>]
    \o Each("callable", r.super)
    \o Each("if instantiable", r.casts)
    \o Each("dynamically_referenced", r.dynamic)
    \o Each("direct", r.new)
    \o [k \in DOMAIN r.instantiable |-> <<"wait instantiable", <<r.instantiable[k], m>>>>]
    \o [k \in DOMAIN r.returning |-> <<"wait returning", <<r.returning[k], m>>>>]
    \o If(r.returns, <<<<"returns", m>>>>)

\* The initial advance of a gatherer, and the next one if the code may be
\* looked at already.
gather_and_push(t) ==
  LET m == Arg(t)
      r == [NoReferences EXCEPT !.objects = P.mth[m].refs,
                                !.dynamic = If(P.relaxed, P.mth[m].dynamic)]
      ready == \/ ~P.check_instantiable \/ ~P.check_callable
               \/ IsStatic(P, m) \/ m \in reach.callable
  IN  /\ Runs(t, "gather")
      /\ gatherer' = [gatherer EXCEPT ![m].next = "callable"]
      /\ Then(t, IF ready THEN <<<<"advance", <<m, "callable", None, r>>>>>>
                 ELSE PushReferences(m, r) \o <<<<"hold", m>>>>)
      /\ UNCHANGED <<number, tasks, reach, cond, waiting, phase>>

push_if_instance_method_callable(t) ==
  /\ Runs(t, "hold")
  /\ InsertCond(t, "callable", Arg(t), <<<<"test held", Arg(t)>>>>)
  /\ UNCHANGED <<number, tasks, reach, waiting, gatherer, phase>>

TestHeld(t) == Runs(t, "test held") /\ CallIf(t, Arg(t) \in reach.callable, "release")

\* The gatherer is swapped out by the method that was just found to be
\* callable, or by the holder that found it callable after all.
Release(t) ==
  /\ Runs(t, "release")
  /\ Then(t, If(Arg(t) \in cond.callable,
                <<<<"advance", <<Arg(t), "callable", None, NoReferences>>>>>>))
  /\ cond' = [cond EXCEPT !.callable = @ \ {Arg(t)}]
  /\ UNCHANGED <<number, tasks, reach, waiting, gatherer, phase>>

\* Mutant: what was waited for by several methods is taken from one only.
Resolved_One(g, kind, key) == [g EXCEPT ![kind][key] = {}]

\* The gatherer waits no more at the needles under the key, nor under others.
Resolved(g, kind, key) ==
  [g EXCEPT ![kind] = [k \in DOMAIN g[kind] |-> g[kind][k] \ g[kind][key]]]

\* advance, up to its loop.  All that create a gatherer let it consider the code
\* (m_consider_code).
AdvanceBegin(t) ==
  LET m == Arg(t)[1]
      kind == Arg(t)[2]
      key == Arg(t)[3]
      g == gatherer[m]
      locked == [g EXCEPT !.lock = TRUE]
  IN  /\ Runs(t, "advance")
      /\ ~g.lock
      /\ \/ /\ kind = "callable"
            /\ gatherer' = [gatherer EXCEPT ![m] =
                 [locked EXCEPT !.next = "resolved",
                                !.pushed = IF HasCode(P, m) THEN {1} ELSE {}]]
            /\ Then(t, <<<<"walk", <<m, If(HasCode(P, m), <<<<1, 1>>>>), Arg(t)[4]>>>>>>)
         \/ /\ kind # "callable"
            /\ gatherer' = [gatherer EXCEPT ![m] = Resolved(locked, kind, key)]
            /\ Then(t, <<<<"walk", <<m, SetToSeq(g[kind][key]), Arg(t)[4]>>>>>>)
      /\ UNCHANGED <<number, tasks, reach, cond, waiting, phase>>

\* A step of the loop of advance, at the needle <<b, i>>.
Walks(t) == Runs(t, "walk") /\ Arg(t)[2] # <<>>
Needle(t) == Head(Arg(t)[2])
BlockAt(t) == P.mth[Arg(t)[1]].code[Needle(t)[1]]
InsnAt(t) == BlockAt(t).insns[Needle(t)[2]]
InBlock(t) == Needle(t)[2] <= Len(BlockAt(t).insns)
After(t) == <<Needle(t)[1], Needle(t)[2] + 1>>

\* The loop goes on with the gatherer g, the needles, and the references r.
Walk(t, g, needles, r) ==
  LET m == Arg(t)[1]
  IN  /\ gatherer' = [gatherer EXCEPT ![m] = g]
      /\ Then(t, <<<<"walk", <<m, needles, r>>>>>>)
      /\ UNCHANGED <<number, tasks, reach, cond, waiting, phase>>

\* visit_succ for some edges.
VisitSuccs(t, g, succs, throws, r) ==
  LET targets == succs \o [k \in DOMAIN throws |-> throws[k][1]]
      fresh == SelectSeq(targets, LAMBDA b : b \notin g.pushed)
  IN  Walk(t, [g EXCEPT !.pushed = @ \cup Range(targets)],
           Tail(Arg(t)[2]) \o [k \in DOMAIN fresh |-> <<fresh[k], 1>>],
           [r EXCEPT !.objects = @ \o [k \in DOMAIN throws |-> throws[k][2]]])

\* The end of a block.
BlockEnds(t) ==
  /\ Walks(t)
  /\ ~InBlock(t)
  /\ VisitSuccs(t, gatherer[Arg(t)[1]], BlockAt(t).succs, BlockAt(t).throws, Arg(t)[3])

\* visit_throw_succs_if_last_insn.
VisitThrows(t, g, r) ==
  VisitSuccs(t, g, <<>>, If(Needle(t)[2] = Len(BlockAt(t).insns), BlockAt(t).throws), r)

\* A cast is recorded; if there is no instance the walk goes on behind it.
Casts(t) ==
  IF InsnAt(t).op = "cast" /\ InsnAt(t).cls \in Scope(P)
  THEN [Arg(t)[3] EXCEPT !.casts = Append(@, InsnAt(t).cls)] ELSE Arg(t)[3]

\* The gatherer waits at the needle n for one of the keys.
WaitAt(g, kind, keys, n) ==
  [g EXCEPT ![kind] = [k \in DOMAIN g[kind] |-> IF k \in keys THEN g[kind][k] \cup {n}
                                                              ELSE g[kind][k]]]
NewKeys(g, kind, keys) == SetToSeq({k \in keys : g[kind][k] = {}})

Uninstantiable(t) ==
  LET g == gatherer[Arg(t)[1]]
      c == InstantiableDependency(P, InsnAt(t), reach.instantiable)
  IN  /\ Walks(t) /\ InBlock(t) /\ c # None
      /\ IF InsnAt(t).op = "cast"
         THEN Walk(t, [g EXCEPT !.visited = @ + 1], Append(Tail(Arg(t)[2]), After(t)), Casts(t))
         ELSE VisitThrows(t, WaitAt(g, "instantiable", {c}, Needle(t)),
                [Casts(t) EXCEPT !.instantiable = @ \o NewKeys(g, "instantiable", {c})])

\* default_gather_mie.
Gather(r, i) ==
  [r EXCEPT !.objects = @ \o Objects(i), !.base = @ \o BaseTargets(P, i),
            !.super = @ \o SuperTargets(P, i), !.dynamic = @ \o DynamicReferences(P, i),
            !.new = @ \o If(i.op = "new", <<i.cls>>), !.returns = @ \/ i.op = "return"]

Visited(t) ==
  LET g == [gatherer[Arg(t)[1]] EXCEPT !.visited = @ + 1]
      r == Gather(Casts(t), InsnAt(t))
      ms == ReturningDependency(P, InsnAt(t), reach.returning)
  IN  /\ Walks(t) /\ InBlock(t)
      /\ InstantiableDependency(P, InsnAt(t), reach.instantiable) = None
      /\ IF ms = {} THEN Walk(t, g, <<After(t)>> \o Tail(Arg(t)[2]), r)
         ELSE VisitThrows(t, WaitAt(g, "returning", ms, After(t)),
                [r EXCEPT !.returning = @ \o NewKeys(g, "returning", ms)])

\* Mutant: the mutex is not released.
AdvanceEnd_Locked(t) ==
  /\ Runs(t, "walk") /\ Arg(t)[2] = <<>>
  /\ Then(t, PushReferences(Arg(t)[1], Arg(t)[3]))
  /\ UNCHANGED <<number, tasks, reach, cond, waiting, gatherer, phase>>

AdvanceEnd(t) ==
  /\ Runs(t, "walk") /\ Arg(t)[2] = <<>>
  /\ gatherer' = [gatherer EXCEPT ![Arg(t)[1]].lock = FALSE]
  /\ Then(t, PushReferences(Arg(t)[1], Arg(t)[3]))
  /\ UNCHANGED <<number, tasks, reach, cond, waiting, phase>>

(***************************************************************************)
(* Gatherers that wait for a class or a method.  A gatherer that comes     *)
(* late, when the waiting ones have been counted, has a task of its own.   *)
(***************************************************************************)
Wait(t, kind, retry) ==
  LET key == Arg(t)[1]
      m == Arg(t)[2]
  IN  /\ waiting' = [waiting EXCEPT ![kind][key] = @ \cup {m}]
      /\ Then(t, If(m \notin waiting[kind][key], <<<<retry, key>>>>))
      /\ UNCHANGED <<number, tasks, reach, cond, gatherer, phase>>

WaitInstantiable(t) ==
  Runs(t, "wait instantiable") /\ Wait(t, "instantiable", "retry instantiable")
WaitReturning(t) ==
  Runs(t, "wait returning") /\ Wait(t, "returning", "retry returning")

\* The tasks for n gatherers that wait for the argument.
Schedule(t, task, n) ==
  /\ Then(t, <<>>)
  /\ Push(t, [k \in 1 .. n |-> <<task, Arg(t)>>])
  /\ UNCHANGED <<number, reach, cond, waiting, gatherer, phase>>

RetryInstantiable(t) ==
  /\ Runs(t, "retry instantiable")
  /\ Schedule(t, "gather instantiable", IF Arg(t) \in reach.instantiable THEN 1 ELSE 0)

\* Mutant: a gatherer that lost the race is left to the visit of the method.
RetryReturning_Never(t) ==
  Runs(t, "retry returning") /\ Schedule(t, "gather returning", 0)

RetryReturning(t) ==
  /\ Runs(t, "retry returning")
  /\ Schedule(t, "gather returning", IF Arg(t) \in reach.returning THEN 1 ELSE 0)

\* The end of visit_instantiable, and visit_returns.
ScheduleInstantiable(t) ==
  /\ Runs(t, "schedule instantiable")
  /\ Schedule(t, "gather instantiable", Cardinality(waiting.instantiable[Arg(t)]))

ScheduleReturning(t) ==
  /\ Runs(t, "schedule returning")
  /\ Schedule(t, "gather returning", Cardinality(waiting.returning[Arg(t)]))

\* A task takes any of the waiting gatherers, if there is one.
Resume(t, kind) ==
  LET key == Arg(t)
  IN  /\ \/ /\ waiting[kind][key] = {}
            /\ Then(t, <<>>)
            /\ UNCHANGED waiting
         \/ \E m \in waiting[kind][key] :
              /\ waiting' = [waiting EXCEPT ![kind][key] = @ \ {m}]
              /\ Then(t, <<<<"advance", <<m, kind, key, NoReferences>>>>>>)
      /\ UNCHANGED <<number, tasks, reach, cond, gatherer, phase>>

visit_method_references_gatherer_instantiable(t) ==
  Runs(t, "gather instantiable") /\ Resume(t, "instantiable")
visit_method_references_gatherer_returning(t) ==
  Runs(t, "gather returning") /\ Resume(t, "returning")

Gathering(t) ==
  \/ gather_and_push(t) \/ AdvanceBegin(t) \/ AdvanceEnd(t)
  \/ push_if_instance_method_callable(t) \/ TestHeld(t) \/ Release(t)
  \/ BlockEnds(t) \/ Uninstantiable(t) \/ Visited(t)
  \/ WaitInstantiable(t) \/ RetryInstantiable(t) \/ ScheduleInstantiable(t)
  \/ WaitReturning(t) \/ RetryReturning(t) \/ ScheduleReturning(t)
  \/ visit_method_references_gatherer_instantiable(t)
  \/ visit_method_references_gatherer_returning(t)
-----------------------------------------------------------------------------
\* The work queue is done.
Marked ==
  /\ phase = "marking"
  /\ \A t \in Worker : todo[t] = <<>> /\ ~HasTask(t)
  /\ phase' = "marked"
  /\ UNCHANGED <<number, tasks, todo, reach, cond, waiting, gatherer>>

\* compute_zombie_methods, and finish.
Finish ==
  LET zs(m) == Zombies(P, m, reach.marked)
      all == UNION {zs(m) : m \in reach.zombie}
  IN  /\ phase = "marked"
      /\ phase' = "done"
      /\ reach' = [reach EXCEPT !.zombie = {m \in @ : zs(m) # {}},
                                !.marked = @ \cup all,
                                !.callable = (@ \cup all) \cap (reach.marked \cup all)]
      /\ UNCHANGED <<number, tasks, todo, cond, waiting, gatherer>>

Step(t) == Take(t) \/ Marking(t) \/ Aspects(t) \/ Gathering(t)
Next == (\E t \in Worker : Step(t)) \/ Marked \/ Finish

\* The workers are threads of the pool, the rest is the caller.
FairSpec == /\ Init
            /\ [][Next]_vars
            /\ \A t \in Worker : WF_vars(Step(t))
            /\ WF_vars(Marked \/ Finish)
-----------------------------------------------------------------------------
TypeOK ==
  /\ number \in DOMAIN Program
  /\ reach.marked \subseteq Scope(P) \cup Method(P) \cup Field(P)
  /\ reach.instantiable \cup reach.direct \cup reach.dynamic \subseteq Scope(P)
  /\ reach.callable \cup reach.exact \cup reach.returning \subseteq Method(P)
  /\ phase \in {"marking", "marked", "done"}

Expected == [k \in DOMAIN Program |-> Rules(Program[k])]
Behaviours == [k \in DOMAIN Program |-> Executions(Program[k])]

\* Whatever the order in which the workers take tasks and meet conditions,
\* when the work queue is done every set holds exactly what the rules give:
\* no conditional mark was missed, and nothing is kept that need not be.
Confluent ==
  phase = "marked" =>
    \A set \in {"marked", "instantiable", "direct", "callable", "implementation",
                "exact", "dynamic", "returning"} :
      reach[set] = Expected[number][set]

\* The assertions of the code: a method is held once, a gatherer advances in
\* order, only concrete methods of the scope become callable; and in finish,
\* no gatherer is left that waits for what has come true.
AssertsHold ==
  /\ \A t \in Worker :
       /\ Runs(t, "hold") => Arg(t) \notin cond.callable
       /\ Runs(t, "advance") =>
            (gatherer[Arg(t)[1]].next = "callable") = (Arg(t)[2] = "callable")
       /\ Runs(t, "callable") =>
            ~P.mth[Arg(t)].abstract /\ ~P.mth[Arg(t)].external
  /\ phase = "marked" =>
       /\ \A c \in reach.instantiable : waiting.instantiable[c] = {}
       /\ \A m \in reach.returning : waiting.returning[m] = {}

Size(m) == FoldLeft(LAMBDA n, b : n + Len(b.insns), 0, P.mth[m].code)

\* A gatherer looks at an instruction once, though it is resumed for several
\* reasons and by several workers: its count never exceeds the code.
VisitedOnce == \A m \in Method(P) : gatherer[m].visited <= Size(m)

\* No execution needs what the sweep removes: methods that can be entered,
\* classes of objects, and all that executed instructions name are marked,
\* and instance methods that can be entered keep their bodies.
ExecutionKept ==
  phase = "done" =>
    LET E == Behaviours[number]
    IN  /\ E.calls \subseteq reach.marked
        /\ P.check_callable => {m \in E.calls : ~IsStatic(P, m)} \subseteq reach.callable
        /\ UNION {Range(Supers(P, d)) : d \in E.objects} \subseteq reach.marked \cap reach.instantiable
        /\ \A i \in ExecutedInsns(P, E) :
             i.op = "cast" \/ Range(Objects(i)) \cap (Scope(P) \cup Method(P) \cup Field(P))
                                \subseteq reach.marked

\* The sweep leaves no class that is made objects of without an implementation
\* of a kept abstract method that it has implemented before: the zombies.
ImplementationsKept ==
  phase = "done" =>
    \A c \in reach.direct :
      \A a \in {m \in reach.marked \cap Method(P) : P.mth[m].abstract} :
        LET ms == {m \in UNION {Range(P.cls[d].vmethods) : d \in Range(Supers(P, c))} :
                     a \in Overridden(P, m) /\ ~P.mth[m].abstract}
        IN  ms = {} \/ ms \cap reach.marked # {}

\* The marking ends: nobody waits for a gatherer's mutex forever, and the work
\* queue runs dry.
MarkingEnds == <>(phase = "done")
=============================================================================

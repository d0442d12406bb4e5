-------------------------- MODULE ParallelFixpoint --------------------------
(***************************************************************************)
(* ParallelMonotonicFixpointIterator::run of                               *)
(* sparta/MonotonicFixpointIterator.h.  The worker threads of a WorkQueue  *)
(* take the positions of the weak partial ordering whose scheduling        *)
(* predecessors are done, analyse the node or test the component for       *)
(* stability, and then update the counters of other positions one by one.  *)
(* MonotonicFixpointIterator::run does the same on one thread, in FIFO     *)
(* order: its behaviours are among those of this module.                   *)
(*                                                                         *)
(* The work queue is the multiset `queue': a pushed task is run once, by   *)
(* any thread, and run_all returns when none is left or under way, which   *)
(* is what WorkQueue.tla shows.  An access to the states of the analysis   *)
(* is one step; NoRace shows that it may be.                               *)
(***************************************************************************)
EXTENDS FixpointBase, WeakPartialOrdering

CONSTANTS Threads,  \* the worker threads
          Graphs,   \* the graphs with their transformers
          Inits     \* the initial value of each of the calls of run

VARIABLES g,        \* the graph: chosen once
          wpo,      \* m_wpo
          calls,    \* number of calls of run so far
          running,  \* a call is under way
          st,       \* m_entry_states and m_exit_states
          iter,     \* Context::m_local_iterations, of which only being 0
                    \* matters: 0 or 1
          counter,  \* wpo_counter
          queue,    \* the number of tasks waiting for each position
          task      \* what each thread is doing

vars == <<g, wpo, calls, running, st, iter, counter, queue, task>>

Idle == [pc |-> "idle", idx |-> 0, todo |-> {}]
init == Inits[calls]
num_preds(i) == get_num_preds(wpo, i)
head_of(x) == wpo.node[get_head_of_exit(wpo, x)]
InTask(t, pc) == task[t].pc = pc
AllIdle == \A t \in Threads : InTask(t, "idle")

Init ==
  /\ g \in Graphs
  /\ wpo = Wpo(g)
  /\ calls = 0
  /\ running = FALSE
  /\ st = [entry |-> AllBottom(g), exit |-> AllBottom(g)]
  /\ iter = AllBottom(g)
  /\ counter = [i \in Nodes(wpo) |-> 0]
  /\ queue = [i \in Nodes(wpo) |-> 0]
  /\ task = [t \in Threads |-> Idle]

\* run, up to run_all: set_all_to_bottom, a new context, new counters.
Run ==
  /\ ~running
  /\ calls < Len(Inits)
  /\ running' = TRUE
  /\ calls' = calls + 1
  /\ st' = [entry |-> AllBottom(g), exit |-> AllBottom(g)]
  /\ iter' = AllBottom(g)
  /\ counter' = [i \in Nodes(wpo) |-> 0]
  /\ queue' = [queue EXCEPT ![get_entry(wpo)] = 1]
  /\ UNCHANGED <<g, wpo, task>>

\* A worker takes a task, and resets the counter before anything else.
TakeTask(t) ==
  /\ InTask(t, "idle")
  /\ \E i \in Nodes(wpo) :
       /\ queue[i] > 0
       /\ queue' = [queue EXCEPT ![i] = @ - 1]
       /\ counter' = [counter EXCEPT ![i] = 0]
       /\ task' = [task EXCEPT ![t] =
                     [Idle EXCEPT !.idx = i,
                                  !.pc = IF is_exit(wpo, i) THEN "test"
                                                            ELSE "analyze"]]
  /\ UNCHANGED <<g, wpo, calls, running, st, iter>>

\* The task goes on to the next element of its loop, or ends.
Continue(t, pc, todo) ==
  task' = [task EXCEPT ![t] = IF todo = {} THEN Idle
                              ELSE [@ EXCEPT !.pc = pc, !.todo = todo]]

\* A node that is not an exit.
AnalyzeVertex(t) ==
  /\ InTask(t, "analyze")
  /\ st' = analyze_vertex(g, init, st, wpo.node[task[t].idx])
  /\ Continue(t, "signal", wpo.succ[task[t].idx])
  /\ UNCHANGED <<g, wpo, calls, running, iter, counter, queue>>

NewHeadState(x) == compute_entry_state(g, init, st.exit, head_of(x), bottom)

\* Mutant: the test for stability is strict.
IsStable_Strict(x) == NewHeadState(x) < st.entry[head_of(x)]
IsStable(x) == leq(NewHeadState(x), st.entry[head_of(x)])

\* An exit whose component has stabilised.
Stabilized(t) ==
  LET x == task[t].idx
  IN  /\ InTask(t, "test")
      /\ IsStable(x)
      /\ iter' = [iter EXCEPT ![head_of(x)] = 0]
      /\ st' = [st EXCEPT !.entry[head_of(x)] = NewHeadState(x)]
      /\ Continue(t, "signal", wpo.succ[x])
      /\ UNCHANGED <<g, wpo, calls, running, counter, queue>>

OuterPositions(x) == {i \in Nodes(wpo) : wpo.outer[x][i] > 0}

\* An exit whose component goes round again.  When its head is the entry,
\* which nothing precedes, the head is pushed once the counters are done.
NotStabilized(t) ==
  LET x == task[t].idx
  IN  /\ InTask(t, "test")
      /\ ~IsStable(x)
      /\ st' = [st EXCEPT !.entry[head_of(x)] =
                            extrapolate(iter[head_of(x)], @, NewHeadState(x))]
      /\ iter' = [iter EXCEPT ![head_of(x)] = 1]
      /\ task' = [task EXCEPT ![t].pc = "restart", ![t].todo = OuterPositions(x)]
      /\ UNCHANGED <<g, wpo, calls, running, counter, queue>>

\* Mutant: the counter is set, as in the paper, instead of added to.
Added_Set(i, n) == n

\* The value an atomic addition leaves in the counter of position i.
Added(i, n) == counter[i] + n

AddTo(i, n) ==
  /\ counter' = [counter EXCEPT ![i] = Added(i, n)]
  /\ queue' = [queue EXCEPT ![i] =
                 IF Added(i, n) = num_preds(i) THEN @ + 1 ELSE @]

\* The loop over the successors, in ascending order.
Signal(t) ==
  LET todo == task[t].todo
      i    == CHOOSE j \in todo : \A k \in todo : j <= k
  IN  /\ InTask(t, "signal")
      /\ AddTo(i, 1)
      /\ Continue(t, "signal", todo \ {i})
      /\ UNCHANGED <<g, wpo, calls, running, st, iter>>

\* The loop over get_num_outer_preds, in the order of an unordered map.
RestartAdd(t) ==
  /\ InTask(t, "restart")
  /\ \E i \in task[t].todo :
       /\ AddTo(i, wpo.outer[task[t].idx][i])
       /\ task' = [task EXCEPT ![t].todo = @ \ {i}]
  /\ UNCHANGED <<g, wpo, calls, running, st, iter>>

RestartDone(t) ==
  LET h == get_head_of_exit(wpo, task[t].idx)
  IN  /\ InTask(t, "restart")
      /\ task[t].todo = {}
      /\ queue' = [queue EXCEPT ![h] = IF h = get_entry(wpo) THEN @ + 1 ELSE @]
      /\ task' = [task EXCEPT ![t] = Idle]
      /\ UNCHANGED <<g, wpo, calls, running, st, iter, counter>>

\* run_all returns, and run with it.
Return ==
  /\ running
  /\ AllIdle
  /\ \A i \in Nodes(wpo) : queue[i] = 0
  /\ running' = FALSE
  /\ UNCHANGED <<g, wpo, calls, st, iter, counter, queue, task>>

Step(t) ==
  \/ TakeTask(t)
  \/ AnalyzeVertex(t)
  \/ Stabilized(t)
  \/ NotStabilized(t)
  \/ Signal(t)
  \/ RestartAdd(t)
  \/ RestartDone(t)

Next == Run \/ (\E t \in Threads : Step(t)) \/ Return

Fairness == WF_vars(Return) /\ \A t \in Threads : WF_vars(Step(t))
Spec == Init /\ [][Next]_vars
FairSpec == Spec /\ Fairness
-----------------------------------------------------------------------------
TypeOK ==
  /\ g \in Graphs
  /\ calls \in 0 .. Len(Inits)
  /\ running \in BOOLEAN
  /\ st \in [entry : [DOMAIN g.succ -> 0 .. Top], exit : [DOMAIN g.succ -> 0 .. Top]]
  /\ iter \in [DOMAIN g.succ -> {0, 1}]
  /\ counter \in [Nodes(wpo) -> 0 .. Cardinality(Nodes(wpo))]
  /\ queue \in [Nodes(wpo) -> 0 .. 1]
  /\ task \in [Threads -> [pc : {"idle", "analyze", "test", "signal", "restart"},
                           idx : 0 .. Len(wpo.node), todo : SUBSET Nodes(wpo)]]

Reads(t) ==
  CASE InTask(t, "analyze") -> Preds(g, wpo.node[task[t].idx])
    [] InTask(t, "test")    -> Preds(g, head_of(task[t].idx))
    [] OTHER                -> {}
Target(t) ==
  CASE InTask(t, "analyze") -> {wpo.node[task[t].idx]}
    [] InTask(t, "test")    -> {head_of(task[t].idx)}
    [] OTHER                -> {}

\* No thread reads the exit state of a node, or writes the states of a node,
\* while another one is writing them: the maps of states have no lock, the
\* scheduling constraints are all that protects them.
NoRace ==
  \A t, u \in Threads :
    t # u => /\ Target(t) \cap Target(u) = {}
             /\ InTask(t, "analyze") => Target(t) \cap Reads(u) = {}

Reached == {wpo.node[i] : i \in Nodes(wpo)}

\* When run returns every counter is back to 0, as it asserts, and the states
\* are those of the recursive sequential iteration, whatever the threads did;
\* in the second call, those of its own initial value.  They are a
\* post-fixpoint: what flows into a node is below its entry state, and its
\* exit state is above what the node makes of the entry state.
FixpointReached ==
  (~running /\ calls > 0) =>
    LET ref == WtoRun(g, init) IN
    /\ \A i \in Nodes(wpo) : counter[i] = 0
    /\ \A n \in Reached :
         /\ st.entry[n] = ref.entry[n] /\ st.exit[n] = ref.exit[n]
         /\ leq(compute_entry_state(g, init, st.exit, n, bottom), st.entry[n])
         /\ leq(analyze_node(g, n, st.entry[n]), st.exit[n])

\* Every call of run returns: no position waits for a predecessor that is
\* never counted, and widening stops every component.
RunReturns == running ~> ~running
-----------------------------------------------------------------------------
RECURSIVE InComponent(_, _)
InComponent(i, h) ==
  LET m == IF is_exit(wpo, i) THEN get_head_of_exit(wpo, i) ELSE i
  IN  m = h \/ (wpo.parent[m] # m /\ InComponent(wpo.parent[m], h))

Precedes == {<<i, j>> \in Nodes(wpo) \X Nodes(wpo) : j \in wpo.succ[i]}
Position(n) == CHOOSE i \in Nodes(wpo) : wpo.node[i] = n /\ ~is_exit(wpo, i)

\* The decomposition, which never changes, is what the iteration needs.  An
\* edge either leads back to the head of a component it starts in, or its
\* source precedes its target.  The numbers of outer predecessors are those of
\* the definition: the scheduling predecessors outside of the component.
WpoSound ==
  calls = 0 =>
    /\ \A m \in Reached : \A n \in Range(g.succ[m]) :
         \/ /\ wpo.kind[Position(n)] = "head"
            /\ InComponent(Position(m), Position(n))
         \/ Position(n) \in Closure(Precedes, {Position(m)}) /\ m # n
    /\ \A i \in Nodes(wpo) :
         \A j \in wpo.succ[i] : i \notin Closure(Precedes, {j})
    /\ \A x \in DOMAIN wpo.outer, i \in Nodes(wpo) :
         wpo.outer[x][i] =
           IF InComponent(i, x + 1)
           THEN Cardinality({p \in get_predecessors(wpo, i) :
                               ~InComponent(p, x + 1)})
           ELSE 0
=============================================================================

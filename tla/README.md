# A TLA+ model of the concurrent core of redex

Redex is an optimizer for Android bytecode. It loads the dex files of an app,
runs a configured sequence of passes over them and writes them again. Nearly
all passes analyse and rewrite methods in parallel, and they all do it on the
same hand-written concurrency: a thread pool, a work-stealing queue, a priority
pool with a dependency scheduler on top, a lock-free hashtable below every
concurrent set and map, the global tables of the program under transformation,
a parallel fixpoint iterator, and the parallel marking that decides what is
deleted. A flaw there shows up as a rare hang, a lost method or a result that
differs from run to run, in whatever pass happens to be running. This project
models that core, checks it with TLC, and proves most of its safety properties
with TLAPS.

## 1. Inventory

### Parts, state and operations

| part | source | state | operations | talks to |
|---|---|---|---|---|
| `sparta::ThreadPool` (the `AsyncRunner`) | `sparta/include/sparta/ThreadPool.h`, wrapped by `libredex/ThreadPool.cpp` | `m_threads`, `m_waiting`, `m_pending`, `m_joining`, `m_exception` | `run_async`, the thread loop `run`, `join` | runs the workers of `WorkQueue` and `PriorityThreadPool` |
| `sparta::WorkQueue` | `sparta/include/sparta/WorkQueue.h` | per worker: initial tasks and next index, stack of additional tasks, `m_running`; three shared counters; a semaphore; the exception | `add_item`, `push_task`, `pop_task`, `set_running`, `run_all` | used by nearly every pass through `workqueue_run`, `walk::parallel` |
| `run_in_parallel` | same file | count of remaining workers, mutex, condition variable | start the workers on an `AsyncRunner` or on threads, wait for them | `ThreadPool` |
| `PriorityThreadPool` | `libredex/PriorityThreadPool.h` | pending items by priority, running threads, running items, shutdown flag | `set_num_threads`, `post`, `wait`, `join`, thread loop, destructor | `ThreadPool` or own threads |
| `PriorityThreadPoolDAGScheduler` | `libredex/PriorityThreadPoolDAGScheduler.h` | wait counts, waiting-for relation, priorities, continuations | `add_dependency`, `augment`, `schedule`, `decrement_wait_count`, `run` | `PriorityThreadPool`, `ConcurrentMap`; used by the method inliner |
| `ConcurrentHashtable` | `libredex/ConcurrentContainers.{h,cpp}` | versions of the bucket array, chains with tagged pointers, element count, erased nodes, resize mutex | `get`, `try_insert`/`try_emplace`, `erase`, `reserve`; not thread-safe: `compact`, `clear`, copies, iteration | below all concurrent containers |
| `ConcurrentMap`, `InsertOnlyConcurrentMap`, `AtomicMap`, `ConcurrentSet` | same file | slots of hashtables, a mutex per slot | `insert_or_assign`, `update`, `get_and_erase`, `get_or_create...`, `compare_exchange`... | `ConcurrentHashtable` |
| parallel fixpoint iterator | `sparta/include/sparta/MonotonicFixpointIterator.h`, `WeakPartialOrdering.h` | predecessor counters of the nodes, entry and exit states | one task per node of the weak partial ordering | `WorkQueue` |
| sequential fixpoint iterators, WTO | same directory | component nesting, entry and exit states | iterate a component until it is stable | - |
| abstract domains, Patricia trees | `sparta/include/sparta` | persistent values | join, meet, widening, order | fixpoint iterators |
| `RedexContext` | `libredex/RedexContext.cpp` | interning maps of strings, types, protos, fields, methods; class of each type; string storage | `make_*`, `get_*`, `mutate_field`, `mutate_method`, `erase_*`, `publish_class` | concurrent containers; used by everything |
| `Reachability`, call graph, override graph | `libredex` | concurrent sets and maps of marked elements | parallel marking and graph construction | `WorkQueue`, containers |
| `PassManager`, redex properties | `libredex` | list of activated passes, established properties | run passes, check properties between them | everything |
| dex limits, InterDex | `libredex/DexStructure.cpp`, `opt/interdex` | reference counts of the dex that is being filled | add a class or start a new dex | output |
| IR, control-flow graph | `libredex` | instruction lists, blocks and edges | sequential edits of one method | passes |
| dex and resource input and output, ProGuard | `libredex`, `libresource` | - | parsing and writing | start and end of the run |
| passes and services | `opt`, `service` | - | about 110 program transformations | everything above |

### What is hard here

- **Work stealing while tasks are pushed.** A worker decides that nothing is
  left from three counters that it reads one after the other while others pop,
  push and change them in several steps.
- **Sleeping and waking.** The semaphore of `WorkQueue` and the condition
  variables of the two pools: a lost wake-up is a hang that no test reproduces.
- **Exceptions.** A task that throws takes another way through every loop, and
  must still leave counters and sleepers in order.
- **Nested parallelism.** A job that runs on the pool starts work on the same
  pool and blocks on it.
- **Dependency counts.** Several threads decrement one wait count; exactly one of
  them has to schedule the task, and functions registered meanwhile count too.
- **A table that is resized under its users.** Insertions, erasures and lookups
  go on in the version that is being emptied and in the one being filled.
- **Values over that table.** The mutex of a `ConcurrentMap` slot guards the
  values and not the table: a node can be erased between the moment it is found
  and the moment its value is assigned.
- **Counters that are added to and counted down at once.** The parallel fixpoint
  iterator restarts a component by adding to the predecessor counters of its
  nodes while other threads count the same ones down.
- **Interning against mutation.** `make_method` and `erase_method` take no lock;
  `mutate_method` takes one and changes the same map in several steps. Loaders
  publish classes with a test and an exchange.
- **Borrowed storage.** Threads borrow string containers through slots, a pool
  and a bounded number of creations, and spin when there is none.
- **Conditional marking.** `Reachability` marks a member when a condition comes
  true, which one worker records while another makes it true; gatherers are
  parked in the middle of a method and resumed, by whoever notices first.
- **Unsigned counts and table sizes** at their limits.

`PROJECT.json` lists each hazard with its line and the properties that would
catch it going wrong.

## 2. Modules

| module | models | kind |
|---|---|---|
| `ThreadPool` | `sparta::ThreadPool` | detailed |
| `RunInParallel` | `WorkQueue::run_in_parallel` on an `AsyncRunner` | detailed |
| `PoolRun` | a job of the pool that calls `run_in_parallel` on the same pool | composes the two |
| `WorkQueue` | `WorkQueue::run_all` and `WorkerState` | detailed |
| `WorkPool` | what `run_all` promises its caller | abstract |
| `PriorityThreadPool` | `PriorityThreadPool` | detailed |
| `PriorityPool` | what it promises | abstract |
| `DAGScheduler` | `PriorityThreadPoolDAGScheduler`, over the abstract pool | detailed, composed |
| `ConcurrentHashtable` | `get`, `try_emplace`, `erase`, `reserve` | detailed |
| `ConcurrentMap` | `ConcurrentMap`: values, and the mutex of a slot | composed over the table |
| `SequentialMap` | a map without concurrency, and what it means to behave like one | reference |
| `HashtableSizes` | `get_prime_number_greater_or_equal_to`, `load_factor_exceeded` | operators |
| `WeakPartialOrdering` | the builder of `WeakPartialOrdering.h` | operators |
| `WeakTopologicalOrdering` | Bourdoncle's decomposition | operators |
| `FixpointBase` | what the iterators share, and the sequential recursive one | operators |
| `ParallelFixpoint` | `ParallelMonotonicFixpointIterator::run` | detailed |
| `StringStorage` | `make_string` and `ConcurrentStringStorage` | detailed |
| `RedexContext` | interning, `mutate_method`, erasure, loading of classes | composed over the storage and the table |
| `DexProgram` | what `Reachability` reads of a program and its override graph | operators |
| `Reachability` | root set, marking, gatherers, `finish` | detailed |
| `ReachabilityRules` | the marking without an order, as a least set of facts | reference |
| `DexExecution` | what a program can do at run time | reference |
| `MC...` | instances for TLC | |
| `ThreadPoolProofs` | `ThreadPool` and `PoolRun` | proofs |
| `WorkQueueProofs`, `WorkQueuePoolProofs` | `WorkQueue`; that it implements `WorkPool` | proofs |
| `PriorityThreadPoolProofs` | `PriorityThreadPool`; that it implements `PriorityPool` | proofs |
| `DAGSchedulerInvariant`, `DAGSchedulerCounting`, `DAGSchedulerProofs` | `DAGScheduler`: the invariant and its simple steps; the steps that count; the rest and the theorems | proofs |
| `RedexContextProofs` | `StringStorage` and `RedexContext` | proofs |

How they compose. `PoolRun` puts `RunInParallel` on the threads of `ThreadPool`.
`WorkQueue` starts where `run_in_parallel` has started the workers and ends where
all of them have returned; `ParallelFixpoint` and `Reachability` use a queue that
behaves as `WorkQueue` is shown to. `DAGScheduler` is written over `PriorityPool`,
which `PriorityThreadPool` is shown to implement. `ConcurrentMap` extends
`ConcurrentHashtable` and its steps are those of the table with what the map does
around them; what its calls return is compared with `SequentialMap`. `RedexContext`
extends `StringStorage`, whose steps `mutate_method` takes while it holds a lock,
and has an instance of `ConcurrentHashtable` for `s_method_map`, whose steps all
calls on that map take. `Reachability` is compared with `ReachabilityRules`, and
these with `DexExecution`.

### Correspondence with the code

Granularity: a critical section of a mutex is one action; outside a mutex, one
action is one access to shared memory (an atomic counter, the head of a list, a
bucket). Steps of one thread on its own memory belong to the action before or
after. Atomics are sequentially consistent in the code wherever they decide
anything, so interleaving is the right semantics. A thread that waits on a
condition variable is in a state of its own ("parked", "asleep"), leaves it when
it is notified, and evaluates its condition again. Spurious wake-ups are left
out: every wait is in a loop on its condition, so they add no behaviour.

**ThreadPool.** `nthreads`, `waiting`, `pending`, `joining`, `exception` are the
fields of the class. `RunAsync`'s two cases are the two branches of
`run_async_bound`; its `notify_one`, which the code calls after the unlock, is the
separate step `MainNotify` or `JobNotify`. `FuncEnds`, `BecomeWaiting` and `Wake` are
the loop of `run`; `JoinBegin`, `JoinNotify`, `JoinEnd` are `join`. A job may submit
jobs and block until they are done (`Submitter`, `Needs`). Only the last exception
is kept, as in line 104.

**WorkQueue.** `next`, `additional`, `running` and the counters are the fields of
`WorkerState` and `StateCounters`; `waiter` is the count of the semaphore.
`PopInitial`, `DecInitial`, `PopAdditional`, `DecAdditional`, `PopReturn`, `PopNone`
are `pop_task`; `PushIncrement`, `PushNode`, `PushWake`, `PushGive` are `push_task`;
`Idle`, `TestRunning`, `TestInitial`, `TestAdditional`, `Quit`, `Take` are the end of
the loop of `run_all`; `CatchFirst`, `CatchLater`, `Drained`, `DrainGive` are its
handler. The random order of stealing is any order. The queue is one of `Queues`:
its initial tasks and the flag `push_tasks_while_running`, without which a push
fails a check and throws.

**RunInParallel.** The caller, the remaining count, and the unlock and
`notify_one` of each worker as separate steps.

**PriorityThreadPool.** `pending` maps a priority to its queue. `running_work_items`
is decremented in an action without the mutex, as in line 210. `AsyncRunner`
selects whose threads run the loop: an exception that leaves the loop ends the
process on a thread of the pool itself and is kept on a thread of a `ThreadPool`.
A failed `always_assert` ends the process (`aborted`). `call` is the last call of
the owner: `WaitBegin` is `wait`, `JoinBegin` is `join` with either argument, and
`Wait` the critical section that both come to.

**DAGScheduler.** An action is the executor's call on a task or a function that
was registered by `augment`. The steps of `decrement_wait_count` are separate: the
decrement, taking the continuations, raising the count, the posts, and the
decrements of the waiting tasks.

**ConcurrentHashtable.** A pointer is a record of a node (or `Null`) and a tag, as
in the code where the tag is the lowest bit; the tag means "locked" or "moved".
`sizes`, `root`, `prev`, `storage`, `count`, `erased`, `resizing` are the versions of the
table, the bucket roots, the links, `m_storage`, `m_count`, `m_erased` and the resize
mutex. `setup`, one of `Setups`, is the table at the start and the calls that each
thread makes. A lookup loads one pointer per step. `try_insert` and both overloads of
`try_emplace` are the same algorithm and one set of actions.

**ConcurrentMap.** `value`, `lock`, `mpc` are the values of the nodes, the slot mutex
and where each thread is. A value is the sequence of the calls that made it, so
that a lost update is visible. `Table` is a step of the call on the table;
`UpdateBegin`, `UpdateLoad`, `UpdateEnd` are `update`, which holds the mutex
throughout, `Assign` is the second half of `insert_or_assign`, `Read` that of `get`,
`at` and `observe`.

**HashtableSizes.** The table of primes is the one of the source. The load factor
test of the code, a division of floats, is the exact inequality on integers.

**ParallelFixpoint.** `counter` are the predecessor counters of the positions of the
ordering, `queue` the pushed tasks, `task` what each thread is at, `st` the entry
and exit states. `AnalyzeVertex`, `Stabilized`, `NotStabilized` are the cases of the
task; `Signal` counts one successor down and pushes it at zero; `RestartAdd` and
`RestartDone` are the loop that puts the counters of a component back. The
analysis is a chain of values with a monotone function for each node and edges
that are infeasible for small values. `run` is called twice on an iterator.

**StringStorage.** `slots`, `pool`, `created`, `next_index` are the fields of the
storage. `NextIndex`, `Get`, `Exchange`, `TakePooled`, `Create`, `Spin` are
`get_container`; `Allocate` and `Allocated` are the two halves of an allocation that
has no lock of its own; `Release` and `GiveToPool` return the container; `Insert` is
the insertion into the string set, which another thread may have won.

**RedexContext.** `Map` is `s_method_map`, an `AtomicMap`: this class calls its
hashtable without a lock, so `load`, `count`, `emplace` and `erase` are calls on an
instance of `ConcurrentHashtable`, with all their steps and the growth of the table.
`CallMap` begins such a call, `OnMap` is a step of it, and with the last step
`MapReturns` does what its caller does with the result: `MakeLoad` and `TryInsert` are
`make_method`, `EraseMethod` is `erase_method`, and `MutateErase`, `Collide`,
`AssertFree`, `AssertFails`, `MutateEmplace` are `mutate_method`, whose other steps are
`MutateLock`, `Respec`, `Rename`, `Renamed`; `MutateThrows` is a failed assertion. A method
that `make_method` creates is named by the node of its entry. `spec` is the spec of
each of the first methods, `lock` is `s_method_lock`. `ClassAlreadyLoaded`, `PublishClass`,
`InsertClass`, `InsertExternal` are the loading of a class, over `self`, `classes` and
`externals`, which are `m_self`, `m_classes` and `m_external_classes`; `Benign` is the rule
for duplicates, of the dex loader or of the jar loader. redex-all loads jars after
the dexes and one class at a time; the model lets all loads meet.

**Reachability.** A worker runs a stack of operations (`todo`), each of which is one
access to the shared sets: `reach` the marked objects, `cond` the aspects of classes
and methods, `waiting` the members recorded under a condition, `gatherer` the state
of each method's gatherer. `Marking`, `Aspects` and `Gathering` group the operations as
the source does; an operation is named for the function it comes from. `AdvanceBegin`,
`Walk` and `AdvanceEnd` are `advance` under the gatherer's mutex. The flag
`m_consider_code` of a gatherer is taken to be set: every place that creates one
sets it. Annotations of classes, fields and methods have references and dynamic
references (`dynamic`), and a method may be the implementation that other classes
inherit (`others`, which are `other_interface_implementations` of the override graph).

## 3. What is checked

Deadlock is checked in every passing run but `fixpoint` and `reachability`, whose
last state, the program having returned, has no step. A run takes between a
second and about three minutes on two cores.

### Runs that pass

| run | instance | shows |
|---|---|---|
| `threadpool` | 4 jobs on at most 4 threads; one calls `run_in_parallel` with two workers that are jobs of the same pool; two jobs may throw | `join` drops nothing and returns (`JoinDropsNothing`, `JoinReturns`); the call returns, and only after its workers (`ReturnsAfterWorkers`, `CallReturns`); a queued job completes although others block (`QueuedJobsComplete`) |
| `workqueue` | 3 workers on three queues: with pushing, 2 tasks of which one pushes two more and one may throw; without, 2 tasks that may throw or try to push | counters exact up to the steps in flight (`CountersExact`), nothing left behind (`NothingLeftBehind`); `run_all` implements `WorkPool` (`PoolSpec`) and returns (`RunAllReturns`) |
| `priority_pool` | 3 threads, 5 items of 3 priorities, one posts two, one may throw; the owner may call `wait`, and `join` with either argument | no wake-up is lost (`WorkConserving`), the assertions of `post` (unless new work was ruled out) and of the destructor hold (`AssertsHold`, `DestructorAsserts`), `join` returns (`JoinReturns`); implements `PriorityPool` (`PoolContract`) |
| `dag_scheduler` | a diamond of 4 tasks, 5 registered functions of which 3 are continuations, 3 threads | each action once (`EveryActionOnce`), after its dependencies (`AfterDependencies`); continuations last (`ContinuationsLast`); `run` returns past its assertions (`RunReturns`) |
| `hashtable` | 3 threads on five tables and maps: two insert one key into a full table while a third reserves; all insert and erase in one bucket; two erase and look up while the third resizes; an assignment, an update and an erasure of one key; two updates that insert one key into a full table | nothing lost or out of sight (`NothingLost`); a node is in the table, with a thread or erased, once (`NodesOwnedOnce`); the assertion of `reserve` (`MovedFromTheEnd`); what the calls on a map return is what some order of them returns, so no key is stored twice either (`SequentiallyConsistent`); spinning ends (`MapCallsReturn`) |
| `fixpoint` | 2 threads, two runs of one iterator, 609 graphs: a family on four nodes with reducible and irreducible loops, unreachable nodes and loops on the entry, and the shapes of the unit tests | the ordering orders every edge but the back edges and counts predecessors right (`WpoSound`); no two threads touch one state (`NoRace`); the result is a post-fixpoint and the one of the sequential recursive iteration (`FixpointReached`); `run` returns (`RunReturns`) |
| `context` | 3 threads with 2 slots and 2 containers; eleven cases: strings, interning, mutation with and without renaming, erasure, interning and mutation while the method map grows, loading from dexes and jars with and without duplicates | a container is with one thread (`ContainerOwnedOnce`), storage with one string (`StorageDisjoint`); one object for a key (`Canonical`); what a mutation ends with (`MutateOutcome`); one class for a type (`OneClassPerType`); calls return (`CallsReturn`) |
| `reachability` | 2 workers on eight programs in which conditions come true while others test or record them | in every interleaving the facts of `ReachabilityRules` and no others (`Confluent`), which cover what `DexExecution` can do (`ExecutionKept`); an instruction is visited once (`VisitedOnce`); the assertions of `finish` (`AssertsHold`); no class loses an implementation (`ImplementationsKept`); the marking ends (`MarkingEnds`) |

The type invariants `TypeOK` document the ranges of the variables. They are part
of the inductive invariants below and no property of a run on their own.

For every property there is a mutant: a definition changed the way a plausible
mistake would, for which TLC finds the property violated. The mutants stand
before the definitions they mutate.

### Runs that find a disagreement

| run | the code does | the comment says |
|---|---|---|
| `workqueue_hang` | with pushing enabled, a second exception may leave a third worker waiting for ever | all other threads stop gracefully |
| `run_in_parallel_finish` | the caller may return before the last worker has notified the caller's condition variable | wait for all spawned async runs to finish |
| `hashtable_mixed` | a thread's erasure may miss its own insertion when an erasure of another key and a resize meet in the bucket | own insertions and erasures are reflected by `get` |
| `context_mixed` | two threads that intern one spec may both insert it, and return different methods, when an erasure of another spec and a resize meet in the bucket | if another thread has already inserted that key, return the existing value |

`workqueue_hang` needs two throwing tasks and `push_tasks_while_running`.
`run_in_parallel_finish` needs an `AsyncRunner`. The last two need a table in which
erasures, insertions and a resize meet in one bucket. `s_method_map` is such a
table: passes intern, erase and change methods in it, and `context_mixed` is the
same behaviour of the table seen from there. It takes an erasure that locks the
bucket when one of the insertions looks at it, and a table that grows just then. In
the cases of the `context` run the table either does not grow or is not erased from
by a third thread, and each spec has one method. The findings in
`PROJECT.json` say what each one takes.

Smaller ones, met while modelling and not given a run:

- on a `ThreadPool`, an item of a `PriorityThreadPool` that throws stays counted in
  `m_running_work_items` and `join` waits for ever; this needs
  `redex_thread_pool::ThreadPool::create`, which this tree does not call, so
  `JoinReturns` is checked for the threads of the pool itself;
- a key that is erased before its insertion was counted makes `m_count` wrap below
  zero, and an insertion that looks at it meanwhile resizes a nearly empty table,
  and again (13, 29, 61, ...) until the first insertion is counted;
- two loaders of a benign duplicate can both pass `class_already_loaded`; the second
  then fails the assertion of `publish_class`, where one that comes later is told
  that it has a duplicate;
- `pop_task` lowers the counters before `set_running` counts the worker, so a worker
  may leave before the last task is finished, which the comment on
  `push_tasks_while_running` rules out (no task is lost by it: `NothingLeftBehind`);
- `get_prime_number_greater_or_equal_to(14)` is 13, so `reserve(15)` makes a table
  of 14 buckets smaller (a resize by an insertion asks for twice the size, and does not);
- `pop_task` writes the plain field `prev` of a node it has taken while a thread
  that has loaded the same head may read it (the exchange of that thread fails);
- a `mutate_method` that throws leaves the new spec in the method without an entry;
  `erase_method` of it would then erase the entry of the method it collided with,
  so `MutateOutcome` is checked for threads that erase no such method;
- `add_dependency` called twice with the same pair counts it twice and notifies it
  once; its callers do not do so.

### Bounds

- Three threads or workers: one that acts, one that it races with, and one that
  sleeps or steals. `workqueue_hang` needs exactly three, and three parties
  (insertion, erasure, resize) meet in `hashtable_mixed`. `threadpool` has as many
  threads as jobs, so the bound `MaxThreads` is never the reason that a thread is
  not created.
- Tasks, items and actions: enough that a task is stolen while its owner pushes,
  that two priorities compete, and that a continuation is registered by a function
  other than the executor.
- Hashtable: all keys share a bucket of the first version; the hashes are chosen
  such that a resize separates one key and leaves two together. Programs of two
  or three calls per thread.
- `fixpoint`: two threads, since a counter is touched by the thread that restarts a
  component and by one that signals into it; a chain of four values, long enough
  for a loop to be iterated three times and for an edge to become feasible late.
- `context`: as many slots as containers and one thread more, so that a thread
  spins; six strings, enough for each kind of name that `mutate_method` tries to
  be taken and free. All specs share a bucket of the method map, whose table starts
  with 5 buckets, full or empty, or with 13.
- `reachability`: each program is the smallest in which two workers meet at one
  kind of condition; with more workers the same pairs meet.
- `workqueue` has at most one exception in the queue with pushing, as two are the
  subject of `workqueue_hang`. The owner of a `PriorityThreadPool` calls `wait` at
  most once before it joins.

### Fairness

Weak fairness of each thread's steps: threads are scheduled by the operating
system, and a thread that is ready is run at some time. A step that waits for a
condition is not enabled until it may proceed. `ThreadPool` does not assume that
the owner calls anything, only that it finishes a call that it has begun.
`DAGScheduler`, `ParallelFixpoint` and `Reachability` assume of the pool or queue
below what its own run shows: a posted item is started, a pushed task is taken.
No strong fairness is assumed anywhere; in particular the bucket spinning of
`ConcurrentHashtable` ends under weak fairness in the programs checked, because
every failed attempt is due to a step of another thread, and these are finitely
many.

## 4. What is proved

The theorems hold for every value of the constants: any number of threads,
workers, jobs, items or containers, whatever is submitted, pushed, posted or
thrown. `PROJECT.json` lists them with the properties of the runs that they
state. All have the same form: an inductive invariant, of which the initial
predicate and every action are shown to keep it, one lemma for each action, and
the property as a consequence. The assumptions are the named `ASSUME`s of the
modules, which the runs evaluate: the types of the constants, and where it
matters that two calls submit two things (`PostedOnce`, `TaskAssumption`,
`AcyclicAssumption`).

**ThreadPool** (`ThreadPoolProofs`). `WaitingAccounted`: `m_waiting` plus the number
of queued jobs is the number of idle threads, so each queued job has an idle
thread to itself. `JoinIsSafe` (`JoinDropsNothing`): when `m_joining` is up, no job
is queued, held by a thread, or submitted and unfinished. `WaitingAccounting` alone
is not inductive, as what `join` does depends on which threads exist: `IInv` adds
`ThreadsExist`, `JoinPhase` and `JobsTracked`. The accounting bounds the idle threads
by `nthreads`, so `waiting = nthreads` forces the queue to be empty and nobody to be
busy. `CallIsSafe` (`ReturnsAfterWorkers`) is about `run_in_parallel` on the pool:
`CallInv` says that the remaining count is the number of workers that have not
counted themselves down, so the caller sees zero only after all of them.

**WorkQueue** (`WorkQueueProofs`). `Base` relates the place of a worker to its
variables, and says that a worker which stops has an empty queue of its own unless
something was thrown. On it rest two independent arguments. `QueueCounters`
(`CountersExact`): each counter is the number of non-empty queues plus the workers
that have counted and not yet pushed, or popped and not yet counted; the steps
change both sides alike. `Invariance`: `Placement` says where a task is, not yet
pushed, in one queue, in one hand, or done; from it `QueueRunsOnce`
(`RunsAtMostOnce`) and `QueueCompletes` (`NothingLeftBehind`). The latter is not about
the counters at all: a worker may leave too early because of them, but whoever
pushed a task looks at its own queue before it leaves, so the task is run.
`QueueImplementsPool` (`PoolSpec`, in `WorkQueuePoolProofs`) is the refinement:
`View` expresses the variables of `WorkPool` by who holds which task, so that the
dozen actions that only count are stutters by one lemma, and a pop, a start, a push,
an end and a throw are one abstract step each.

**PriorityThreadPool** (`PriorityThreadPoolProofs`). `WorkAccounted`, `NoLostWakeUp`
(`WorkConserving`), `PostIsSafe` (`AssertsHold`), `DestructorIsSafe`
(`DestructorAsserts`). The invariant adds `OwnerPhase` (what the place of the owner
says of its last call and of `m_shutdown`), `Quiet` (once `wait` has returned to
`join`, nothing is pending and no thread holds an item) and `RunsAnItem`. `Quiet` is
where the accounting is needed: `wait` sees only the count at zero, and the count
being exact makes this mean that nobody holds an item; then nobody can post.
`PoolImplementsContract` (`PoolContract`) is the refinement of `PriorityPool`. The
abstract pool has a set of pending items, the detailed one queues in which an item
could occur twice; that it does not is `History`: there is a set of items that
were not posted yet, which holds all that the owner, the running items and the
pending ones will post, and each post takes one out (`PostedOnce`). The set is not a
function of the state, so it is quantified in the invariant. A fetch is then a
start, the thread that fetches being one that runs nothing, a return or a throw is
an end, and the last step of `wait` in `join` is the abstract join.

**DAGScheduler** (`DAGSchedulerInvariant`, `DAGSchedulerCounting`,
`DAGSchedulerProofs`). `WaitCounts` is the invariant itself. Its core is
`WaitCountExact`: a wait count is the number of the dependencies that have not yet
told the task (`Open`) plus the number of its actions that are counted (`Live`:
pending, running, or about to be posted by whoever has raised the count). Around it:
`Scheduling` (one actor schedules a task, exactly when nothing is open), `Finishing`
(who brings a count to zero is alone with the task), `Carried` (a posted task has a
live or finishing action, or is done and has told so), `Told`, `Registered`,
`OnePlace` and `Released` (where a registered function and a continuation are). From
it follow `ActionsRunOnce` (`EveryActionOnce`), `DependenciesFirst`
(`AfterDependencies`), `ContinuationsRunLast` (`ContinuationsLast`) and
`AssertionsHold`: the scheduler's assertions never fail. That every action has run
when `run` returns is an induction over the graph; the prover has none, so
`AcyclicAssumption` states the absence of cycles as it is used, by sets: every set of
tasks has one that depends on none of the set, and the actions are the smallest set
with the tasks that is closed under registration. `Plain`, which is recursive, is
used through its defining equation only.

**RedexContext** (`RedexContextProofs`). `StringsAreSafe`: in `StringStorage` a
container is in one slot, in the pool or with one thread, storage belongs to one
string, and equal strings are one `DexString`. Inductive is `StringInv`, which adds
what the place of a thread says of its container (`Phases`), that storage is below
what its container has used, and that what was returned stays. `ContextUsesStorage` is
the refinement `ContextSpec => StringSpec`, from which `ContextStrings`
(`ContainerOwnedOnce`, `StorageDisjoint`, and that equal strings are one object)
follows. `ContextClasses` (`OneClassPerType`) rests on `ContextInv`: a class that a type
points to is in `m_classes` or its loader is about to put it there, and an external
one is in `m_external_classes`, once, or its loader is about to append it. All of it
holds whatever the hashtable below `s_method_map` does.

**Only model-checked.** All liveness properties, as the prover has no rules for
fairness. `OneMethodPerSpec`, which is half of `Canonical`, and `MutateOutcome`: they do
not hold for every sequence of calls, see `context_mixed` and the erasure after a
failed change in section 3. `WpoSound`, `NoRace`,
`FixpointReached`, the properties of `Reachability` and `SequentiallyConsistent`: their
modules compute with recursive operators, which the prover cannot use, and what
these return is an induction over data. `NothingLost`, `NodesOwnedOnce` and
`MovedFromTheEnd` of the hashtable.

## 5. What is not modelled, and the plan

Not modelled: weak memory orders (the relaxed accesses of the code happen before
threads start or after they are joined), the deletion of nodes at destruction,
`compact`, `clear` and copies of containers, timing statistics, and all parts
that `PROJECT.json` lists as such, with the reason. Redex has about 300000 lines,
most of them program transformations, whose correctness is that of bytecode
before and after: this needs a semantics of Dalvik bytecode and is out of scope, so
the modelled part is a small share of the lines.

Open, in order of what they would say:

1. A proof that the chains of `ConcurrentHashtable` lose nothing; the invariant has
   to describe chains as paths without recursion.
2. The operations of `AtomicMap` and `InsertOnlyConcurrentMap` on values (`store`,
   `exchange`, `compare_exchange`), and the sizes of tables that grow more than twice.
3. `PassManager` with its properties, and the limits by which InterDex starts a new
   dex.
4. The sweep of `Reachability`, and `mark_with_exclusions`.

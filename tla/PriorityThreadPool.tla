------------------------- MODULE PriorityThreadPool -------------------------
(***************************************************************************)
(* PriorityThreadPool (libredex/PriorityThreadPool.h): a fixed number of   *)
(* threads that execute work items, the highest priority first; its owner  *)
(* posts items, as running items do, and joins the pool.                   *)
(*                                                                         *)
(* A critical section of m_mutex is one action.  A thread that waits on a  *)
(* condition variable is "asleep" until it is notified, and then takes the *)
(* mutex again to evaluate its condition.  m_running_work_items is also    *)
(* decremented without the mutex, in an action of its own.                 *)
(***************************************************************************)
EXTENDS Integers, Sequences, FiniteSets

CONSTANTS
  Thread,        \* the threads of the pool
  Item,          \* the work items, each posted at most once
  NoItem,
  Priority,      \* the priority each item is posted with
  MainPosts,     \* the items that the owner posts before it joins
  ItemPosts,     \* the items that each item posts while it runs
  MayThrow,      \* the items that may end in an exception
  AsyncRunner    \* whether the threads belong to a ThreadPool

ASSUME PoolAssumption ==
  /\ IsFiniteSet(Thread)
  /\ Thread # {}
  /\ NoItem \notin Item
  /\ Priority \in [Item -> Int]
  /\ MainPosts \in Seq(Item)
  /\ ItemPosts \in [Item -> Seq(Item)]
  /\ MayThrow \subseteq Item
  /\ AsyncRunner \in BOOLEAN

\* An item is what one call of post makes of its argument: no two calls post
\* the same one.
ASSUME PostedOnce ==
  /\ \A j, k \in 1 .. Len(MainPosts) : MainPosts[j] = MainPosts[k] => j = k
  /\ \A a, b \in Item : \A j \in 1 .. Len(ItemPosts[a]), k \in 1 .. Len(ItemPosts[b]) :
       ItemPosts[a][j] = ItemPosts[b][k] => a = b /\ j = k
  /\ \A a \in Item : \A j \in 1 .. Len(ItemPosts[a]), k \in 1 .. Len(MainPosts) :
       ItemPosts[a][j] # MainPosts[k]

VARIABLES
  pending,             \* m_pending_work_items, a queue for each priority
  running,             \* m_running
  running_work_items,  \* m_running_work_items
  shutdown,            \* m_shutdown
  aborted,             \* what has ended the process, if anything has
  pc, first, item,     \* each thread: where it is, the flag, its item
  posted,              \* and how many items its item has posted
  mpc, mposted,        \* the owner, and how many items it has posted
  call                 \* the last call it made, other than of post

vars == <<pending, running, running_work_items, shutdown, aborted, pc, first,
          item, posted, mpc, mposted, call>>

Priorities == {Priority[i] : i \in Item}

NothingPending == \A p \in Priorities : pending[p] = <<>>

ThreadPC == {"loop", "asleep", "woken", "run", "stop", "gone"}
MainPC   == {"post", "wait", "wait_asleep", "join", "join_asleep", "returned"}

TypeOK ==
  /\ pending \in [Priorities -> Seq(Item)]
  /\ running \in Nat
  /\ running_work_items \in Nat
  /\ shutdown \in BOOLEAN
  /\ aborted \in {"no", "assertion", "exception"}
  /\ pc \in [Thread -> ThreadPC]
  /\ first \in [Thread -> BOOLEAN]
  /\ item \in [Thread -> Item \cup {NoItem}]
  /\ posted \in [Thread -> Nat]
  /\ mpc \in MainPC
  /\ mposted \in 0 .. Len(MainPosts)
  /\ call \in {"none", "wait", "join", "join_no_new_work"}

\* The constructor: set_num_threads has started the threads.
Init ==
  /\ pending = [p \in Priorities |-> <<>>]
  /\ running = Cardinality(Thread)
  /\ running_work_items = 0
  /\ shutdown = FALSE
  /\ aborted = "no"
  /\ pc = [w \in Thread |-> "loop"]
  /\ first = [w \in Thread |-> TRUE]
  /\ item = [w \in Thread |-> NoItem]
  /\ posted = [w \in Thread |-> 0]
  /\ mpc = "post"
  /\ mposted = 0
  /\ call = "none"
-----------------------------------------------------------------------------
Asleep == {w \in Thread : pc[w] = "asleep"}

\* m_work_condition.notify_one, by a thread that itself does not sleep.
NotifyOne ==
  \/ Asleep = {} /\ pc' = pc
  \/ \E w \in Asleep : pc' = [pc EXCEPT ![w] = "woken"]

\* m_work_condition.notify_all.
NotifyAll ==
  pc' = [w \in Thread |-> IF pc[w] = "asleep" THEN "woken" ELSE pc[w]]

\* Mutant: a post is announced only when nothing was pending.
Enqueue_FirstOnly(i) ==
  /\ pending' = [pending EXCEPT ![Priority[i]] = Append(@, i)]
  /\ IF NothingPending THEN NotifyOne ELSE pc' = pc

Enqueue(i) ==
  /\ pending' = [pending EXCEPT ![Priority[i]] = Append(@, i)]
  /\ NotifyOne

\* post: it asserts that the pool is not shut down.
Post(i) ==
  \/ /\ ~shutdown
     /\ Enqueue(i)
     /\ UNCHANGED aborted
  \/ /\ shutdown
     /\ aborted' = "assertion"
     /\ UNCHANGED <<pending, pc>>

MainPost ==
  /\ mpc = "post"
  /\ mposted < Len(MainPosts)
  /\ Post(MainPosts[mposted + 1])
  /\ mposted' = mposted + 1
  /\ UNCHANGED <<running, running_work_items, shutdown, first, item, posted,
                 mpc, call>>

ItemPost(w) ==
  /\ pc[w] = "run"
  /\ posted[w] < Len(ItemPosts[item[w]])
  /\ Post(ItemPosts[item[w]][posted[w] + 1])
  /\ posted' = [posted EXCEPT ![w] = @ + 1]
  /\ UNCHANGED <<running, running_work_items, shutdown, first, item, mpc,
                 mposted, call>>
-----------------------------------------------------------------------------
(***************************************************************************)
(* wait and join.                                                          *)
(***************************************************************************)
\* wait(init_shutdown = false), after which the owner may go on posting.  It
\* is called at most once, which is a bound of the model.
WaitBegin ==
  /\ mpc = "post"
  /\ call = "none"
  /\ call' = "wait"
  /\ mpc' = "wait"
  /\ UNCHANGED <<pending, running, running_work_items, shutdown, aborted, pc,
                 first, item, posted, mposted>>

\* join(allow_new_work), up to its call of wait(allow_new_work).
JoinBegin ==
  /\ mpc = "post"
  /\ mposted = Len(MainPosts)
  /\ mpc' = "wait"
  /\ \/ /\ call' = "join"
        /\ UNCHANGED <<shutdown, pc>>
     \/ /\ call' = "join_no_new_work"
        /\ shutdown' = TRUE
        /\ NotifyAll
  /\ UNCHANGED <<pending, running, running_work_items, aborted, first, item,
                 posted, mposted>>

\* Mutant: the owner does not wait for the items that are still running.
WorkDone_PendingOnly == NothingPending

WorkDone == running_work_items = 0 /\ NothingPending

\* The critical section of wait.
Wait ==
  /\ mpc = "wait"
  /\ \/ /\ ~WorkDone
        /\ mpc' = "wait_asleep"
        /\ UNCHANGED <<shutdown, pc>>
     \/ /\ WorkDone
        /\ mpc' = IF call = "wait" THEN "post" ELSE "join"
        /\ IF call = "join" THEN shutdown' = TRUE /\ NotifyAll
           ELSE UNCHANGED <<shutdown, pc>>
  /\ UNCHANGED <<pending, running, running_work_items, aborted, first, item,
                 posted, mposted, call>>

\* Mutant: the owner does not wait for the threads to stop.
Join_NoWait ==
  /\ mpc = "join"
  /\ mpc' = "returned"
  /\ UNCHANGED <<pending, running, running_work_items, shutdown, aborted, pc,
                 first, item, posted, mposted, call>>

\* The loop on m_not_running_condition.
Join ==
  /\ mpc = "join"
  /\ mpc' = IF running > 0 THEN "join_asleep" ELSE "returned"
  /\ UNCHANGED <<pending, running, running_work_items, shutdown, aborted, pc,
                 first, item, posted, mposted, call>>
-----------------------------------------------------------------------------
(***************************************************************************)
(* run: what each thread does.                                             *)
(***************************************************************************)
\* Mutant: only a thread that has found the pool shut down tells the owner.
NotifyDone_IfShutdown(w) ==
  mpc' = IF ~first[w] /\ WorkDone /\ shutdown /\ mpc = "wait_asleep"
         THEN "wait" ELSE mpc

\* m_done_condition.notify_one, unless this is the first round.
NotifyDone(w) ==
  mpc' = IF ~first[w] /\ WorkDone /\ mpc = "wait_asleep" THEN "wait" ELSE mpc

\* Mutant: the first entry of the map instead of the last one.
HasPriority_Lowest(p) ==
  pending[p] # <<>> /\ \A q \in Priorities : q < p => pending[q] = <<>>

HasPriority(p) ==
  pending[p] # <<>> /\ \A q \in Priorities : q > p => pending[q] = <<>>

\* The condition of m_work_condition, and what follows it.
WaitForWork(w) ==
  \/ \E p \in Priorities :
       /\ HasPriority(p)
       /\ running_work_items' = running_work_items + 1
       /\ item' = [item EXCEPT ![w] = Head(pending[p])]
       /\ pending' = [pending EXCEPT ![p] = Tail(@)]
       /\ pc' = [pc EXCEPT ![w] = "run"]
  \/ /\ NothingPending
     /\ pc' = [pc EXCEPT ![w] = IF shutdown THEN "stop" ELSE "asleep"]
     /\ UNCHANGED <<running_work_items, item, pending>>

Fetch(w) ==
  /\ \/ pc[w] = "loop" /\ NotifyDone(w)
     \/ pc[w] = "woken" /\ UNCHANGED mpc
  /\ WaitForWork(w)
  /\ UNCHANGED <<running, shutdown, aborted, first, posted, mposted, call>>

\* The item returns: the decrement, without the mutex, and the next round.
ItemEnds(w) ==
  /\ pc[w] = "run"
  /\ posted[w] = Len(ItemPosts[item[w]])
  /\ running_work_items' = running_work_items - 1
  /\ item' = [item EXCEPT ![w] = NoItem]
  /\ posted' = [posted EXCEPT ![w] = 0]
  /\ first' = [first EXCEPT ![w] = FALSE]
  /\ pc' = [pc EXCEPT ![w] = "loop"]
  /\ UNCHANGED <<pending, running, shutdown, aborted, mpc, mposted, call>>

\* not_running: the last thread notifies the owner.
NotRunning(w) ==
  /\ running' = running - 1
  /\ pc' = [pc EXCEPT ![w] = "gone"]
  /\ mpc' = IF running = 1 /\ mpc = "join_asleep" THEN "join" ELSE mpc

Stop(w) ==
  /\ pc[w] = "stop"
  /\ NotRunning(w)
  /\ UNCHANGED <<pending, running_work_items, shutdown, aborted, first, item,
                 posted, mposted, call>>

\* The item throws.  not_running is called and the exception rethrown: a
\* ThreadPool keeps it for its own join, a thread of its own ends the process.
ItemThrows(w) ==
  /\ pc[w] = "run"
  /\ item[w] \in MayThrow
  /\ NotRunning(w)
  /\ aborted' = IF AsyncRunner THEN "no" ELSE "exception"
  /\ UNCHANGED <<pending, running_work_items, shutdown, first, item, posted,
                 mposted, call>>
-----------------------------------------------------------------------------
MainStep == MainPost \/ WaitBegin \/ JoinBegin \/ Wait \/ Join

ThreadStep(w) ==
  Fetch(w) \/ ItemPost(w) \/ ItemEnds(w) \/ Stop(w) \/ ItemThrows(w)

Alive == aborted = "no"

Ended == ~Alive \/ (mpc = "returned" /\ \A w \in Thread : pc[w] = "gone")

Next ==
  \/ Alive /\ (MainStep \/ \E w \in Thread : ThreadStep(w))
  \/ Ended /\ UNCHANGED vars

Spec == Init /\ [][Next]_vars

\* The owner and every thread of the pool are scheduled.
FairSpec ==
  /\ Spec
  /\ WF_vars(Alive /\ MainStep)
  /\ \A w \in Thread : WF_vars(Alive /\ ThreadStep(w))
-----------------------------------------------------------------------------
(***************************************************************************)
(* Properties.                                                             *)
(***************************************************************************)
\* The places of the pending items: their queue and their position in it.
PendingSlots == UNION {{p} \X (1 .. Len(pending[p])) : p \in Priorities}

Running  == {w \in Thread : pc[w] = "run"}
Present  == {w \in Thread : pc[w] # "gone"}
Holding  == {w \in Thread : item[w] # NoItem}
OnTheWay == {w \in Thread : pc[w] \in {"loop", "woken"}}

\* The counters on which wait and join rely count the items and the threads.
\* An item that threw stays counted, with the thread that ran it.
WorkAccounting ==
  /\ running = Cardinality(Present)
  /\ running_work_items = Cardinality(Holding)
  /\ \A w \in Thread : pc[w] \in {"loop", "asleep", "woken", "stop"} =>
       item[w] = NoItem

\* No wake-up is lost: while a thread sleeps on m_work_condition, every
\* pending item has a thread of its own that is on its way to fetch one.
\* One notify_one for each post is enough.
WorkConserving ==
  Asleep # {} => Cardinality(PendingSlots) <= Cardinality(OnTheWay)

\* The assertions of post hold: an item can post work until it ends, since
\* the pool is only shut down when no item is pending or running.  Only
\* join(allow_new_work = false) makes a post of a running item fail.
AssertsHold == aborted = "assertion" => call = "join_no_new_work"

\* When join returns, what the destructor asserts holds and no thread is
\* still using the pool.
DestructorAsserts ==
  mpc = "returned" =>
    /\ NothingPending
    /\ shutdown
    /\ running_work_items = 0
    /\ \A w \in Thread : pc[w] = "gone"

\* join returns unless the process ends first: its wait is not left asleep
\* when the last item ends, however late that one posts further items.
JoinReturns == <>(mpc = "returned" \/ ~Alive)

\* What the contract sees of the pool.
PendingItems == {i \in Item : \E k \in 1 .. Len(pending[Priority[i]]) :
                                pending[Priority[i]][k] = i}
ActiveItems == {item[w] : w \in Running}

\* Where the owner is when wait has returned to join.
Joining == {"join", "join_asleep", "returned"}

\* The contract: items start in the order of their priority, each once, and
\* none is left when the owner is past wait.
Contract == INSTANCE PriorityPool WITH
  Width <- Cardinality(Thread),
  pending <- PendingItems,
  active <- ActiveItems,
  joined <- mpc \in Joining

PoolContract == Contract!Spec
=============================================================================

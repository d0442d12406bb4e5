------------------------ MODULE ConcurrentHashtable ------------------------
(***************************************************************************)
(* cc_impl::ConcurrentHashtable (libredex/ConcurrentContainers.h): a chain *)
(* of nodes in each bucket, tagged pointers that lock a bucket during an   *)
(* erasure or mark it as moved by a resize, and storage versions linked by *)
(* their next pointer.                                                     *)
(*                                                                         *)
(* One action is one atomic access that another thread can notice.  The    *)
(* walk over a chain that the walking thread itself has locked is part of  *)
(* the access that follows it, as nobody else changes that chain, and a    *)
(* compare-exchange that is repeated until it succeeds is an action that   *)
(* is enabled when it can succeed.  Erased nodes are kept until compact,   *)
(* so a node that a thread still reads is never freed or used again.       *)
(***************************************************************************)
EXTENDS Integers, Sequences, FiniteSets, HashtableSizes

CONSTANTS
  Thread,
  Node, Null,
  Key,
  Hash,          \* the hash of each key
  NodeKey,       \* the key in each node
  Setups         \* a table and what the threads do with it; see Init

Calls == [op : {"get", "insert", "erase"}, key : Key, node : Node \cup {Null}]
         \cup [op : {"reserve"}, capacity : Nat]

ASSUME TableAssumption ==
  /\ Null \notin Node
  /\ Hash \in [Key -> Nat]
  /\ NodeKey \in [Node -> Key]
  /\ Setups \subseteq [size : Nat \ {0}, chain : Seq(Node),
                        program : [Thread -> Seq(Calls)]]
  /\ \A s \in Setups :
       /\ \A p \in Thread : \A i \in 1 .. Len(s.program[p]) :
            s.program[p][i].op = "insert" =>
              NodeKey[s.program[p][i].node] = s.program[p][i].key
       /\ \A i \in 1 .. Len(s.chain) : Hash[NodeKey[s.chain[i]]] % s.size = 0

\* An insertion allocates its own node.
ASSUME OwnNodes ==
  \A s \in Setups :
    /\ \A i, j \in 1 .. Len(s.chain) : s.chain[i] = s.chain[j] => i = j
    /\ \A p \in Thread : \A i \in 1 .. Len(s.program[p]) :
         s.program[p][i].op = "insert" =>
           /\ s.program[p][i].node \in Node
           /\ \A j \in 1 .. Len(s.chain) : s.chain[j] # s.program[p][i].node
           /\ \A q \in Thread : \A j \in 1 .. Len(s.program[q]) :
                s.program[q][j].op = "insert"
                  /\ s.program[q][j].node = s.program[p][i].node => q = p /\ j = i

VARIABLES
  setup,      \* the member of Setups; it never changes
  sizes,      \* the size of each storage version; version v + 1 is v's next
  storage,    \* m_storage, the number of a version
  root,       \* root[v][b]: ptrs[b] of version v
  prev,       \* the field prev of each node
  count,      \* m_count
  resizing,   \* m_resizing
  erased,     \* m_erased, the nodes that compact will delete
  pc, call,   \* each thread: where it is, in which of its calls,
  st,         \* the version it works on,
  seen,       \* the root it has read,
  cursor,     \* the node it looks at,
  bucket,     \* and, while it resizes, the bucket that it moves,
  chain,      \* the nodes of this bucket still to be moved, the root first
  new,        \* and the chain it has seen in the new version
  results     \* the results of its calls (history)

vars == <<setup, sizes, storage, root, prev, count, resizing, erased, pc, call,
          st, seen, cursor, bucket, chain, new, results>>

table == <<sizes, storage, root, prev, count, resizing, erased>>

InitialSize  == setup.size     \* the size of the first storage version
InitialChain == setup.chain    \* the nodes of its bucket 0, the root first
Program      == setup.program  \* Program[p]: the calls that thread p makes

Ptr == [node : Node \cup {Null}, tag : BOOLEAN]

Untagged(n) == [node |-> n, tag |-> FALSE]
Tagged(n)   == [node |-> n, tag |-> TRUE]     \* lock, moved_or_lock
moved       == Tagged(Null)

TypeOK ==
  /\ setup \in Setups
  /\ sizes \in Seq(Nat \ {0})
  /\ storage \in 1 .. Len(sizes)
  /\ Len(root) = Len(sizes)
  /\ \A v \in 1 .. Len(sizes) : root[v] \in [0 .. sizes[v] - 1 -> Ptr]
  /\ prev \in [Node -> Ptr]
  /\ count \in Int
  /\ resizing \in BOOLEAN
  /\ erased \in Seq(Node)
  /\ \A p \in Thread : call[p] \in 1 .. Len(Program[p]) + 1
  /\ st \in [Thread -> 1 .. Len(sizes)]
  /\ seen \in [Thread -> Ptr]
  /\ cursor \in [Thread -> Node \cup {Null}]
  /\ chain \in [Thread -> Seq(Node)]
  /\ new \in [Thread -> Node \cup {Null}]

\* A table whose first version holds InitialChain: earlier insertions.
Init ==
  /\ setup \in Setups
  /\ sizes = <<InitialSize>>
  /\ storage = 1
  /\ root = <<[b \in 0 .. InitialSize - 1 |->
                 Untagged(IF b = 0 /\ InitialChain # <<>>
                          THEN Head(InitialChain) ELSE Null)]>>
  /\ prev = [n \in Node |->
       Untagged(IF \E i \in 1 .. Len(InitialChain) - 1 : InitialChain[i] = n
                THEN InitialChain[1 + CHOOSE i \in 1 .. Len(InitialChain) - 1 :
                                        InitialChain[i] = n]
                ELSE Null)]
  /\ count = Len(InitialChain)
  /\ resizing = FALSE
  /\ erased = <<>>
  /\ pc = [p \in Thread |-> "begin"]
  /\ call = [p \in Thread |-> 1]
  /\ st = [p \in Thread |-> 1]
  /\ seen = [p \in Thread |-> Untagged(Null)]
  /\ cursor = [p \in Thread |-> Null]
  /\ bucket = [p \in Thread |-> 0]
  /\ chain = [p \in Thread |-> <<>>]
  /\ new = [p \in Thread |-> Null]
  /\ results = [p \in Thread |-> <<>>]
-----------------------------------------------------------------------------
Call(p) == Program[p][call[p]]
Op(p)   == Call(p).op

\* The bucket of key k in version v.
Bucket(k, v) == Hash[k] % sizes[v]

Root(p) == root[st[p]][Bucket(Call(p).key, st[p])]

SetRoot(p, ptr) == root' = [root EXCEPT ![st[p]][Bucket(Call(p).key, st[p])] = ptr]

HasNext(v) == v < Len(sizes)

Goto(p, label) == pc' = [pc EXCEPT ![p] = label]

\* The call returns; what it leaves in the variables of the thread is cleared.
Return(p, result) ==
  /\ results' = [results EXCEPT ![p] = Append(@, result)]
  /\ call' = [call EXCEPT ![p] = @ + 1]
  /\ Goto(p, "begin")
  /\ st' = [st EXCEPT ![p] = 1]
  /\ seen' = [seen EXCEPT ![p] = Untagged(Null)]
  /\ cursor' = [cursor EXCEPT ![p] = Null]
  /\ UNCHANGED <<bucket, chain, new>>

\* The call goes on in another version.
Visit(p, v) ==
  /\ st' = [st EXCEPT ![p] = v]
  /\ Goto(p, "root")
  /\ UNCHANGED <<call, seen, cursor, bucket, chain, new, results>>

\* Only pc changes in the thread.
Local(p, label) ==
  /\ Goto(p, label)
  /\ UNCHANGED <<call, st, seen, cursor, bucket, chain, new, results>>

\* Every call but reserve begins with a load of m_storage, and so does the
\* insertion again that has resized the table.
Begin(p) ==
  /\ pc[p] = "begin"
  /\ call[p] <= Len(Program[p])
  /\ IF Op(p) = "reserve" THEN Local(p, "reserve") ELSE Visit(p, storage)
  /\ UNCHANGED table
-----------------------------------------------------------------------------
(***************************************************************************)
(* get, and the search that begins an insertion (try_emplace, try_insert). *)
(***************************************************************************)
LoadRoot(p) ==
  /\ pc[p] = "root"
  /\ Op(p) \in {"get", "insert"}
  /\ seen' = [seen EXCEPT ![p] = Root(p)]
  /\ cursor' = [cursor EXCEPT ![p] = Root(p).node]
  /\ Goto(p, "scan")
  /\ UNCHANGED <<call, st, bucket, chain, new, results, table>>

Found(p) ==
  /\ pc[p] = "scan"
  /\ cursor[p] # Null
  /\ NodeKey[cursor[p]] = Call(p).key
  /\ Return(p, Op(p) = "get")
  /\ UNCHANGED table

ScanNext(p) ==
  /\ pc[p] = "scan"
  /\ cursor[p] # Null
  /\ NodeKey[cursor[p]] # Call(p).key
  /\ cursor' = [cursor EXCEPT ![p] = prev[cursor[p]].node]
  /\ UNCHANGED <<pc, call, st, seen, bucket, chain, new, results, table>>

GetEnd(p) ==
  /\ pc[p] = "scan"
  /\ Op(p) = "get"
  /\ cursor[p] = Null
  /\ IF HasNext(st[p]) THEN Visit(p, st[p] + 1) ELSE Return(p, FALSE)
  /\ UNCHANGED table

\* A tagged root sends the insertion to the next version, if there is one.
InsertNext(p) ==
  /\ pc[p] = "scan"
  /\ Op(p) = "insert"
  /\ cursor[p] = Null
  /\ IF seen[p].tag /\ HasNext(st[p])
     THEN Visit(p, st[p] + 1)
     ELSE Local(p, "load")
  /\ UNCHANGED table

LoadFactor(p) ==
  /\ pc[p] = "load"
  /\ Local(p, IF LoadFactorExceeded(count, sizes[st[p]]) THEN "reserve"
              ELSE "cas")
  /\ UNCHANGED table

\* The new node becomes the root, unless the bucket has changed or is locked.
InsertNode(p) ==
  /\ pc[p] = "cas"
  /\ Root(p) = Untagged(seen[p].node)
  /\ prev' = [prev EXCEPT ![Call(p).node] = Root(p)]
  /\ SetRoot(p, Untagged(Call(p).node))
  /\ Local(p, "count")
  /\ UNCHANGED <<sizes, storage, count, resizing, erased>>

InsertRetry(p) ==
  /\ pc[p] = "cas"
  /\ Root(p) # Untagged(seen[p].node)
  /\ Local(p, "root")
  /\ UNCHANGED table

InsertCount(p) ==
  /\ pc[p] = "count"
  /\ count' = count + 1
  /\ Return(p, TRUE)
  /\ UNCHANGED <<sizes, storage, root, prev, resizing, erased>>
-----------------------------------------------------------------------------
(***************************************************************************)
(* erase.                                                                  *)
(***************************************************************************)
EraseNone(p) ==
  /\ pc[p] = "root"
  /\ Op(p) = "erase"
  /\ Root(p) = Untagged(Null)
  /\ Return(p, FALSE)
  /\ UNCHANGED table

EraseNext(p) ==
  /\ pc[p] = "root"
  /\ Op(p) = "erase"
  /\ Root(p) = moved
  /\ Visit(p, st[p] + 1)
  /\ UNCHANGED table

\* The bucket is locked as soon as it is neither locked nor moved.
EraseLock(p) ==
  /\ pc[p] = "root"
  /\ Op(p) = "erase"
  /\ Root(p).node # Null
  /\ ~Root(p).tag
  /\ SetRoot(p, Tagged(Root(p).node))
  /\ seen' = [seen EXCEPT ![p] = Root(p)]
  /\ Goto(p, "unlink")
  /\ UNCHANGED <<sizes, storage, prev, count, resizing, erased, call, st, cursor,
                 bucket, chain, new, results>>

\* The nodes of the chain that begins with node n.
ChainFrom[n \in Node \cup {Null}] ==
  IF n = Null THEN <<>> ELSE <<n>> \o ChainFrom[prev[n].node]

\* The walk over the locked chain, and the store that takes the node out.
Unlink(p) ==
  LET nodes == ChainFrom[seen[p].node]
      at == {i \in 1 .. Len(nodes) : NodeKey[nodes[i]] = Call(p).key}
      i == CHOOSE j \in at : \A k \in at : j <= k
  IN
  /\ pc[p] = "unlink"
  /\ IF at = {}
     THEN Local(p, "unlock") /\ UNCHANGED <<root, prev>>
     ELSE /\ cursor' = [cursor EXCEPT ![p] = nodes[i]]
          /\ Goto(p, "uncount")
          /\ UNCHANGED <<call, st, seen, bucket, chain, new, results>>
          /\ IF i = 1
             THEN SetRoot(p, prev[nodes[1]]) /\ UNCHANGED prev
             ELSE /\ prev' = [prev EXCEPT ![nodes[i - 1]] = prev[nodes[i]]]
                  /\ UNCHANGED root
  /\ UNCHANGED <<sizes, storage, count, resizing, erased>>

\* m_count and m_erased, which nobody reads before compact.
EraseCount(p) ==
  /\ pc[p] = "uncount"
  /\ count' = count - 1
  /\ erased' = Append(erased, cursor[p])
  /\ IF cursor[p] = seen[p].node THEN Return(p, TRUE) ELSE Local(p, "unlock")
  /\ UNCHANGED <<sizes, storage, root, prev, resizing>>

Unlock(p) ==
  /\ pc[p] = "unlock"
  /\ SetRoot(p, seen[p])
  /\ Return(p, cursor[p] # Null)
  /\ UNCHANGED <<sizes, storage, prev, count, resizing, erased>>
-----------------------------------------------------------------------------
(***************************************************************************)
(* reserve, called by the user or by an insertion.                         *)
(***************************************************************************)
Capacity(p) == IF Op(p) = "reserve" THEN Call(p).capacity ELSE sizes[st[p]] * 2

\* reserve returns false: another thread is resizing.
ReserveBusy(p) ==
  /\ pc[p] = "reserve"
  /\ resizing
  /\ IF Op(p) = "reserve" THEN Return(p, FALSE) ELSE Local(p, "cas")
  /\ UNCHANGED table

ReserveBegin(p) ==
  /\ pc[p] = "reserve"
  /\ ~resizing
  /\ resizing' = TRUE
  /\ Local(p, "create")
  /\ UNCHANGED <<sizes, storage, root, prev, count, erased>>

\* The new version is created and becomes visible as the next of the last.
Create(p) ==
  LET size == get_prime_number_greater_or_equal_to(Capacity(p)) IN
  /\ pc[p] = "create"
  /\ IF sizes[storage] >= Capacity(p)
     THEN Local(p, "release") /\ UNCHANGED <<sizes, root>>
     ELSE /\ sizes' = Append(sizes, size)
          /\ root' = Append(root, [b \in 0 .. size - 1 |-> Untagged(Null)])
          /\ bucket' = [bucket EXCEPT ![p] = 0]
          /\ Goto(p, "lock")
          /\ UNCHANGED <<call, st, seen, cursor, chain, new, results>>
  /\ UNCHANGED <<storage, prev, count, resizing, erased>>

\* Mutant: the resize does not wait for the erasure that has locked the bucket.
LockBucket_NoWait(p) ==
  LET ptr == root[storage][bucket[p]] IN
  /\ pc[p] = "lock"
  /\ bucket[p] < sizes[storage]
  /\ root' = [root EXCEPT ![storage][bucket[p]] = Tagged(ptr.node)]
  /\ chain' = [chain EXCEPT ![p] = ChainFrom[ptr.node]]
  /\ bucket' = [bucket EXCEPT ![p] = IF ptr.node = Null THEN @ + 1 ELSE @]
  /\ Goto(p, IF ptr.node = Null THEN "lock" ELSE "rewire")
  /\ UNCHANGED <<sizes, storage, prev, count, resizing, erased, call, st, seen,
                 cursor, new, results>>

\* Locks the bucket or, if it is empty, marks it as moved; if it is locked by
\* an erasure, waits.
LockBucket(p) ==
  LET ptr == root[storage][bucket[p]] IN
  /\ pc[p] = "lock"
  /\ bucket[p] < sizes[storage]
  /\ ~ptr.tag
  /\ root' = [root EXCEPT ![storage][bucket[p]] = Tagged(ptr.node)]
  /\ chain' = [chain EXCEPT ![p] = ChainFrom[ptr.node]]
  /\ bucket' = [bucket EXCEPT ![p] = IF ptr.node = Null THEN @ + 1 ELSE @]
  /\ Goto(p, IF ptr.node = Null THEN "lock" ELSE "rewire")
  /\ UNCHANGED <<sizes, storage, prev, count, resizing, erased, call, st, seen,
                 cursor, new, results>>

\* Mutant: a chain is moved from its root on.
Last_Root(p) == chain[p][1]

Last(p) == chain[p][Len(chain[p])]

NewBucket(p) == Bucket(NodeKey[Last(p)], storage + 1)

\* The first load of the chain in the new version.
Rewire(p) ==
  /\ pc[p] = "rewire"
  /\ new' = [new EXCEPT ![p] = root[storage + 1][NewBucket(p)].node]
  /\ Goto(p, "attach")
  /\ UNCHANGED <<call, st, seen, cursor, bucket, chain, results, table>>

\* 1. The node is put in front of the new chain ...
Attach(p) ==
  /\ pc[p] = "attach"
  /\ prev' = [prev EXCEPT ![Last(p)] = Untagged(new[p])]
  /\ Local(p, "switch")
  /\ UNCHANGED <<sizes, storage, root, count, resizing, erased>>

\* Mutant: a store in place of the compare-exchange.
Switch_Store(p) ==
  /\ pc[p] = "switch"
  /\ root' = [root EXCEPT ![storage + 1][NewBucket(p)] = Untagged(Last(p))]
  /\ Local(p, "detach")
  /\ UNCHANGED <<sizes, storage, prev, count, resizing, erased>>

\* 2. ... and becomes its root, unless the new bucket has changed or is locked.
Switch(p) ==
  LET ptr == root[storage + 1][NewBucket(p)] IN
  /\ pc[p] = "switch"
  /\ IF ptr = Untagged(new[p])
     THEN /\ root' = [root EXCEPT ![storage + 1][NewBucket(p)] = Untagged(Last(p))]
          /\ Local(p, "detach")
     ELSE /\ new' = [new EXCEPT ![p] = ptr.node]
          /\ Goto(p, "attach")
          /\ UNCHANGED <<root, call, st, seen, cursor, bucket, chain, results>>
  /\ UNCHANGED <<sizes, storage, prev, count, resizing, erased>>

\* Mutant: the bucket stays locked and is not marked as moved.
Detach_Locked(p) ==
  LET n == Len(chain[p]) IN
  /\ pc[p] = "detach"
  /\ IF n = 1 THEN UNCHANGED prev
     ELSE prev' = [prev EXCEPT ![chain[p][n - 1]] = moved]
  /\ chain' = [chain EXCEPT ![p] = SubSeq(@, 1, n - 1)]
  /\ bucket' = [bucket EXCEPT ![p] = IF n = 1 THEN @ + 1 ELSE @]
  /\ new' = [new EXCEPT ![p] = Null]
  /\ Goto(p, IF n = 1 THEN "lock" ELSE "rewire")
  /\ UNCHANGED <<sizes, storage, root, count, resizing, erased, call, st, seen, cursor,
                 results>>

\* 3. The end of the old chain is marked as moved.
Detach(p) ==
  LET n == Len(chain[p]) IN
  /\ pc[p] = "detach"
  /\ IF n = 1
     THEN /\ root' = [root EXCEPT ![storage][bucket[p]] = moved]
          /\ UNCHANGED prev
     ELSE /\ prev' = [prev EXCEPT ![chain[p][n - 1]] = moved]
          /\ UNCHANGED root
  /\ chain' = [chain EXCEPT ![p] = SubSeq(@, 1, n - 1)]
  /\ bucket' = [bucket EXCEPT ![p] = IF n = 1 THEN @ + 1 ELSE @]
  /\ new' = [new EXCEPT ![p] = Null]
  /\ Goto(p, IF n = 1 THEN "lock" ELSE "rewire")
  /\ UNCHANGED <<sizes, storage, count, resizing, erased, call, st, seen, cursor,
                 results>>

Publish(p) ==
  /\ pc[p] = "lock"
  /\ bucket[p] = sizes[storage]
  /\ storage' = storage + 1
  /\ bucket' = [bucket EXCEPT ![p] = 0]
  /\ Goto(p, "release")
  /\ UNCHANGED <<sizes, root, prev, count, resizing, erased, call, st, seen, cursor,
                 chain, new, results>>

\* reserve returns true; an insertion starts again.
Release(p) ==
  /\ pc[p] = "release"
  /\ resizing' = FALSE
  /\ IF Op(p) = "reserve" THEN Return(p, TRUE) ELSE Local(p, "begin")
  /\ UNCHANGED <<sizes, storage, root, prev, count, erased>>
-----------------------------------------------------------------------------
GetStep(p)    == LoadRoot(p) \/ Found(p) \/ ScanNext(p) \/ GetEnd(p)
InsertStep(p) == InsertNext(p) \/ LoadFactor(p) \/ InsertNode(p)
                 \/ InsertRetry(p) \/ InsertCount(p)
EraseStep(p)  == EraseNone(p) \/ EraseNext(p) \/ EraseLock(p) \/ Unlink(p)
                 \/ EraseCount(p) \/ Unlock(p)
ReserveStep(p) ==
  \/ ReserveBusy(p) \/ ReserveBegin(p) \/ Create(p) \/ LockBucket(p)
  \/ Rewire(p) \/ Attach(p) \/ Switch(p) \/ Detach(p) \/ Publish(p) \/ Release(p)

Step(p) ==
  /\ Begin(p) \/ GetStep(p) \/ InsertStep(p) \/ EraseStep(p) \/ ReserveStep(p)
  /\ UNCHANGED setup

Returned(p) == pc[p] = "begin" /\ call[p] > Len(Program[p])
AllReturned == \A p \in Thread : Returned(p)

Next == (\E p \in Thread : Step(p)) \/ (AllReturned /\ UNCHANGED vars)

Spec == Init /\ [][Next]_vars
-----------------------------------------------------------------------------
(***************************************************************************)
(* Properties.                                                             *)
(***************************************************************************)
Nodes(v, b) == {ChainFrom[root[v][b].node][i] :
                  i \in 1 .. Len(ChainFrom[root[v][b].node])}

\* The nodes with key k that a get finds from m_storage on.
Holding(k) ==
  {n \in UNION {Nodes(v, Bucket(k, v)) : v \in storage .. Len(sizes)} :
     NodeKey[n] = k}

\* The results of the calls op(k) made so far.
Succeeded(op, k) ==
  Cardinality({c \in UNION {{p} \X (1 .. Len(results[p])) : p \in Thread} :
                 /\ Program[c[1]][c[2]].op = op
                 /\ Program[c[1]][c[2]].key = k
                 /\ results[c[1]][c[2]]})

Initially(k) ==
  Cardinality({i \in 1 .. Len(InitialChain) : NodeKey[InitialChain[i]] = k})

\* When all calls have returned, a key is present if and only if it was
\* inserted once more than it was erased, judging by what the calls
\* returned; m_count is the number of keys; and no resize is left unfinished,
\* as compact asserts.
NothingLost ==
  AllReturned =>
    /\ \A k \in Key :
         Cardinality(Holding(k)) =
           Initially(k) + Succeeded("insert", k) - Succeeded("erase", k)
    /\ count = Cardinality(UNION {Holding(k) : k \in Key})
    /\ storage = Len(sizes)
    /\ ~resizing

\* When all calls have returned, the nodes that compact deletes, the ones on
\* m_erased, are all different and none of them is still in the table; and
\* a node that was added is in one of the two: nothing is deleted twice, used
\* after its deletion, or leaked.
NodesOwnedOnce ==
  AllReturned =>
    LET linked == UNION {Nodes(Len(sizes), b) : b \in 0 .. sizes[Len(sizes)] - 1}
        added == {n \in Node : \/ \E i \in 1 .. Len(InitialChain) : InitialChain[i] = n
                               \/ \E p \in Thread : \E i \in 1 .. Len(results[p]) :
                                    /\ Program[p][i].op = "insert"
                                    /\ Program[p][i].node = n
                                    /\ results[p][i]}
        freed == {erased[i] : i \in 1 .. Len(erased)}
    IN  /\ \A i, j \in 1 .. Len(erased) : erased[i] = erased[j] => i = j
        /\ linked \cap freed = {}
        /\ linked \cup freed = added

Uses(p, k) ==
  \E i \in 1 .. Len(Program[p]) :
    Program[p][i].op # "reserve" /\ Program[p][i].key = k

\* Whether the own calls of p before its i-th one have left key k present.
Present(p, i, k) ==
  LET changes == {j \in 1 .. i - 1 : /\ Program[p][j].op \in {"insert", "erase"}
                                     /\ Program[p][j].key = k}
  IN  IF changes = {} THEN Initially(k) > 0
      ELSE Program[p][CHOOSE j \in changes : \A l \in changes : l <= j].op
             = "insert"

\* Whether only p uses the key of its i-th call.
OwnKey(p, i) ==
  /\ Program[p][i].op # "reserve"
  /\ \A q \in Thread \ {p} : ~Uses(q, Program[p][i].key)

\* "All insertions/erasures performed on the current thread are reflected
\* when calling get on the current thread" (the comment on the class): a get
\* finds a key that nobody else uses if and only if the last change that its
\* own thread made to it was an insertion.
GetReflectsOwnCalls ==
  \A p \in Thread : \A i \in 1 .. Len(results[p]) :
    (Program[p][i].op = "get" /\ OwnKey(p, i)) =>
      results[p][i] = Present(p, i, Program[p][i].key)

\* What reserve asserts of a node that it moves, whatever the other threads do
\* meanwhile: its prev is null or marked.
MovedFromTheEnd ==
  \A p \in Thread : pc[p] = "rewire" =>
    prev[Last(p)] = Untagged(Null) \/ prev[Last(p)].tag
=============================================================================

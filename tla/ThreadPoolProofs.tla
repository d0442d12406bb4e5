-------------------------- MODULE ThreadPoolProofs --------------------------
(***************************************************************************)
(* Proofs, for every set of jobs and every number of threads, of the       *)
(* accounting of sparta::ThreadPool and of what it gives join: the pool is *)
(* shut down only when no job is queued or running; and of run_in_parallel *)
(* on the pool: it returns to its caller only after all its workers.       *)
(***************************************************************************)
EXTENDS PoolRun, FiniteSetTheorems, SequenceTheorems, TLAPS

\* First-order steps go to Zenon; a step about numbers or updated functions
\* names SMT.
USE Zenon

\* m_threads holds the threads that were created and not yet joined.
ThreadsExist == \A t \in Thread : tpc[t] = "absent" <=> t > nthreads

\* m_joining is raised only by join, after it saw every thread waiting.
JoinPhase ==
  /\ joining <=> mpc \in {"join_notify", "join_threads"}
  /\ joining => waiting = nthreads

\* A job that was submitted and has not ended is queued or held by a thread.
JobsTracked ==
  \A j \in Job :
    /\ jstate[j] = "submitted" => \E i \in 1 .. Len(pending) : pending[i] = j
    /\ jstate[j] = "running" =>
         \E t \in Thread : tpc[t] \in {"running", "notify"} /\ func[t] = j

IInv == TypeOK /\ ThreadsExist /\ JoinPhase /\ WaitingAccounting /\ JobsTracked

-----------------------------------------------------------------------------
LEMMA IdleFinite == IsFiniteSet(Idle) /\ Cardinality(Idle) \in Nat
<1>1. IsFiniteSet(Thread)
  BY FS_Interval, JobAssumption, SMT DEF Thread
<1>2. Idle \in SUBSET Thread
  BY DEF Idle
<1> QED
  BY <1>1, <1>2, FS_Subset, FS_CardinalityType

\* Whether the set of idle threads is unchanged, gains or loses a thread.
LEMMA IdleChange ==
  ASSUME NEW t
  PROVE  /\ Cardinality(Idle \cup {t}) =
              IF t \in Idle THEN Cardinality(Idle) ELSE Cardinality(Idle) + 1
         /\ Cardinality(Idle \ {t}) =
              IF t \in Idle THEN Cardinality(Idle) - 1 ELSE Cardinality(Idle)
BY IdleFinite, FS_AddElement, FS_RemoveElement

\* What the accounting gives once join has raised m_joining.
LEMMA JoiningIsQuiet ==
  ASSUME IInv, joining
  PROVE  pending = <<>> /\ Busy = {} /\ \A t \in 1 .. nthreads : t \in Idle
<1> USE JobAssumption
<1>1. nthreads \in Nat /\ waiting = nthreads /\ pending \in Seq(Job)
  BY DEF IInv, TypeOK, JoinPhase
<1>2. Idle \in SUBSET (1 .. nthreads)
  BY <1>1, SMT DEF IInv, TypeOK, ThreadsExist, Idle, Thread
<1>3. IsFiniteSet(1 .. nthreads) /\ Cardinality(1 .. nthreads) = nthreads
  BY <1>1, FS_Interval, SMT
<1>4. Cardinality(Idle) <= nthreads
  BY <1>2, <1>3, FS_Subset
<1>5. Len(pending) = 0 /\ Cardinality(Idle) = nthreads
  BY <1>1, <1>4, IdleFinite, LenProperties, SMT DEF IInv, WaitingAccounting
<1>6. Idle = 1 .. nthreads
  BY <1>2, <1>3, <1>5, FS_Subset
<1>7. pending = <<>>
  BY <1>1, <1>5, EmptySeq
<1>8. Busy = {}
  BY <1>1, <1>6, SMT DEF IInv, TypeOK, ThreadsExist, Busy, Idle, Thread
<1> QED
  BY <1>6, <1>7, <1>8
-----------------------------------------------------------------------------
LEMMA InitIInv == Init => IInv
<1> SUFFICES ASSUME Init PROVE IInv
  OBVIOUS
<1> USE JobAssumption DEF Init
<1>1. TypeOK
  <2>1. joining \in BOOLEAN
    OBVIOUS
  <2>2. pending \in Seq(Job)
    BY EmptySeq
  <2>3. nthreads \in 0 .. MaxThreads /\ waiting \in Nat
    BY SMT
  <2> QED
    BY <2>1, <2>2, <2>3 DEF TypeOK
<1>2. ThreadsExist
  BY SMT DEF ThreadsExist, Thread
<1>3. WaitingAccounting
  <2>1. Idle = {}
    BY DEF Idle
  <2> QED
    BY <2>1, FS_EmptySet, EmptySeq, SMT DEF WaitingAccounting
<1> QED
  BY <1>1, <1>2, <1>3 DEF IInv, JoinPhase, JobsTracked

\* run_async: the two branches, whoever calls it.
LEMMA RunAsyncStep ==
  ASSUME IInv, NEW j \in Job, jstate[j] = "new",
         UNCHANGED <<joining, exception, rethrown>>,
         \/ /\ CreateThread(j)
            /\ tpc' = [tpc EXCEPT ![nthreads + 1] = "running"]
            /\ UNCHANGED mpc
         \/ /\ EnqueuePending(j)
            /\ mpc' = "notify"
            /\ mpc = "open"
            /\ UNCHANGED tpc
         \/ /\ EnqueuePending(j)
            /\ UNCHANGED mpc
            /\ \E t \in Thread : /\ tpc[t] = "running"
                                /\ tpc' = [tpc EXCEPT ![t] = "notify"]
  PROVE  IInv'
<1> USE JobAssumption
<1>1. CASE /\ CreateThread(j)
           /\ tpc' = [tpc EXCEPT ![nthreads + 1] = "running"]
           /\ UNCHANGED mpc
  <2>1. nthreads + 1 \in Thread /\ tpc[nthreads + 1] = "absent"
    BY <1>1, SMT DEF IInv, TypeOK, ThreadsExist, CreateThread, Thread
  <2>2. TypeOK'
    BY <1>1, <2>1, SMT DEF IInv, TypeOK, CreateThread, Thread
  <2>3. ThreadsExist'
    BY <1>1, <2>1, SMT DEF IInv, TypeOK, ThreadsExist, CreateThread, Thread
  <2>4. JoinPhase'
    BY <1>1 DEF IInv, JoinPhase, CreateThread
  <2>5. Idle' = Idle
    BY <1>1, <2>1 DEF IInv, TypeOK, Idle
  <2>6. WaitingAccounting'
    BY <1>1, <2>5 DEF IInv, WaitingAccounting, CreateThread
  <2>7. JobsTracked'
    BY <1>1, <2>1, SMT DEF IInv, TypeOK, JobsTracked, CreateThread
  <2> QED
    BY <2>2, <2>3, <2>4, <2>6, <2>7 DEF IInv
<1>2. ASSUME EnqueuePending(j),
             \/ mpc = "open" /\ mpc' = "notify" /\ UNCHANGED tpc
             \/ /\ UNCHANGED mpc
                /\ \E t \in Thread : /\ tpc[t] = "running"
                                    /\ tpc' = [tpc EXCEPT ![t] = "notify"]
      PROVE  IInv'
  <2>1. /\ pending' \in Seq(Job)
        /\ Len(pending) \in Nat
        /\ Len(pending') = Len(pending) + 1
        /\ \A i \in 1 .. Len(pending) : pending'[i] = pending[i]
        /\ pending'[Len(pending) + 1] = j
    BY <1>2, AppendProperties, LenProperties, SMT DEF IInv, TypeOK, EnqueuePending
  <2>2. TypeOK'
    <3>1. joining' = joining
      OBVIOUS
    <3>2. jstate' \in [Job -> {"new", "submitted", "running", "done"}]
      BY <1>2 DEF IInv, TypeOK, EnqueuePending
    <3>3. waiting' \in Nat
      BY <1>2, SMT DEF IInv, TypeOK, EnqueuePending
    <3> QED
      BY <1>2, <2>1, <3>1, <3>2, <3>3 DEF IInv, TypeOK, EnqueuePending
  <2>3. ThreadsExist'
    BY <1>2 DEF IInv, TypeOK, ThreadsExist, EnqueuePending
  <2>4. JoinPhase'
    BY <1>2 DEF IInv, JoinPhase, EnqueuePending
  <2>5. Idle' = Idle
    BY <1>2 DEF IInv, TypeOK, Idle
  <2>6. WaitingAccounting'
    BY <1>2, <2>1, <2>5, IdleFinite, SMT
    DEF IInv, TypeOK, WaitingAccounting, EnqueuePending
  <2>7. ASSUME NEW k \in Job, jstate'[k] = "submitted"
        PROVE  \E i \in 1 .. Len(pending') : pending'[i] = k
    <3>1. CASE k = j
      BY <2>1, <3>1, SMT
    <3>2. CASE k # j
      <4>1. jstate[k] = "submitted"
        BY <1>2, <2>7, <3>2 DEF IInv, TypeOK, EnqueuePending
      <4>2. PICK i \in 1 .. Len(pending) : pending[i] = k
        BY <4>1 DEF IInv, JobsTracked
      <4> QED
        BY <2>1, <4>2, SMT
    <3> QED
      BY <3>1, <3>2
  <2>8. JobsTracked'
    <3>1. func' = func /\ \A k \in Job : jstate'[k] = "running" => jstate[k] = "running"
      BY <1>2 DEF IInv, TypeOK, EnqueuePending
    <3>3. \A t \in Thread : tpc[t] \in {"running", "notify"} => tpc'[t] \in {"running", "notify"}
      BY <1>2 DEF IInv, TypeOK
    <3>2. \A k \in Job : jstate[k] = "running" =>
            \E t \in Thread : tpc[t] \in {"running", "notify"} /\ func[t] = k
      BY DEF IInv, JobsTracked
    <3> QED
      BY <2>7, <3>1, <3>2, <3>3 DEF JobsTracked
  <2> QED
    BY <2>2, <2>3, <2>4, <2>6, <2>8 DEF IInv
<1> QED
  BY <1>1, <1>2

\* A notification only turns parked threads into awake ones.
LEMMA NotifyStep ==
  ASSUME IInv, NEW woken \in SUBSET Thread, NEW t,
         \A s \in woken : tpc[s] = "parked",
         t \in Thread => tpc[t] = "notify",
         tpc' = [s \in Thread |-> IF s \in woken THEN "awake"
                                  ELSE IF s = t THEN "running" ELSE tpc[s]],
         \/ UNCHANGED mpc
         \/ mpc = "notify" /\ mpc' = "open"
         \/ mpc = "join_notify" /\ mpc' = "join_threads",
         UNCHANGED <<nthreads, waiting, pending, joining, exception, rethrown,
                     func, jstate>>
  PROVE  IInv'
<1>1. TypeOK'
  BY DEF IInv, TypeOK
<1>2. ThreadsExist'
  BY DEF IInv, ThreadsExist
<1>3. JoinPhase'
  BY DEF IInv, JoinPhase
<1>4. Idle' = Idle
  BY DEF Idle
<1>5. WaitingAccounting'
  BY <1>4 DEF IInv, WaitingAccounting
<1>6. JobsTracked'
  BY SMT DEF IInv, JobsTracked
<1> QED
  BY <1>1, <1>2, <1>3, <1>5, <1>6 DEF IInv
\* The critical section of a thread that is about to wait, which counts itself
\* first (inc = 1), or that was woken up (inc = 0).
LEMMA TakeOrParkStep ==
  ASSUME IInv, NEW t \in Thread, NEW inc \in {0, 1}, TakeOrPark(t),
         tpc[t] = IF inc = 1 THEN "finished" ELSE "awake",
         waiting' = waiting + inc,
         UNCHANGED <<nthreads, joining, exception, rethrown>>,
         UNCHANGED mpc \/ (mpc = "join_parked" /\ mpc' = "join_awake")
  PROVE  IInv'
<1> USE JobAssumption
<1>1. /\ pending \in Seq(Job) /\ Len(pending) \in Nat
      /\ Cardinality(Idle) \in Nat /\ waiting \in Nat
  BY IdleFinite, LenProperties DEF IInv, TypeOK
<1>2. JoinPhase'
  <2>1. inc = 1 => ~joining
    BY JoiningIsQuiet DEF Busy
  <2> QED
    BY <1>1, <2>1, SMT DEF IInv, JoinPhase
<1>3. CASE joining /\ tpc' = [tpc EXCEPT ![t] = "exited"]
           /\ UNCHANGED <<pending, func, jstate>>
  <2>1. inc = 0
    BY <1>3, JoiningIsQuiet DEF Busy
  <2>2. Idle' = Idle
    BY <1>3, <2>1, SMT DEF IInv, TypeOK, Idle
  <2>3. TypeOK'
    BY <1>3, <2>1, SMT DEF IInv, TypeOK
  <2>4. ThreadsExist' /\ JobsTracked' /\ WaitingAccounting'
    BY <1>1, <1>3, <2>1, <2>2, SMT
    DEF IInv, TypeOK, ThreadsExist, JobsTracked, WaitingAccounting
  <2> QED
    BY <1>2, <2>3, <2>4 DEF IInv
<1>4. CASE /\ ~joining
           /\ pending # <<>>
           /\ tpc' = [tpc EXCEPT ![t] = "running"]
           /\ func' = [func EXCEPT ![t] = Head(pending)]
           /\ jstate' = [jstate EXCEPT ![Head(pending)] = "running"]
           /\ pending' = Tail(pending)
  <2>1. /\ Head(pending) \in Job
        /\ Head(pending) = pending[1]
        /\ pending' \in Seq(Job)
        /\ Len(pending') = Len(pending) - 1
        /\ \A i \in 1 .. Len(pending') : pending'[i] = pending[i + 1]
    BY <1>1, <1>4, HeadTailProperties, SMT
  <2>2. TypeOK'
    <3>1. /\ jstate' \in [Job -> {"new", "submitted", "running", "done"}]
          /\ func' \in [Thread -> Job \cup {NoJob}]
      BY <1>4, <2>1 DEF IInv, TypeOK
    <3>2. waiting' \in Nat
      BY <1>1, SMT
    <3>3. joining' = joining
      OBVIOUS
    <3> QED
      BY <1>4, <2>1, <3>1, <3>2, <3>3 DEF IInv, TypeOK
  <2>3. ThreadsExist'
    BY <1>4 DEF IInv, TypeOK, ThreadsExist
  <2>4. Idle' = IF inc = 1 THEN Idle ELSE Idle \ {t}
    BY <1>4 DEF IInv, TypeOK, Idle
  <2>5. inc = 0 => t \in Idle
    BY SMT DEF Idle
  <2>6. WaitingAccounting'
    <3>1. Cardinality(Idle') = IF inc = 1 THEN Cardinality(Idle)
                               ELSE Cardinality(Idle) - 1
      BY <2>4, <2>5, IdleChange
    <3>2. waiting + Len(pending) = Cardinality(Idle)
      BY DEF IInv, WaitingAccounting
    <3>3. (waiting + inc) + Len(pending') = Cardinality(Idle')
      <4>1. CASE inc = 0
        <5>1. Cardinality(Idle') = Cardinality(Idle) - 1
          BY <3>1, <4>1, SMT
        <5> QED
          BY <1>1, <2>1, <3>2, <4>1, <5>1, SMT
      <4>2. CASE inc = 1
        <5>1. Cardinality(Idle') = Cardinality(Idle)
          BY <3>1, <4>2
        <5> QED
          BY <1>1, <2>1, <3>2, <4>2, <5>1, SMT
      <4> QED
        BY <4>1, <4>2
    <3> QED
      BY <3>3 DEF WaitingAccounting
  <2>7. ASSUME NEW k \in Job, jstate'[k] = "submitted"
        PROVE  \E i \in 1 .. Len(pending') : pending'[i] = k
    <3>1. k # pending[1] /\ jstate[k] = "submitted"
      BY <1>4, <2>1, <2>7 DEF IInv, TypeOK
    <3>2. PICK i \in 1 .. Len(pending) : pending[i] = k
      BY <3>1 DEF IInv, JobsTracked
    <3>3. i - 1 \in 1 .. Len(pending')
      BY <1>1, <2>1, <3>1, <3>2, SMT
    <3>4. pending'[i - 1] = k
      BY <1>1, <2>1, <3>2, <3>3, SMT
    <3> QED
      BY <3>3, <3>4
  <2>8. ASSUME NEW k \in Job, jstate'[k] = "running"
        PROVE  \E s \in Thread : tpc'[s] \in {"running", "notify"}
                                 /\ func'[s] = k
    <3>1. CASE k = Head(pending)
      BY <1>4, <3>1 DEF IInv, TypeOK
    <3>2. CASE k # Head(pending)
      <4>1. jstate[k] = "running"
        BY <1>4, <2>8, <3>2, <2>1 DEF IInv, TypeOK
      <4>2. PICK s \in Thread : tpc[s] \in {"running", "notify"} /\ func[s] = k
        BY <4>1 DEF IInv, JobsTracked
      <4>3. s # t
        BY <4>2
      <4> QED
        BY <1>4, <4>2, <4>3 DEF IInv, TypeOK
    <3> QED
      BY <3>1, <3>2
  <2>9. JobsTracked'
    BY <2>7, <2>8 DEF JobsTracked
  <2> QED
    BY <1>2, <2>2, <2>3, <2>6, <2>9 DEF IInv
<1>5. CASE /\ ~joining
           /\ pending = <<>>
           /\ tpc' = [tpc EXCEPT ![t] = "parked"]
           /\ UNCHANGED <<pending, func, jstate>>
  <2>1. TypeOK'
    <3>1. waiting' \in Nat
      BY <1>1, SMT
    <3>2. joining' = joining
      OBVIOUS
    <3> QED
      BY <1>5, <3>1, <3>2 DEF IInv, TypeOK
  <2>2. Idle' = Idle \cup {t}
    BY <1>5, SMT DEF IInv, TypeOK, Idle
  <2>3. inc = 0 <=> t \in Idle
    BY SMT DEF Idle
  <2>4. WaitingAccounting'
    <3>1. Cardinality(Idle') = Cardinality(Idle) + inc
      <4>1. CASE inc = 0
        <5>1. Idle' = Idle
          BY <2>2, <2>3, <4>1
        <5> QED
          BY <1>1, <4>1, <5>1, SMT
      <4>2. CASE inc = 1
        BY <1>1, <2>2, <2>3, <4>2, IdleChange, SMT
      <4> QED
        BY <4>1, <4>2
    <3>2. waiting + Len(pending) = Cardinality(Idle)
      BY DEF IInv, WaitingAccounting
    <3>3. (waiting + inc) + Len(pending) = Cardinality(Idle')
      BY <1>1, <3>1, <3>2, SMT
    <3> QED
      BY <1>5, <3>3 DEF WaitingAccounting
  <2>5. ThreadsExist' /\ JobsTracked'
    BY <1>5, SMT DEF IInv, TypeOK, ThreadsExist, JobsTracked
  <2> QED
    BY <1>2, <2>1, <2>4, <2>5 DEF IInv
<1> QED
  BY <1>3, <1>4, <1>5 DEF TakeOrPark
\* Every action preserves the invariant.
LEMMA NextIInv == IInv /\ [Next]_vars => IInv'
<1> SUFFICES ASSUME IInv, [Next]_vars PROVE IInv'
  OBVIOUS
<1> USE JobAssumption
<1>1. ASSUME NEW j \in Job, MainRunAsync(j) PROVE IInv'
  BY <1>1, RunAsyncStep DEF MainRunAsync
<1>2. ASSUME MainNotify PROVE IInv'
  <2>1. PICK woken \in SUBSET Thread :
          /\ NotifyOne(woken)
          /\ tpc' = [t \in Thread |-> IF t \in woken THEN "awake" ELSE tpc[t]]
    BY <1>2 DEF MainNotify
  <2>2. /\ 0 \notin Thread
        /\ \A s \in woken : tpc[s] = "parked"
    BY <2>1, SMT DEF NotifyOne, Thread
  <2>3. tpc' = [s \in Thread |-> IF s \in woken THEN "awake"
                                ELSE IF s = 0 THEN "running" ELSE tpc[s]]
    BY <2>1, <2>2
  <2> QED
    BY <1>2, <2>2, <2>3, NotifyStep DEF MainNotify
<1>3. ASSUME NEW t \in Thread, NEW j \in Job, JobRunAsync(t, j) PROVE IInv'
  BY <1>3, RunAsyncStep DEF JobRunAsync
<1>4. ASSUME NEW t \in Thread, JobNotify(t) PROVE IInv'
  <2>1. PICK woken \in SUBSET Thread :
          /\ NotifyOne(woken)
          /\ tpc' = [s \in Thread |-> IF s \in woken THEN "awake"
                                      ELSE IF s = t THEN "running" ELSE tpc[s]]
    BY <1>4 DEF JobNotify
  <2>2. \A s \in woken : tpc[s] = "parked"
    BY <2>1 DEF NotifyOne
  <2> QED
    BY <1>4, <2>1, <2>2, NotifyStep DEF JobNotify
<1>5. ASSUME NEW t \in Thread, FuncEnds(t) PROVE IInv'
  <2>1. Idle' = Idle
    BY <1>5 DEF IInv, TypeOK, FuncEnds, Idle
  <2>2. TypeOK'
    <3>1. exception' \in Job \cup {NoJob}
      BY <1>5 DEF IInv, TypeOK, FuncEnds
    <3>2. joining' = joining
      BY <1>5 DEF FuncEnds
    <3> QED
      BY <1>5, <3>1, <3>2 DEF IInv, TypeOK, FuncEnds
  <2>3. ThreadsExist' /\ JoinPhase' /\ WaitingAccounting'
    BY <1>5, <2>1
    DEF IInv, TypeOK, FuncEnds, ThreadsExist, JoinPhase, WaitingAccounting
  <2>4. JobsTracked'
    BY <1>5, SMT DEF IInv, TypeOK, FuncEnds, JobsTracked
  <2> QED
    BY <2>2, <2>3, <2>4 DEF IInv
<1>6. ASSUME NEW t \in Thread, BecomeWaiting(t) PROVE IInv'
  BY <1>6, TakeOrParkStep DEF BecomeWaiting
<1>7. ASSUME NEW t \in Thread, Wake(t) PROVE IInv'
  <2>1. waiting' = waiting + 0
    BY <1>7, SMT DEF Wake, IInv, TypeOK
  <2> QED
    BY <1>7, <2>1, TakeOrParkStep, SMT DEF Wake
<1>8. ASSUME JoinBegin PROVE IInv'
  <2>1. Idle' = Idle
    BY <1>8 DEF JoinBegin, Idle
  <2>2. TypeOK'
    BY <1>8 DEF JoinBegin, IInv, TypeOK
  <2> QED
    BY <1>8, <2>1, <2>2, SMT
    DEF JoinBegin, IInv, ThreadsExist, JoinPhase, WaitingAccounting, JobsTracked
<1>9. ASSUME JoinNotify PROVE IInv'
  <2> DEFINE woken == {t \in Thread : tpc[t] = "parked"}
  <2>1. /\ 0 \notin Thread
        /\ tpc' = [s \in Thread |-> IF s \in woken THEN "awake"
                                    ELSE IF s = 0 THEN "running" ELSE tpc[s]]
    BY <1>9, SMT DEF JoinNotify, Thread
  <2> QED
    BY <1>9, <2>1, NotifyStep DEF JoinNotify
<1>10. ASSUME JoinEnd PROVE IInv'
  <2>1. joining
    BY <1>10 DEF JoinEnd, IInv, JoinPhase
  <2>2. pending = <<>> /\ Busy = {}
    BY <2>1, JoiningIsQuiet
  <2>3. Idle' = {}
    BY <1>10 DEF JoinEnd, Idle
  <2>4. TypeOK'
    <3>1. joining' \in BOOLEAN
      BY <1>10 DEF JoinEnd
    <3>2. nthreads' \in 0 .. MaxThreads /\ waiting' \in Nat
      BY <1>10, SMT DEF JoinEnd
    <3>3. /\ exception' \in Job \cup {NoJob}
          /\ rethrown' \in Job \cup {NoJob}
      BY <1>10 DEF JoinEnd, IInv, TypeOK
    <3> QED
      BY <1>10, <3>1, <3>2, <3>3 DEF JoinEnd, IInv, TypeOK
  <2>5. ThreadsExist'
    BY <1>10, SMT DEF JoinEnd, ThreadsExist, Thread
  <2>6. WaitingAccounting'
    BY <1>10, <2>2, <2>3, FS_EmptySet, EmptySeq, SMT
    DEF JoinEnd, WaitingAccounting
  <2>7. JobsTracked'
    BY <1>10, <2>2, SMT DEF JoinEnd, IInv, JobsTracked, Busy
  <2>8. JoinPhase'
    BY <1>10 DEF JoinEnd, JoinPhase
  <2> QED
    BY <2>4, <2>5, <2>6, <2>7, <2>8 DEF IInv
<1>11. CASE UNCHANGED vars
  <2>1. Idle' = Idle
    BY <1>11 DEF vars, Idle
  <2> QED
    BY <1>11, <2>1 DEF vars, IInv, TypeOK, ThreadsExist, JoinPhase,
                       WaitingAccounting, JobsTracked
<1> QED
  BY <1>1, <1>2, <1>3, <1>4, <1>5, <1>6, <1>7, <1>8, <1>9, <1>10, <1>11
  DEF Next, MainStep, ThreadStep

LEMMA AlwaysIInv == Spec => []IInv
BY InitIInv, NextIInv, PTL DEF Spec

\* m_waiting is the number of idle threads less the number of queued jobs: for
\* every queued job there is an idle thread that will take it (run_async_bound
\* and run of sparta::ThreadPool).
THEOREM WaitingAccounted == Spec => []WaitingAccounting
BY AlwaysIInv, PTL DEF IInv

\* join lets the threads return only when no job is queued or running, so no
\* submitted job is dropped (join of sparta::ThreadPool).
THEOREM JoinIsSafe == Spec => []JoinDropsNothing
<1>1. IInv => JoinDropsNothing
  <2> SUFFICES ASSUME IInv, joining
               PROVE  /\ pending = <<>>
                      /\ Busy = {}
                      /\ \A j \in Job : jstate[j] \in {"new", "done"}
    BY DEF JoinDropsNothing
  <2>1. pending = <<>> /\ Busy = {}
    BY JoiningIsQuiet
  <2>2. \A j \in Job : jstate[j] # "running"
    BY <2>1 DEF IInv, JobsTracked, Busy
  <2>3. Len(pending) = 0
    BY <2>1, EmptySeq
  <2>4. \A j \in Job : jstate[j] # "submitted"
    BY <2>3, SMT DEF IInv, JobsTracked
  <2> QED
    BY <2>1, <2>2, <2>4 DEF IInv, TypeOK
<1> QED
  BY <1>1, AlwaysIInv, PTL
-----------------------------------------------------------------------------
(***************************************************************************)
(* run_in_parallel, for every number of workers and whatever else the pool *)
(* runs.                                                                   *)
(***************************************************************************)
\* The workers that the counter of the call still counts.
Unfinished == {i \in Call!Worker : wpc[i] \in {"unborn", "worker", "count"}}

\* The counter is exact; what the caller has seen, a zero, stays true.
CallInv ==
  /\ Call!TypeOK
  /\ remaining = Cardinality(Unfinished)
  /\ cpc = "returned" => remaining = 0

LEMMA WorkersFinite ==
  /\ Len(WorkerJob) \in Nat
  /\ DOMAIN WorkerJob = Call!Worker
  /\ IsFiniteSet(Call!Worker)
  /\ Cardinality(Call!Worker) = Len(WorkerJob)
<1>1. Len(WorkerJob) \in Nat /\ DOMAIN WorkerJob = 1 .. Len(WorkerJob)
  BY CallAssumption, LenProperties
<1> DEFINE n == Len(WorkerJob)
<1>2. IsFiniteSet(1 .. n) /\ Cardinality(1 .. n) = IF 1 > n THEN 0 ELSE n - 1 + 1
  BY <1>1, FS_Interval, SMT
<1>3. Call!Worker = 1 .. n
  BY DEF Call!Worker
<1> HIDE DEF n
<1>4. Cardinality(1 .. n) = n
  BY <1>1, <1>2, SMT DEF n
<1> QED
  BY <1>1, <1>2, <1>3, <1>4 DEF n

LEMMA UnfinishedFinite == IsFiniteSet(Unfinished) /\ Cardinality(Unfinished) \in Nat
<1>1. Unfinished \in SUBSET Call!Worker
  BY DEF Unfinished
<1> QED
  BY <1>1, WorkersFinite, FS_Subset, FS_CardinalityType

LEMMA CallInvInit == RunInit => CallInv
<1> SUFFICES ASSUME RunInit PROVE CallInv
  OBVIOUS
<1>1. Call!Init
  BY DEF RunInit
<1>2. Unfinished = Call!Worker
  BY <1>1 DEF Unfinished, Call!Init
<1>3. Len(WorkerJob) \in 0 .. Len(WorkerJob)
  BY WorkersFinite, SMT
<1>4. Call!TypeOK
  BY <1>1, <1>3 DEF Call!Init, Call!TypeOK
<1> QED
  BY <1>1, <1>2, <1>4, WorkersFinite DEF CallInv, Call!Init

\* One worker takes its critical section.
LEMMA CountDownStep ==
  ASSUME CallInv, NEW i \in Call!Worker, Call!CountDown(i)
  PROVE  CallInv'
<1> USE WorkersFinite
<1>1. Unfinished' = Unfinished \ {i} /\ i \in Unfinished
  BY DEF CallInv, Call!TypeOK, Call!CountDown, Unfinished
<1>2. Cardinality(Unfinished') = Cardinality(Unfinished) - 1
  BY <1>1, UnfinishedFinite, FS_RemoveElement
<1>3. Cardinality(Unfinished) \in Nat \ {0}
  BY <1>1, UnfinishedFinite, FS_EmptySet
<1>4. cpc # "returned"
  BY <1>3 DEF CallInv
<1> QED
  BY <1>2, <1>3, <1>4, SMT DEF CallInv, Call!TypeOK, Call!CountDown

\* No other step of the call changes what is counted.
LEMMA OtherCallSteps ==
  ASSUME CallInv,
         \/ \E i \in Call!Worker :
              Call!RunAsync(i) \/ Call!WorkerEnds(i) \/ Call!Notify(i)
         \/ Call!Wait
         \/ Call!WakeUp
         \/ UNCHANGED callVars
  PROVE  CallInv'
<1> USE WorkersFinite DEF CallInv, Call!TypeOK, Unfinished
<1>1. ASSUME NEW i \in Call!Worker, Call!RunAsync(i) PROVE CallInv'
  <2>1. Unfinished' = Unfinished
    BY <1>1 DEF Call!RunAsync
  <2> QED
    BY <1>1, <2>1 DEF Call!RunAsync
<1>2. ASSUME NEW i \in Call!Worker, Call!WorkerEnds(i) PROVE CallInv'
  <2>1. Unfinished' = Unfinished
    BY <1>2 DEF Call!WorkerEnds
  <2> QED
    BY <1>2, <2>1 DEF Call!WorkerEnds
<1>3. ASSUME NEW i \in Call!Worker, Call!Notify(i) PROVE CallInv'
  <2>1. Unfinished' = Unfinished
    BY <1>3 DEF Call!Notify
  <2> QED
    BY <1>3, <2>1 DEF Call!Notify
<1>4. ASSUME Call!Wait PROVE CallInv'
  BY <1>4 DEF Call!Wait
<1>5. ASSUME Call!WakeUp PROVE CallInv'
  BY <1>5 DEF Call!WakeUp
<1>6. ASSUME UNCHANGED callVars PROVE CallInv'
  BY <1>6 DEF callVars
<1> QED
  BY <1>1, <1>2, <1>3, <1>4, <1>5, <1>6

LEMMA CallInvNext == CallInv /\ [RunNext]_allVars => CallInv'
<1> SUFFICES ASSUME CallInv, [RunNext]_allVars PROVE CallInv'
  OBVIOUS
<1>1. CASE OwnerStep \/ UNCHANGED allVars
  BY <1>1, OtherCallSteps DEF OwnerStep, allVars
<1>2. ASSUME NEW t \in Thread, RunThreadStep(t) PROVE CallInv'
  <2>1. CASE Spawn(t)
    BY <2>1, OtherCallSteps, WorkersFinite DEF Spawn
  <2>2. CASE CallerWaits(t)
    BY <2>2, OtherCallSteps DEF CallerWaits
  <2>3. CASE WorkerRuns(t)
    BY <2>3, OtherCallSteps, CountDownStep, WorkersFinite
       DEF WorkerRuns, Call!WorkerStep
  <2>4. CASE JobEnds(t) \/ PoolStep(t)
    BY <2>4, OtherCallSteps DEF JobEnds, PoolStep
  <2> QED
    BY <1>2, <2>1, <2>2, <2>3, <2>4 DEF RunThreadStep
<1> QED
  BY <1>1, <1>2 DEF RunNext

\* For every number of workers, and every pool of threads on which they and
\* other jobs run: when run_in_parallel has returned, each worker has left
\* its critical section for the last time (WorkQueue.h, run_in_parallel).
THEOREM CallIsSafe == RunSpec => []ReturnsAfterWorkers
<1>1. CallInv => ReturnsAfterWorkers
  <2> SUFFICES ASSUME CallInv, cpc = "returned", NEW i \in Call!Worker
               PROVE  wpc[i] \in {"notify", "end"}
    BY DEF ReturnsAfterWorkers, Call!ReturnsAfterWorkers
  <2>1. Unfinished = {}
    BY UnfinishedFinite, FS_EmptySet DEF CallInv
  <2> QED
    BY <2>1 DEF Unfinished, CallInv, Call!TypeOK
<1> QED
  BY <1>1, CallInvInit, CallInvNext, PTL DEF RunSpec
=============================================================================

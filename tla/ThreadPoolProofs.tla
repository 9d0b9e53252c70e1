-------------------------- MODULE ThreadPoolProofs --------------------------
(***************************************************************************)
(* What holds of core::ThreadPool for every number of queues, workers,      *)
(* submitters and tasks.  First its types and what QueueDispatch and the    *)
(* queues keep up: some queue is left for whoever waits for one, and no     *)
(* task is overslept.  Then where each task is: what the two counters       *)
(* count, what a graceful destructor leaves behind, that nothing is popped  *)
(* after clear(), and that a pool destroyed gracefully implements the       *)
(* safety of TaskPool.                                                      *)
(***************************************************************************)
EXTENDS ThreadPool, FiniteSetTheorems, TLAPS

-----------------------------------------------------------------------------
(* Types                                                                    *)

\* Where a worker has a task in its hands, and where a submitter has a queue.
Busy == {"count", "countup", "run", "countdown", "notify"}
Holding == {"push", "insert", "walk"}

\* What the places of the threads say about the values they hold.
HandsTyped ==
    /\ \A w \in Workers : wpc[w] \in Busy => wtask[w] \in Tasks
    /\ \A s \in Submitters : spc[s] # "idle" => stask[s] \in Tasks
    /\ \A s \in Submitters : spc[s] \in Holding => squeue[s] \in Queues

\* The descent stays inside the set, which nobody changes while it goes on.
WalkInside ==
    /\ 1 <= walk.lo
    /\ walk.lo <= walk.hi
    /\ walk.hi <= Len(m_set) + 1
    /\ walk.lo < walk.hi /\ walk.lhs # NoQueue => walk.at \in walk.lo .. walk.hi - 1
    /\ walk.lhs # NoQueue => walk.rhs \in Queues
    /\ SetFree => walk = NoWalk

TypeInv == TypeOK /\ HandsTyped /\ WalkInside

LEMMA InitType == Init => TypeInv
<1> SUFFICES ASSUME Init PROVE TypeInv  OBVIOUS
<1> USE DEF Init
<1>1. m_set \in Seq(Queues)
  <2>1. Cardinality(Queues) \in Nat  BY QueuesAssumption, FS_CardinalityType
  <2> QED  BY <2>1
<1>2. <<>> \in Seq(Tasks) /\ <<>> \in Seq(Nat)  OBVIOUS
<1>3. m_tasks \in [Queues -> Seq(Tasks)]  BY <1>2
<1>4. walk \in [lo : Nat, hi : Nat, at : Nat, reads : Seq(Nat),
                lhs : Queues \union {NoQueue}, rhs : Queues \union {NoQueue}]
  BY <1>2 DEF NoWalk, Gap
<1>5. TypeOK
  <2>1. /\ m_abort \in [Queues -> BOOLEAN]
        /\ m_shutDown \in BOOLEAN /\ m_isInitialized \in BOOLEAN
    OBVIOUS
  <2>6. m_map \in SUBSET Workers /\ m_jobCount \in Int /\ m_runningJobCount \in Int
    OBVIOUS
  <2>2. /\ wpc \in [Workers -> WorkerPlaces]
        /\ wtask \in [Workers -> Tasks \union {NoTask}]
    BY DEF WorkerPlaces
  <2>3. /\ spc \in [Submitters -> SubmitterPlaces]
        /\ stask \in [Submitters -> Tasks \union {NoTask}]
        /\ swait \in [Submitters -> BOOLEAN]
    BY DEF SubmitterPlaces
  <2>4. /\ squeue \in [Submitters -> Queues \union {NoQueue}]
        /\ futures \in [Submitters -> SUBSET Tasks]
    OBVIOUS
  <2>5. /\ opc \in OwnerPlaces
        /\ toAbort \in SUBSET Workers
        /\ abortQ \in Queues \union {NoQueue}
        /\ stage \in [Tasks -> Stages]
    BY DEF OwnerPlaces, Stages
  <2> QED  BY <1>1, <1>3, <1>4, <2>1, <2>2, <2>3, <2>4, <2>5, <2>6 DEF TypeOK
<1>6. HandsTyped  BY DEF HandsTyped, Busy, Holding
<1>7. WalkInside  BY <1>1 DEF WalkInside, NoWalk, Gap
<1> QED  BY <1>5, <1>6, <1>7 DEF TypeInv

\* A worker's step.
LEMMA WorkerType ==
  ASSUME TypeInv, NEW w \in Workers, WorkerStep(w) \/ WakeWorker(w)
  PROVE  TypeInv'
<1> USE DEF TypeInv, TypeOK, HandsTyped, WalkInside, SetFree, Busy, Holding,
        WorkerPlaces, OwnerPlaces, Stages,
        queueVars, workerVars, callVars, setVars, countVars, ownerVars, OnlyMoves
<1>1. CASE Register(w)  BY <1>1 DEF Register
<1>2. CASE Exit(w)  BY <1>2, SMTT(30) DEF Exit
<1>3. CASE Enter(w)  BY <1>3, SMTT(30) DEF Enter
<1>4. CASE PopAborted(w)  BY <1>4, SMTT(30) DEF PopAborted
<1>5. CASE PopTask(w)
  <2> DEFINE q == Home[w]
  <2>1. q \in Queues /\ m_tasks[q] \in Seq(Tasks) /\ m_tasks[q] # <<>>
    BY <1>5, HomeAssumption DEF PopTask
  <2>2. Head(m_tasks[q]) \in Tasks /\ Tail(m_tasks[q]) \in Seq(Tasks)  BY <2>1
  <2> QED  BY <1>5, <2>1, <2>2 DEF PopTask, AfterPop
<1>6. CASE PopWait(w)  BY <1>6, SMTT(30) DEF PopWait
<1>7. CASE Block(w)  BY <1>7 DEF Block
<1>8. CASE WakeWorker(w)  BY <1>8 DEF WakeWorker
<1>9. CASE CountDown(w)  BY <1>9 DEF CountDown
<1>10. CASE CountUp(w)  BY <1>10 DEF CountUp
<1>11. CASE Run(w)  BY <1>11 DEF Run
<1>12. CASE CountRun(w)  BY <1>12 DEF CountRun
<1>13. CASE NotifyWaiter(w)  BY <1>13 DEF NotifyWaiter
<1> QED
  BY <1>1, <1>2, <1>3, <1>4, <1>5, <1>6, <1>7, <1>8, <1>9, <1>10, <1>11, <1>12, <1>13
  DEF WorkerStep

\* The steps of the descent keep it a descent.
WalkRecords == [lo : Nat, hi : Nat, at : Nat, reads : Seq(Nat),
                lhs : Queues \union {NoQueue}, rhs : Queues \union {NoQueue}]

LEMMA GapType ==
  ASSUME NEW a \in Nat, NEW b \in Nat
  PROVE  /\ Gap(a, b) \in WalkRecords
         /\ Gap(a, b).lo = a /\ Gap(a, b).hi = b /\ Gap(a, b).lhs = NoQueue
<1>1. <<>> \in Seq(Nat)  OBVIOUS
<1> QED  BY <1>1 DEF Gap, WalkRecords

LEMMA WalkType ==
  ASSUME TypeInv, NEW s \in Submitters,
         InsertBegin(s) \/ StartCompare(s) \/ ReadSize(s) \/ Descend(s)
  PROVE  walk' \in WalkRecords /\ WalkInside'
<1>0. /\ walk \in WalkRecords
      /\ Len(m_set) \in Nat
      /\ \A k \in 1 .. Len(m_set) : m_set[k] \in Queues
      /\ SetFree => walk = NoWalk
  BY SMTT(30) DEF TypeInv, TypeOK, WalkRecords, WalkInside
<1>a. /\ walk.lo \in Nat /\ walk.hi \in Nat /\ walk.at \in Nat /\ walk.reads \in Seq(Nat)
      /\ walk.lhs \in Queues \union {NoQueue} /\ walk.rhs \in Queues \union {NoQueue}
      /\ 1 <= walk.lo /\ walk.lo <= walk.hi /\ walk.hi <= Len(m_set) + 1
      /\ walk.lo < walk.hi /\ walk.lhs # NoQueue => walk.at \in walk.lo .. walk.hi - 1
      /\ walk.lhs # NoQueue => walk.rhs \in Queues
  BY <1>0 DEF WalkRecords, TypeInv, WalkInside
<1>1. CASE InsertBegin(s)
  <2>1. walk' = Gap(1, Len(m_set) + 1) /\ m_set' = m_set /\ ~SetFree'
    BY <1>1 DEF InsertBegin, SetFree, TypeInv, TypeOK
  <2>3. walk' \in WalkRecords /\ walk'.lo = 1 /\ walk'.hi = Len(m_set) + 1 /\ walk'.lhs = NoQueue
    BY <1>0, <2>1, GapType
  <2> QED  BY <1>0, <2>1, <2>3 DEF WalkInside
<1>2. CASE StartCompare(s)
  <2>1. squeue[s] \in Queues /\ m_set' = m_set /\ ~SetFree'
    BY <1>2 DEF StartCompare, TypeInv, HandsTyped, Holding, SetFree, callVars
  <2>2. ASSUME NEW k \in walk.lo .. walk.hi - 1,
               walk' = [walk EXCEPT !.lhs = squeue[s], !.rhs = m_set[k], !.at = k]
        PROVE  walk' \in WalkRecords /\ WalkInside'
    <3>1. k \in Nat /\ m_set[k] \in Queues  BY <1>0, <1>a
    <3>2. walk' \in WalkRecords  BY <1>0, <2>1, <2>2, <3>1 DEF WalkRecords
    <3> QED  BY <1>0, <1>a, <2>1, <2>2, <3>1, <3>2 DEF WalkRecords, WalkInside
  <2>3. ASSUME walk.lo = walk.hi, walk.lo > 1,
               walk' = [walk EXCEPT !.lhs = m_set[walk.lo - 1], !.rhs = squeue[s], !.at = walk.lo - 1]
        PROVE  walk' \in WalkRecords /\ WalkInside'
    <3>1. walk.lo - 1 \in Nat /\ m_set[walk.lo - 1] \in Queues  BY <1>0, <1>a, <2>3, SMTT(30)
    <3>2. walk' \in WalkRecords  BY <1>0, <2>1, <2>3, <3>1 DEF WalkRecords
    <3> QED  BY <1>0, <1>a, <2>1, <2>3, <3>1, <3>2 DEF WalkRecords, WalkInside
  <2> QED  BY <1>2, <2>2, <2>3 DEF StartCompare
<1>3. CASE ReadSize(s)
  <2> DEFINE q == IF Len(walk.reads) % 2 = 0 THEN walk.lhs ELSE walk.rhs
  <2>1. q \in Queues /\ walk' = [walk EXCEPT !.reads = Append(@, CurrentSize(q))]
        /\ m_set' = m_set /\ ~SetFree'
    BY <1>3, <1>a DEF ReadSize, SetFree, callVars
  <2>2. CurrentSize(q) \in Nat  BY <2>1 DEF CurrentSize, TypeInv, TypeOK
  <2> HIDE DEF q
  <2>3. Append(walk.reads, CurrentSize(q)) \in Seq(Nat)  BY <1>a, <2>2
  <2>4. walk' \in WalkRecords  BY <1>0, <2>1, <2>3 DEF WalkRecords
  <2> QED  BY <1>0, <1>a, <2>1, <2>4 DEF WalkRecords, WalkInside
<1>4. CASE Descend(s)
  <2>1. /\ walk.at \in walk.lo .. walk.hi - 1 /\ m_set' = m_set /\ ~SetFree'
        /\ \/ walk' = Gap(walk.lo, walk.at)
           \/ walk' = Gap(walk.at + 1, walk.hi)
    BY <1>4, <1>a DEF Descend, SetFree, callVars
  <2>2. walk.at \in Nat /\ walk.at + 1 \in Nat  BY <1>a
  <2>3. /\ walk' \in WalkRecords /\ walk'.lhs = NoQueue
        /\ \/ walk'.lo = walk.lo /\ walk'.hi = walk.at
           \/ walk'.lo = walk.at + 1 /\ walk'.hi = walk.hi
    BY <1>a, <2>1, <2>2, GapType
  <2> QED  BY <1>0, <1>a, <2>1, <2>3 DEF WalkInside
<1> QED  BY <1>1, <1>2, <1>3, <1>4

\* Putting an element anywhere into a sequence of such elements.
LEMMA InsertType ==
  ASSUME NEW S, NEW seq \in Seq(S), NEW i \in 1 .. Len(seq) + 1, NEW e \in S
  PROVE  InsertAt(seq, i, e) \in Seq(S)
<1>1. SubSeq(seq, 1, i - 1) \in Seq(S)  OBVIOUS
<1>2. SubSeq(seq, i, Len(seq)) \in Seq(S)  OBVIOUS
<1>3. SubSeq(seq, 1, i - 1) \o <<e>> \in Seq(S)  BY <1>1
<1> QED  BY <1>2, <1>3 DEF InsertAt

\* submitTask ends for s, and at most one sleeping submitter is woken.
LEMMA LeaveType ==
  ASSUME spc \in [Submitters -> SubmitterPlaces], NEW s \in Submitters, spc[s] = "walk",
         LeaveSubmit(s)
  PROVE  /\ spc' \in [Submitters -> SubmitterPlaces]
         /\ spc'[s] = "idle"
         /\ \A r \in Submitters :
              r = s \/ spc'[r] = spc[r] \/ (spc'[r] = "extract" /\ spc[r] = "setblocked")
<1>1. "idle" \in SubmitterPlaces /\ "extract" \in SubmitterPlaces  BY DEF SubmitterPlaces
<1> HIDE DEF SubmitterPlaces
<1>2. ASSUME spc' = [spc EXCEPT ![s] = "idle"]
      PROVE  /\ spc' \in [Submitters -> SubmitterPlaces] /\ spc'[s] = "idle"
             /\ \A r \in Submitters : r = s \/ spc'[r] = spc[r]
  BY <1>1, <1>2
<1>3. ASSUME NEW x \in Submitters, spc[x] = "setblocked",
             spc' = [spc EXCEPT ![s] = "idle", ![x] = "extract"]
      PROVE  /\ spc' \in [Submitters -> SubmitterPlaces] /\ spc'[s] = "idle"
             /\ \A r \in Submitters : r = s \/ r = x \/ spc'[r] = spc[r]
             /\ spc'[x] = "extract"
  BY <1>1, <1>3
<1> QED  BY <1>2, <1>3 DEF LeaveSubmit, SetSleepers

\* A submitter's step.
LEMMA SubmitterType ==
  ASSUME TypeInv, NEW s \in Submitters,
         \/ SubmitterStep(s) \/ WakeSubmitter(s)
         \/ \E t \in Tasks : SubmitRejected(s, t) \/ \E isWaiting \in WaitFlags : SubmitAccepted(s, t, isWaiting)
  PROVE  TypeInv'
<1> USE NoQueueAssumption
    DEF TypeInv, TypeOK, HandsTyped, WalkInside, SetFree, Busy, Holding, NoWalk, Gap,
        WorkerPlaces, SubmitterPlaces, Stages,
        queueVars, workerVars, callVars, setVars, countVars, ownerVars
<1>1. ASSUME NEW t \in Tasks, SubmitRejected(s, t) PROVE TypeInv'
  BY <1>1 DEF SubmitRejected, CanCall
<1>2. ASSUME NEW t \in Tasks, NEW isWaiting \in WaitFlags, SubmitAccepted(s, t, isWaiting)
      PROVE  TypeInv'
  BY <1>2, FlagsAssumption DEF SubmitAccepted, CanCall
<1>3. CASE Count(s)
  <2>1. stask[s] \in Tasks /\ m_jobCount' \in Int  BY <1>3 DEF Count, JobSubmitted
  <2>2. /\ stage' = [stage EXCEPT ![stask[s]] = "counted"]
        /\ spc' = [spc EXCEPT ![s] = "extract"] /\ spc[s] = "count"
        /\ UNCHANGED <<queueVars, workerVars, stask, swait, squeue, futures, setVars,
                       m_runningJobCount, ownerVars>>
    BY <1>3 DEF Count
  <2> QED  BY <2>1, <2>2
<1>4. CASE Extract(s)
  <2>1. Head(m_set) \in Queues /\ Tail(m_set) \in Seq(Queues)  BY <1>4 DEF Extract
  <2>2. m_set' = Tail(m_set) /\ walk = NoWalk /\ walk' = walk
    BY <1>4 DEF Extract, SetAfterExtract
  <2> QED  BY <1>4, <2>1, <2>2 DEF Extract
<1>5. CASE ExtractWait(s)  BY <1>5 DEF ExtractWait
<1>6. CASE WakeSubmitter(s)  BY <1>6 DEF WakeSubmitter
<1>7. CASE Push(s)
  <2>1. squeue[s] \in Queues /\ stask[s] \in Tasks  BY <1>7 DEF Push
  <2>2. m_tasks' \in [Queues -> Seq(Tasks)]
    <3>1. Append(m_tasks[squeue[s]], stask[s]) \in Seq(Tasks)  BY <2>1
    <3> QED  BY <1>7, <3>1 DEF Push
  <2>3. /\ wpc' \in [Workers -> WorkerPlaces]
        /\ \A w \in Workers : wpc'[w] = wpc[w] \/ wpc'[w] = "pop"
    BY <1>7 DEF Push, NotifyOne, Sleepers
  <2> QED  BY <1>7, <2>1, <2>2, <2>3 DEF Push
<1>8. CASE InsertBegin(s)
  <2> HIDE DEF WalkInside, NoWalk, Gap, SetFree
  <2>1. walk' \in WalkRecords /\ WalkInside'  BY <1>8, WalkType
  <2> QED  BY <1>8, <2>1 DEF InsertBegin, WalkRecords
<1>9. CASE StartCompare(s) \/ ReadSize(s) \/ Descend(s)
  <2> HIDE DEF WalkInside, NoWalk, Gap, SetFree
  <2>1. walk' \in WalkRecords /\ WalkInside'  BY <1>9, WalkType
  <2>2. UNCHANGED <<queueVars, workerVars, callVars, m_set, countVars, ownerVars, stage>>
    BY <1>9 DEF StartCompare, ReadSize, Descend
  <2> QED  BY <2>1, <2>2 DEF WalkRecords
<1>10. CASE FinishInsert(s)
  <2>1. m_set' \in Seq(Queues)
    <3>1. squeue[s] \in Queues  BY <1>10 DEF FinishInsert
    <3>2. walk.lo \in 1 .. Len(m_set) + 1 /\ m_set \in Seq(Queues)
      <4>1. Len(m_set) \in Nat  OBVIOUS
      <4> QED  BY <4>1
    <3>3. InsertAt(m_set, walk.lo, squeue[s]) \in Seq(Queues)  BY <3>1, <3>2, InsertType
    <3> QED  BY <1>10, <3>3 DEF FinishInsert, SetAfterInsert
  <2>2. /\ walk' = NoWalk
        /\ spc' \in [Submitters -> SubmitterPlaces]
        /\ spc'[s] = "idle"
        /\ \A r \in Submitters :
             r = s \/ spc'[r] = spc[r] \/ (spc'[r] = "extract" /\ spc[r] = "setblocked")
    BY <1>10, LeaveType DEF FinishInsert
  <2>3. /\ futures' \in [Submitters -> SUBSET Tasks]
        /\ squeue' = [squeue EXCEPT ![s] = NoQueue]
        /\ stask' = [stask EXCEPT ![s] = NoTask]
        /\ swait' = [swait EXCEPT ![s] = FALSE]
        /\ UNCHANGED <<queueVars, workerVars, countVars, ownerVars, stage>>
    BY <1>10 DEF FinishInsert
  <2>4. WalkInside'  BY <2>1, <2>2
  <2>5. walk' \in WalkRecords  BY <2>2, GapType DEF NoWalk
  <2>6. HandsTyped'
    <3>1. \A w \in Workers : wpc'[w] \in Busy => wtask'[w] \in Tasks  BY <2>3
    <3>2. \A r \in Submitters : r # s => stask'[r] = stask[r] /\ squeue'[r] = squeue[r]
      BY <2>3
    <3>3. \A r \in Submitters : spc'[r] # "idle" => stask'[r] \in Tasks  BY <2>2, <3>2
    <3>4. \A r \in Submitters : spc'[r] \in Holding => squeue'[r] \in Queues  BY <2>2, <3>2
    <3> QED  BY <3>1, <3>3, <3>4
  <2> HIDE DEF WalkInside, NoWalk, Gap, SetFree, HandsTyped
  <2> QED  BY <2>1, <2>2, <2>3, <2>4, <2>5, <2>6 DEF WalkRecords
<1>11. CASE DestroyFutures(s)  BY <1>11 DEF DestroyFutures
<1> QED
  BY <1>1, <1>2, <1>3, <1>4, <1>5, <1>6, <1>7, <1>8, <1>9, <1>10, <1>11
  DEF SubmitterStep

\* The owner's step.
LEMMA OwnerType ==
  ASSUME TypeInv, OwnerStep \/ Destroy \/ WakeOwner
  PROVE  TypeInv'
<1> USE HomeAssumption
    DEF TypeInv, TypeOK, HandsTyped, WalkInside, SetFree, Busy, Holding,
        WorkerPlaces, OwnerPlaces,
        queueVars, workerVars, callVars, setVars, countVars, ownerVars, OwnerOnlyMoves
<1>1. CASE FinishCtor  BY <1>1 DEF FinishCtor
<1>2. CASE Destroy  BY <1>2 DEF Destroy
<1>3. CASE ReadJobs  BY <1>3 DEF ReadJobs
<1>4. CASE ReadRunning  BY <1>4 DEF ReadRunning
<1>5. CASE WaitBlock \/ WakeOwner  BY <1>5 DEF WaitBlock, WakeOwner
<1>6. CASE Flag  BY <1>6 DEF Flag
<1>7. CASE ClearBegin  BY <1>7 DEF ClearBegin
<1>8. ASSUME NEW w \in Workers, AbortStore(w) PROVE TypeInv'
  BY <1>8 DEF AbortStore
<1>9. CASE AbortNotify  BY <1>9 DEF AbortNotify, NotifyAll, Sleepers
<1>10. CASE ClearDone  BY <1>10 DEF ClearDone
<1>11. CASE Join  BY <1>11 DEF Join
<1> QED
  BY <1>1, <1>2, <1>3, <1>4, <1>5, <1>6, <1>7, <1>8, <1>9, <1>10, <1>11 DEF OwnerStep

LEMMA NextTypeInv == TypeInv /\ [Next]_vars => TypeInv'
<1> SUFFICES ASSUME TypeInv, [Next]_vars PROVE TypeInv'  OBVIOUS
<1>1. CASE Next  BY <1>1, WorkerType, SubmitterType, OwnerType DEF Next
<1>2. CASE UNCHANGED vars
  BY <1>2 DEF vars, TypeInv, TypeOK, HandsTyped, WalkInside, SetFree,
     queueVars, workerVars, callVars, setVars, countVars, ownerVars
<1> QED  BY <1>1, <1>2

\* The variables of the pool keep their types and a submitter never reads outside m_set,
\* whatever the numbers of threads, queues and tasks.
THEOREM TypeCorrect == SafeSpec => []TypeOK
<1>1. TypeInv => TypeOK  BY DEF TypeInv
<1> QED  BY InitType, NextTypeInv, <1>1, PTL DEF SafeSpec

-----------------------------------------------------------------------------
(* The set of queues                                                        *)

\* A queue is in the set once, or in the hands of one submitter, or lost.
QueuesApart ==
    /\ \A i, j \in 1 .. Len(m_set) : m_set[i] = m_set[j] => i = j
    /\ \A s, r \in Submitters : squeue[s] # NoQueue /\ squeue[s] = squeue[r] => s = r
    /\ \A s \in Submitters : \A i \in 1 .. Len(m_set) : m_set[i] # squeue[s]

SomeQueueLeft == m_set # <<>> \/ \E s \in Submitters : squeue[s] # NoQueue

SetInv == QueuesApart /\ SomeQueueLeft

LEMMA InsertedElements ==
  ASSUME NEW S, NEW seq \in Seq(S), NEW i \in 1 .. Len(seq) + 1, NEW e \in S
  PROVE  LET ins == InsertAt(seq, i, e) IN
         /\ Len(ins) = Len(seq) + 1
         /\ \A k \in 1 .. Len(seq) + 1 :
              ins[k] = IF k < i THEN seq[k] ELSE IF k = i THEN e ELSE seq[k - 1]
<1> DEFINE front == SubSeq(seq, 1, i - 1)
           back == SubSeq(seq, i, Len(seq))
           n == Len(seq)
<1>1. n \in Nat /\ i \in Nat /\ i >= 1 /\ i <= n + 1  OBVIOUS
<1>2. /\ front \in Seq(S) /\ Len(front) = i - 1
      /\ \A k \in 1 .. i - 1 : front[k] = seq[k]
  BY <1>1
<1>3. /\ back \in Seq(S) /\ Len(back) = n - i + 1
      /\ \A k \in 1 .. n - i + 1 : back[k] = seq[i + k - 1]
  <2>1. \A k \in i .. n : seq[k] \in S  BY <1>1
  <2>2. Len(back) = n - i + 1  BY <1>1
  <2>3. \A k \in 1 .. n - i + 1 : back[k] = seq[i + k - 1]  BY <1>1
  <2>4. back \in Seq(S)  BY <1>1, <2>1
  <2> QED  BY <2>2, <2>3, <2>4
<1> HIDE DEF front, back
<1>4. /\ front \o <<e>> \in Seq(S) /\ Len(front \o <<e>>) = i
      /\ \A k \in 1 .. i : (front \o <<e>>)[k] = IF k < i THEN seq[k] ELSE e
  BY <1>1, <1>2
<1> DEFINE head == front \o <<e>>
<1>5. /\ Len(head \o back) = n + 1
      /\ \A k \in 1 .. n + 1 :
           (head \o back)[k] = IF k <= i THEN head[k] ELSE back[k - i]
  <2>1. head \in Seq(S) /\ back \in Seq(S) /\ Len(head) = i /\ Len(back) = n - i + 1
    BY <1>3, <1>4
  <2> HIDE DEF head
  <2>2. Len(head \o back) = n + 1  BY <1>1, <2>1
  <2>3. \A k \in 1 .. n + 1 : (head \o back)[k] = IF k <= i THEN head[k] ELSE back[k - i]
    BY <1>1, <2>1
  <2> QED  BY <2>2, <2>3
<1>6. \A k \in 1 .. n + 1 : k > i => back[k - i] = seq[k - 1]
  <2> SUFFICES ASSUME NEW k \in 1 .. n + 1, k > i PROVE back[k - i] = seq[k - 1]  OBVIOUS
  <2>1. k - i \in 1 .. n - i + 1 /\ i + (k - i) - 1 = k - 1  BY <1>1
  <2> QED  BY <1>3, <2>1
<1>7. InsertAt(seq, i, e) = (front \o <<e>>) \o back  BY DEF InsertAt, front, back
<1> HIDE DEF n
<1>8. \A k \in 1 .. n + 1 :
        InsertAt(seq, i, e)[k] = IF k < i THEN seq[k] ELSE IF k = i THEN e ELSE seq[k - 1]
  <2> SUFFICES ASSUME NEW k \in 1 .. n + 1
               PROVE  InsertAt(seq, i, e)[k] = IF k < i THEN seq[k] ELSE IF k = i THEN e ELSE seq[k - 1]
    OBVIOUS
  <2>1. CASE k <= i
    <3>1. k \in 1 .. i  BY <1>1, <2>1
    <3> QED  BY <1>1, <1>4, <1>5, <1>7, <2>1, <3>1
  <2>2. CASE k > i
    <3>1. ~(k <= i) /\ ~(k < i) /\ k # i  BY <1>1, <2>2
    <3>2. InsertAt(seq, i, e)[k] = back[k - i]  BY <1>5, <1>7, <3>1
    <3>3. back[k - i] = seq[k - 1]  BY <1>6, <2>2
    <3> QED  BY <3>1, <3>2, <3>3
  <2> QED  BY <1>1, <2>1, <2>2
<1> QED  BY <1>5, <1>7, <1>8 DEF n

LEMMA InitSet == Init => SetInv
<1> SUFFICES ASSUME Init PROVE SetInv  OBVIOUS
<1> DEFINE n == Cardinality(Queues)
<1>1. n \in Nat /\ n # 0
  BY QueuesAssumption, FS_CardinalityType, FS_EmptySet
<1>2. /\ m_set \in [1 .. n -> Queues]
      /\ \A i, j \in 1 .. n : i < j => m_set[i] < m_set[j]
  BY DEF Init
<1> HIDE DEF n
<1>3. m_set \in Seq(Queues) /\ Len(m_set) = n  BY <1>1, <1>2
<1>4. m_set # <<>>  BY <1>1, <1>3
<1>5. ASSUME NEW i \in 1 .. Len(m_set), NEW j \in 1 .. Len(m_set), m_set[i] = m_set[j]
      PROVE  i = j
  <2>0. i \in 1 .. n /\ j \in 1 .. n  BY <1>3
  <2>1. i \in Int /\ j \in Int /\ m_set[i] \in Queues  BY <1>1, <1>2, <2>0
  <2>2. m_set[i] \in Nat  BY <2>1, QueuesAssumption
  <2>3. ~(m_set[i] < m_set[j]) /\ ~(m_set[j] < m_set[i])  BY <1>5, <2>2
  <2>4. ~(i < j) /\ ~(j < i)  BY <1>2, <2>0, <2>3
  <2> QED  BY <2>1, <2>4
<1>6. \A s \in Submitters : squeue[s] = NoQueue  BY DEF Init
<1>7. \A i \in 1 .. Len(m_set) : m_set[i] # NoQueue  BY <1>3, NoQueueAssumption
<1> QED  BY <1>4, <1>5, <1>6, <1>7 DEF SetInv, QueuesApart, SomeQueueLeft

LEMMA NextSetInv == TypeInv /\ SetInv /\ [Next]_vars => SetInv'
<1> SUFFICES ASSUME TypeInv, SetInv, [Next]_vars PROVE SetInv'  OBVIOUS
<1>t. m_set \in Seq(Queues) /\ squeue \in [Submitters -> Queues \union {NoQueue}]
  BY DEF TypeInv, TypeOK
<1>1. ASSUME UNCHANGED <<m_set, squeue>> PROVE SetInv'
  BY <1>1 DEF SetInv, QueuesApart, SomeQueueLeft
<1>2. ASSUME NEW w \in Workers, WorkerStep(w) \/ WakeWorker(w) PROVE SetInv'
  <2>1. UNCHANGED <<m_set, squeue>>
    BY <1>2 DEF WorkerStep, Register, Exit, Enter, PopAborted, PopTask, PopWait, Block,
       WakeWorker, CountDown, CountUp, Run, CountRun, NotifyWaiter, OnlyMoves, callVars, setVars
  <2> QED  BY <1>1, <2>1
<1>3. CASE OwnerStep \/ Destroy \/ WakeOwner
  <2>1. UNCHANGED <<m_set, squeue>>
    BY <1>3 DEF OwnerStep, FinishCtor, ReadJobs, ReadRunning, WaitBlock, WakeOwner, Flag,
       ClearBegin, AbortStore, AbortNotify, ClearDone, Join, Destroy, OwnerOnlyMoves, callVars,
       setVars
  <2> QED  BY <1>1, <2>1
<1>4. ASSUME NEW s \in Submitters,
             \/ Count(s) \/ ExtractWait(s) \/ Push(s) \/ InsertBegin(s) \/ StartCompare(s)
             \/ ReadSize(s) \/ Descend(s) \/ DestroyFutures(s) \/ WakeSubmitter(s)
             \/ \E t \in Tasks : \/ SubmitRejected(s, t)
                                \/ \E isWaiting \in WaitFlags : SubmitAccepted(s, t, isWaiting)
      PROVE  SetInv'
  <2>1. UNCHANGED <<m_set, squeue>>
    BY <1>4 DEF Count, ExtractWait, Push, InsertBegin, StartCompare, ReadSize, Descend,
       DestroyFutures, WakeSubmitter, SubmitRejected, SubmitAccepted, callVars, setVars
  <2> QED  BY <1>1, <2>1
<1>5. ASSUME NEW s \in Submitters, Extract(s) PROVE SetInv'
  <2>1. /\ m_set # <<>> /\ m_set' = Tail(m_set)
        /\ squeue' = [squeue EXCEPT ![s] = Head(m_set)]
    BY <1>5 DEF Extract, SetAfterExtract
  <2>2. /\ Head(m_set) = m_set[1] /\ 1 \in 1 .. Len(m_set) /\ m_set[1] \in Queues
        /\ Len(m_set') = Len(m_set) - 1 /\ Len(m_set) \in Nat
        /\ \A i \in 1 .. Len(m_set) - 1 : m_set'[i] = m_set[i + 1]
    BY <1>t, <2>1
  <2>3. squeue'[s] = m_set[1] /\ \A r \in Submitters : r # s => squeue'[r] = squeue[r]
    BY <1>t, <2>1, <2>2
  <2>4. ASSUME NEW i \in 1 .. Len(m_set')
        PROVE  i \in Nat /\ i + 1 \in 1 .. Len(m_set) /\ i + 1 # 1 /\ m_set'[i] = m_set[i + 1]
    BY <2>2
  <2>5. ASSUME NEW i \in 1 .. Len(m_set'), NEW j \in 1 .. Len(m_set'), m_set'[i] = m_set'[j]
        PROVE  i = j
    <3>1. i + 1 = j + 1  BY <2>4, <2>5 DEF SetInv, QueuesApart
    <3> QED  BY <2>4, <3>1
  <2>6. ASSUME NEW r \in Submitters, NEW i \in 1 .. Len(m_set') PROVE m_set'[i] # squeue'[r]
    <3>1. m_set'[i] = m_set[i + 1] /\ i + 1 \in 1 .. Len(m_set) /\ i + 1 # 1  BY <2>4
    <3>2. CASE r = s  BY <2>2, <2>3, <3>1, <3>2 DEF SetInv, QueuesApart
    <3>3. CASE r # s  BY <2>3, <3>1, <3>3 DEF SetInv, QueuesApart
    <3> QED  BY <3>2, <3>3
  <2>7. ASSUME NEW p \in Submitters, NEW r \in Submitters, squeue'[p] # NoQueue,
               squeue'[p] = squeue'[r]
        PROVE  p = r
    BY <2>2, <2>3, <2>7 DEF SetInv, QueuesApart
  <2>8. SomeQueueLeft'  BY <2>2, <2>3, NoQueueAssumption DEF SomeQueueLeft
  <2> QED  BY <2>5, <2>6, <2>7, <2>8 DEF SetInv, QueuesApart
<1>6. ASSUME NEW s \in Submitters, FinishInsert(s) PROVE SetInv'
  <2> DEFINE q == squeue[s]
  <2>1. /\ q \in Queues
        /\ squeue' = [squeue EXCEPT ![s] = NoQueue]
        /\ walk.lo \in 1 .. Len(m_set) + 1
    BY <1>6 DEF FinishInsert, TypeInv, TypeOK, HandsTyped, Holding, WalkInside
  <2>2. \A r \in Submitters : squeue'[r] = IF r = s THEN NoQueue ELSE squeue[r]
    BY <1>t, <2>1
  <2>3. \A i \in 1 .. Len(m_set) : m_set[i] # NoQueue /\ m_set[i] # q
    BY <1>t, NoQueueAssumption DEF SetInv, QueuesApart
  <2> HIDE DEF q
  <2>4. CASE m_set' = m_set /\ walk.lo # 1
    <3>1. m_set # <<>>  BY <1>t, <2>1, <2>4
    <3> QED  BY <2>2, <2>3, <2>4, <3>1 DEF SetInv, QueuesApart, SomeQueueLeft
  <2>5. CASE m_set' = InsertAt(m_set, walk.lo, q)
    <3> DEFINE a == walk.lo
    <3>1. /\ Len(m_set') = Len(m_set) + 1 /\ Len(m_set) \in Nat /\ a \in Nat
          /\ \A k \in 1 .. Len(m_set) + 1 :
               m_set'[k] = IF k < a THEN m_set[k] ELSE IF k = a THEN q ELSE m_set[k - 1]
      BY <1>t, <2>1, <2>5, InsertedElements
    <3> DEFINE Old(k) == IF k < a THEN k ELSE k - 1
    <3>2. ASSUME NEW k \in 1 .. Len(m_set'), k # a
          PROVE  Old(k) \in 1 .. Len(m_set) /\ m_set'[k] = m_set[Old(k)]
      <4>1. k \in Nat /\ k \in 1 .. Len(m_set) + 1 /\ a <= Len(m_set) + 1 /\ a >= 1
        BY <2>1, <3>1
      <4>2. Old(k) \in 1 .. Len(m_set)  BY <3>1, <3>2, <4>1
      <4> QED  BY <3>1, <3>2, <4>1, <4>2
    <3>3. ASSUME NEW k \in 1 .. Len(m_set'), NEW l \in 1 .. Len(m_set'), k # a, l # a,
                 Old(k) = Old(l)
          PROVE  k = l
      <4>1. k \in Int /\ l \in Int /\ a \in Int  BY <3>1
      <4> QED  BY <3>3, <4>1
    <3>4. m_set'[a] = q  BY <2>1, <3>1
    <3> HIDE DEF a, Old
    <3>5. \A k, l \in 1 .. Len(m_set') : m_set'[k] = m_set'[l] => k = l
      <4> SUFFICES ASSUME NEW k \in 1 .. Len(m_set'), NEW l \in 1 .. Len(m_set'),
                          m_set'[k] = m_set'[l]
                   PROVE  k = l
        OBVIOUS
      <4>1. CASE k = a \/ l = a  BY <2>3, <3>2, <3>4, <4>1
      <4>2. CASE k # a /\ l # a
        <5>1. Old(k) = Old(l)  BY <3>2, <4>2 DEF SetInv, QueuesApart
        <5> QED  BY <3>3, <4>2, <5>1
      <4> QED  BY <4>1, <4>2
    <3>6. \A r \in Submitters : \A k \in 1 .. Len(m_set') : m_set'[k] # squeue'[r]
      <4> SUFFICES ASSUME NEW r \in Submitters, NEW k \in 1 .. Len(m_set')
                   PROVE  m_set'[k] # squeue'[r]
        OBVIOUS
      <4>1. CASE k = a
        BY <2>1, <2>2, <3>4, <4>1, NoQueueAssumption DEF SetInv, QueuesApart, q
      <4>2. CASE k # a  BY <2>2, <2>3, <3>2, <4>2 DEF SetInv, QueuesApart
      <4> QED  BY <4>1, <4>2
    <3>7. m_set' # <<>>  BY <3>1
    <3>8. \A p, r \in Submitters : squeue'[p] # NoQueue /\ squeue'[p] = squeue'[r] => p = r
      BY <2>2 DEF SetInv, QueuesApart
    <3> QED  BY <3>5, <3>6, <3>7, <3>8 DEF SetInv, QueuesApart, SomeQueueLeft
  <2>6. (m_set' = m_set /\ walk.lo # 1) \/ m_set' = InsertAt(m_set, walk.lo, q)
    BY <1>6 DEF FinishInsert, SetAfterInsert, q
  <2> QED  BY <2>4, <2>5, <2>6
<1>7. ASSUME UNCHANGED vars PROVE SetInv'
  <2>1. UNCHANGED <<m_set, squeue>>  BY <1>7 DEF vars, setVars, callVars
  <2> QED  BY <1>1, <2>1
<1> QED  BY <1>2, <1>3, <1>4, <1>5, <1>6, <1>7 DEF Next, SubmitterStep

LEMMA SetInvServes == TypeInv /\ SetInv => SetNeverStarves
<1> SUFFICES ASSUME TypeInv, SetInv PROVE SetNeverStarves  OBVIOUS
<1>1. DOMAIN m_set = 1 .. Len(m_set)  BY DEF TypeInv, TypeOK
<1> QED  BY <1>1 DEF SetInv, QueuesApart, SomeQueueLeft, SetNeverStarves

\* No two submitters push to one queue at a time, a queue in a submitter's hands is not in
\* the set, and though m_set.insert may find a queue equivalent to another and lose it, it
\* never loses the last: there is always one left to extract or to come back.
THEOREM SomeQueueIsLeft == SafeSpec => []SetNeverStarves
<1>1. Init => TypeInv /\ SetInv  BY InitType, InitSet
<1>2. TypeInv /\ SetInv /\ [Next]_vars => (TypeInv /\ SetInv)'  BY NextTypeInv, NextSetInv
<1> QED  BY <1>1, <1>2, SetInvServes, PTL DEF SafeSpec

-----------------------------------------------------------------------------
(* Sleeping workers and the tasks of their queues                           *)

Popping(q) == {w \in WorkersAt({"pop"}) : Home[w] = q}

\* A worker about to sleep has found nothing, and nobody has pushed since.
PrepFoundNone == \A w \in Workers : wpc[w] = "prep" => m_tasks[Home[w]] = <<>>

Awaited(q) ==
    (Sleepers(q) # {} /\ ~m_abort[q]) => Len(m_tasks[q]) <= Cardinality(Popping(q))

WakeInv == PrepFoundNone /\ \A q \in Queues : Awaited(q)

LEMMA PoppingFinite ==
  ASSUME NEW q
  PROVE  IsFiniteSet(Popping(q)) /\ Cardinality(Popping(q)) \in Nat
<1>1. Popping(q) \subseteq Workers  BY DEF Popping, WorkersAt
<1>2. IsFiniteSet(Popping(q))  BY <1>1, WorkersAssumption, FS_Subset
<1> QED  BY <1>2, FS_CardinalityType

\* A step of one worker is nothing to the workers of other queues.
LEMMA OtherQueues ==
  ASSUME TypeOK, NEW w \in Workers, NEW to, wpc' = [wpc EXCEPT ![w] = to],
         NEW q \in Queues, q # Home[w]
  PROVE  Sleepers(q)' = Sleepers(q) /\ Popping(q)' = Popping(q)
BY DEF TypeOK, Sleepers, Popping, WorkersAt

LEMMA PoppingGrows ==
  ASSUME TypeOK, NEW w \in Workers, wpc[w] # "pop", wpc' = [wpc EXCEPT ![w] = "pop"]
  PROVE  Cardinality(Popping(Home[w])') = Cardinality(Popping(Home[w])) + 1
<1>1. /\ Popping(Home[w])' = Popping(Home[w]) \union {w}
      /\ w \notin Popping(Home[w])
  BY DEF TypeOK, Popping, WorkersAt
<1> QED  BY <1>1, PoppingFinite, FS_AddElement

LEMMA PoppingShrinks ==
  ASSUME TypeOK, NEW w \in Workers, NEW to, to # "pop", wpc[w] = "pop",
         wpc' = [wpc EXCEPT ![w] = to]
  PROVE  Cardinality(Popping(Home[w])') = Cardinality(Popping(Home[w])) - 1
<1>1. /\ Popping(Home[w])' = Popping(Home[w]) \ {w}
      /\ w \in Popping(Home[w])
  BY DEF TypeOK, Popping, WorkersAt
<1> QED  BY <1>1, PoppingFinite, FS_RemoveElement

LEMMA InitWake == Init => WakeInv
<1> SUFFICES ASSUME Init PROVE WakeInv  OBVIOUS
<1>1. \A w \in Workers : wpc[w] = "boot"  BY DEF Init
<1>2. \A q \in Queues : Sleepers(q) = {}  BY <1>1 DEF Sleepers
<1> QED  BY <1>1, <1>2 DEF WakeInv, PrepFoundNone, Awaited

\* Nothing changes that a sleeping worker or a queue could notice.
LEMMA QuietWake ==
  ASSUME WakeInv, UNCHANGED queueVars,
         \A w \in Workers : \/ wpc'[w] = wpc[w]
                            \/ /\ wpc[w] \notin {"pop", "prep", "blocked"}
                               /\ wpc'[w] \notin {"pop", "prep", "blocked"}
  PROVE  WakeInv'
<1>1. PrepFoundNone'  BY DEF WakeInv, PrepFoundNone, queueVars
<1>2. ASSUME NEW q \in Queues PROVE Awaited(q)'
  <2>1. Sleepers(q)' = Sleepers(q) /\ Popping(q)' = Popping(q)
    BY DEF Sleepers, Popping, WorkersAt
  <2>2. Awaited(q)  BY DEF WakeInv
  <2> QED  BY <2>1, <2>2 DEF Awaited, queueVars
<1> QED  BY <1>1, <1>2 DEF WakeInv

\* A worker comes to its queue, by itself or spuriously, falls asleep or leaves.
LEMMA WorkerWake ==
  ASSUME TypeInv, WakeInv, NEW w \in Workers, WorkerStep(w) \/ WakeWorker(w)
  PROVE  WakeInv'
<1> DEFINE h == Home[w]
<1>h. h \in Queues  BY HomeAssumption
<1>t. TypeOK /\ wpc \in [Workers -> WorkerPlaces] /\ m_tasks \in [Queues -> Seq(Tasks)]
  BY DEF TypeInv, TypeOK
<1>a. PrepFoundNone /\ \A q \in Queues : Awaited(q)  BY DEF WakeInv
<1>f. \A q \in Queues : Cardinality(Popping(q)) \in Nat /\ Len(m_tasks[q]) \in Nat
  BY <1>t, PoppingFinite
<1>o. ASSUME NEW to, wpc' = [wpc EXCEPT ![w] = to], m_abort' = m_abort,
             \A q \in Queues : q # h => m_tasks'[q] = m_tasks[q],
             to = "prep" => m_tasks'[h] = <<>>,
             m_tasks[h] = <<>> => m_tasks'[h] = <<>>,
             Awaited(h)'
      PROVE  WakeInv'
  <2>1. ASSUME NEW q \in Queues, q # h PROVE Awaited(q)'
    <3>1. Sleepers(q)' = Sleepers(q) /\ Popping(q)' = Popping(q)
      BY <1>o, <1>t, <2>1, OtherQueues
    <3> QED  BY <1>a, <1>o, <2>1, <3>1 DEF Awaited
  <2>2. PrepFoundNone'
    <3> SUFFICES ASSUME NEW v \in Workers, wpc'[v] = "prep" PROVE m_tasks'[Home[v]] = <<>>
      BY DEF PrepFoundNone
    <3>1. v = w => to = "prep"  BY <1>o, <1>t
    <3>2. v # w => m_tasks[Home[v]] = <<>> /\ Home[v] \in Queues
      BY <1>a, <1>o, <1>t, HomeAssumption DEF PrepFoundNone
    <3> QED  BY <1>o, <3>1, <3>2
  <2> QED  BY <1>o, <2>1, <2>2 DEF WakeInv
<1>1. CASE Register(w) \/ Exit(w) \/ CountDown(w) \/ CountUp(w) \/ Run(w) \/ CountRun(w)
           \/ NotifyWaiter(w)
  <2>1. UNCHANGED queueVars
    BY <1>1 DEF Register, Exit, CountDown, CountUp, Run, CountRun, NotifyWaiter, OnlyMoves
  <2>2. \A v \in Workers : \/ wpc'[v] = wpc[v]
                           \/ /\ wpc[v] \notin {"pop", "prep", "blocked"}
                              /\ wpc'[v] \notin {"pop", "prep", "blocked"}
    BY <1>1, <1>t DEF Register, Exit, CountDown, CountUp, Run, CountRun, NotifyWaiter
  <2> QED  BY <2>1, <2>2, QuietWake
<1>2. CASE Enter(w) \/ WakeWorker(w)
  <2>1. /\ wpc' = [wpc EXCEPT ![w] = "pop"] /\ wpc[w] \notin {"pop", "prep"}
        /\ UNCHANGED <<m_tasks, m_abort>>
    BY <1>2 DEF Enter, WakeWorker, OnlyMoves, queueVars
  <2>2. Cardinality(Popping(h)') = Cardinality(Popping(h)) + 1  BY <1>t, <2>1, PoppingGrows
  <2>3. Sleepers(h)' \subseteq Sleepers(h)  BY <1>t, <2>1 DEF Sleepers
  <2>4. Awaited(h)'  BY <1>a, <1>f, <1>h, <2>1, <2>2, <2>3 DEF Awaited
  <2> QED  BY <1>o, <2>1, <2>4
<1>3. CASE PopAborted(w)
  <2>1. /\ wpc' = [wpc EXCEPT ![w] = "loop"] /\ m_abort[h] /\ UNCHANGED <<m_tasks, m_abort>>
    BY <1>3 DEF PopAborted, OnlyMoves, queueVars
  <2>2. Awaited(h)'  BY <2>1 DEF Awaited
  <2> QED  BY <1>o, <2>1, <2>2
<1>4. CASE PopTask(w)
  <2>1. /\ wpc' = [wpc EXCEPT ![w] = "count"] /\ wpc[w] = "pop" /\ m_abort' = m_abort
        /\ m_tasks[h] # <<>> /\ m_tasks' = [m_tasks EXCEPT ![h] = Tail(@)]
    BY <1>4 DEF PopTask, AfterPop
  <2>2. Cardinality(Popping(h)') = Cardinality(Popping(h)) - 1  BY <1>t, <2>1, PoppingShrinks
  <2>3. Sleepers(h)' = Sleepers(h)  BY <1>t, <2>1 DEF Sleepers
  <2>4. m_tasks'[h] = Tail(m_tasks[h]) /\ m_tasks[h] \in Seq(Tasks)  BY <1>h, <1>t, <2>1
  <2>5. Len(m_tasks'[h]) = Len(m_tasks[h]) - 1
    <3>1. \A tasks \in Seq(Tasks) : tasks # <<>> => Len(Tail(tasks)) = Len(tasks) - 1  OBVIOUS
    <3> QED  BY <2>1, <2>4, <3>1
  <2>6. Awaited(h)'  BY <1>a, <1>f, <1>h, <2>1, <2>2, <2>3, <2>5 DEF Awaited
  <2> QED  BY <1>o, <1>t, <2>1, <2>6
<1>5. CASE PopWait(w) \/ Block(w)
  <2>1. /\ UNCHANGED <<m_tasks, m_abort>> /\ m_tasks[h] = <<>>
        /\ \E to \in WorkerPlaces : wpc' = [wpc EXCEPT ![w] = to]
    BY <1>5, <1>a DEF PopWait, Block, OnlyMoves, queueVars, PrepFoundNone, WorkerPlaces
  <2>2. PICK to \in WorkerPlaces : wpc' = [wpc EXCEPT ![w] = to]  BY <2>1
  <2>3. Cardinality(Popping(h))' \in Nat
    <3>1. Popping(h)' \subseteq Workers  BY DEF Popping, WorkersAt
    <3>2. IsFiniteSet(Popping(h)')  BY <3>1, WorkersAssumption, FS_Subset
    <3> QED  BY <3>2, FS_CardinalityType
  <2>4. Awaited(h)'  BY <2>1, <2>3 DEF Awaited
  <2> QED  BY <1>o, <2>1, <2>2, <2>4
<1> QED  BY <1>1, <1>2, <1>3, <1>4, <1>5 DEF WorkerStep

\* SafeQueue::push holds m_mtx, so no worker is between its predicate and its sleep.
LEMMA PushWake ==
  ASSUME TypeInv, WakeInv, NEW s \in Submitters, Push(s)
  PROVE  WakeInv'
<1>q. squeue[s] \in Queues  BY DEF Push, TypeInv, HandsTyped, Holding
<1>p. PICK q \in Queues : q = squeue[s]  BY <1>q
<1>1. /\ m_abort' = m_abort
      /\ \A w \in Workers : Home[w] = q => wpc[w] # "prep"
      /\ m_tasks' = [m_tasks EXCEPT ![q] = Append(@, stask[s])]
      /\ NotifyOne(q)
  BY <1>p DEF Push, QueueFree
<1>t. TypeOK /\ wpc \in [Workers -> WorkerPlaces] /\ m_tasks \in [Queues -> Seq(Tasks)]
      /\ stask[s] \in Tasks
  BY DEF TypeInv, TypeOK, HandsTyped, Push
<1>a. PrepFoundNone /\ \A p \in Queues : Awaited(p)  BY DEF WakeInv
<1>f. \A p \in Queues : Cardinality(Popping(p)) \in Nat /\ Len(m_tasks[p]) \in Nat
  BY <1>t, PoppingFinite
<1>2. /\ \A p \in Queues : p # q => m_tasks'[p] = m_tasks[p]
      /\ Len(m_tasks'[q]) = Len(m_tasks[q]) + 1
  <2>1. m_tasks'[q] = Append(m_tasks[q], stask[s]) /\ m_tasks[q] \in Seq(Tasks)  BY <1>1, <1>t
  <2> QED  BY <1>1, <1>t, <2>1
<1>3. PrepFoundNone'
  <2> SUFFICES ASSUME NEW w \in Workers, wpc'[w] = "prep" PROVE m_tasks'[Home[w]] = <<>>
    BY DEF PrepFoundNone
  <2>1. wpc[w] = "prep"  BY <1>1, <1>t DEF NotifyOne, Sleepers
  <2>2. Home[w] # q /\ Home[w] \in Queues  BY <1>1, <2>1, HomeAssumption
  <2> QED  BY <1>2, <1>a, <2>1, <2>2 DEF PrepFoundNone
<1>4. ASSUME NEW p \in Queues PROVE Awaited(p)'
  <2>1. CASE Sleepers(q) = {} /\ UNCHANGED wpc
    <3>1. Sleepers(p)' = Sleepers(p) /\ Popping(p)' = Popping(p)
      BY <2>1 DEF Sleepers, Popping, WorkersAt
    <3>2. p = q => Sleepers(p)' = {}  BY <2>1, <3>1
    <3> QED  BY <1>1, <1>2, <1>a, <3>1, <3>2 DEF Awaited
  <2>2. ASSUME NEW w \in Sleepers(q), wpc' = [wpc EXCEPT ![w] = "pop"] PROVE Awaited(p)'
    <3>1. w \in Workers /\ wpc[w] = "blocked" /\ Home[w] = q  BY <2>2 DEF Sleepers
    <3>2. CASE p # q
      <4>1. Sleepers(p)' = Sleepers(p) /\ Popping(p)' = Popping(p)
        BY <1>t, <2>2, <3>1, <3>2, OtherQueues
      <4> QED  BY <1>1, <1>2, <1>a, <3>2, <4>1 DEF Awaited
    <3>3. CASE p = q
      <4>1. Cardinality(Popping(q)') = Cardinality(Popping(q)) + 1
        BY <1>t, <2>2, <3>1, PoppingGrows
      <4>2. ~m_abort[q] => Len(m_tasks[q]) <= Cardinality(Popping(q))
        BY <1>1, <1>a, <2>2 DEF Awaited
      <4> QED  BY <1>1, <1>2, <1>f, <3>3, <4>1, <4>2 DEF Awaited
    <3> QED  BY <3>2, <3>3
  <2> QED  BY <1>1, <2>1, <2>2 DEF NotifyOne
<1> QED  BY <1>3, <1>4 DEF WakeInv

LEMMA OwnerWake ==
  ASSUME TypeInv, WakeInv, OwnerStep \/ Destroy \/ WakeOwner
  PROVE  WakeInv'
<1>t. wpc \in [Workers -> WorkerPlaces] /\ m_abort \in [Queues -> BOOLEAN]
      /\ abortQ \in Queues \union {NoQueue}
  BY DEF TypeInv, TypeOK
<1>a. PrepFoundNone /\ \A q \in Queues : Awaited(q)  BY DEF WakeInv
<1>1. CASE UNCHANGED <<queueVars, wpc>>
  <2>1. UNCHANGED queueVars /\ \A w \in Workers : wpc'[w] = wpc[w]  BY <1>1
  <2> QED  BY <2>1, QuietWake
<1>2. ASSUME NEW w \in Workers, AbortStore(w) PROVE WakeInv'
  <2>1. /\ UNCHANGED <<m_tasks, wpc>>
        /\ m_abort' = [m_abort EXCEPT ![Home[w]] = TRUE]
    BY <1>2 DEF AbortStore, workerVars
  <2>2. PrepFoundNone'  BY <1>a, <2>1 DEF PrepFoundNone
  <2>3. ASSUME NEW q \in Queues PROVE Awaited(q)'
    <3>1. Sleepers(q)' = Sleepers(q) /\ Popping(q)' = Popping(q)
      BY <2>1 DEF Sleepers, Popping, WorkersAt
    <3>2. m_abort[q] => m_abort'[q]  BY <1>t, <2>1
    <3> QED  BY <1>a, <2>1, <3>1, <3>2 DEF Awaited
  <2> QED  BY <2>2, <2>3 DEF WakeInv
<1>3. CASE AbortNotify
  <2>1. /\ UNCHANGED <<m_tasks, m_abort>>
        /\ wpc' = [w \in Workers |-> IF w \in Sleepers(abortQ) THEN "pop" ELSE wpc[w]]
    BY <1>3 DEF AbortNotify, NotifyAll, queueVars
  <2>2. \A w \in Workers : wpc'[w] # wpc[w] => wpc'[w] = "pop" /\ w \in Sleepers(abortQ)
    BY <2>1
  <2>3. PrepFoundNone'  BY <1>a, <2>1, <2>2 DEF PrepFoundNone
  <2>4. ASSUME NEW q \in Queues PROVE Awaited(q)'
    <3>1. CASE q = abortQ
      <4>1. Sleepers(q)' = {}  BY <2>1, <3>1 DEF Sleepers
      <4> QED  BY <4>1 DEF Awaited
    <3>2. CASE q # abortQ
      <4>1. Sleepers(q)' = Sleepers(q) /\ Popping(q)' = Popping(q)
        BY <2>1, <3>2 DEF Sleepers, Popping, WorkersAt
      <4> QED  BY <1>a, <2>1, <4>1 DEF Awaited
    <3> QED  BY <3>1, <3>2
  <2> QED  BY <2>3, <2>4 DEF WakeInv
<1>4. CASE \/ FinishCtor \/ ReadJobs \/ ReadRunning \/ WaitBlock \/ Flag \/ ClearBegin
           \/ ClearDone \/ Join \/ Destroy \/ WakeOwner
  <2>1. UNCHANGED <<queueVars, wpc>>
    BY <1>4 DEF FinishCtor, ReadJobs, ReadRunning, WaitBlock, Flag, ClearBegin, ClearDone, Join,
       Destroy, WakeOwner, OwnerOnlyMoves, workerVars
  <2> QED  BY <1>1, <2>1
<1> QED  BY <1>2, <1>3, <1>4 DEF OwnerStep

LEMMA NextWakeInv == TypeInv /\ WakeInv /\ [Next]_vars => WakeInv'
<1> SUFFICES ASSUME TypeInv, WakeInv, [Next]_vars PROVE WakeInv'  OBVIOUS
<1>1. ASSUME UNCHANGED <<queueVars, wpc>> PROVE WakeInv'
  <2>1. UNCHANGED queueVars /\ \A w \in Workers : wpc'[w] = wpc[w]  BY <1>1
  <2> QED  BY <2>1, QuietWake
<1>2. ASSUME NEW s \in Submitters,
             \/ Count(s) \/ Extract(s) \/ ExtractWait(s) \/ InsertBegin(s) \/ StartCompare(s)
             \/ ReadSize(s) \/ Descend(s) \/ FinishInsert(s) \/ DestroyFutures(s)
             \/ WakeSubmitter(s)
             \/ \E t \in Tasks : \/ SubmitRejected(s, t)
                                \/ \E isWaiting \in WaitFlags : SubmitAccepted(s, t, isWaiting)
      PROVE  WakeInv'
  <2>1. UNCHANGED <<queueVars, wpc>>
    BY <1>2 DEF Count, Extract, ExtractWait, InsertBegin, StartCompare, ReadSize, Descend,
       FinishInsert, DestroyFutures, WakeSubmitter, SubmitRejected, SubmitAccepted, workerVars
  <2> QED  BY <1>1, <2>1
<1>3. ASSUME UNCHANGED vars PROVE WakeInv'
  <2>1. UNCHANGED <<queueVars, wpc>>  BY <1>3 DEF vars, workerVars
  <2> QED  BY <1>1, <2>1
<1> QED  BY <1>2, <1>3, WorkerWake, PushWake, OwnerWake DEF Next, SubmitterStep

\* A push notifies one of the queue's sleepers, who takes one task or finds the queue
\* aborted: while any worker of a queue sleeps, as many others are on their way to it as
\* it has tasks, however many queues, workers and submitters there are.
THEOREM NoTaskIsOverslept == SafeSpec => []NoTaskOverslept
<1>1. Init => TypeInv /\ WakeInv  BY InitType, InitWake
<1>2. TypeInv /\ WakeInv /\ [Next]_vars => (TypeInv /\ WakeInv)'
  BY NextTypeInv, NextWakeInv
<1>3. WakeInv => NoTaskOverslept
  BY DEF WakeInv, Awaited, Popping, NoTaskOverslept
<1> QED  BY <1>1, <1>2, <1>3, PTL DEF SafeSpec

-----------------------------------------------------------------------------
(* The invariant: every task under way is in one place, and its stage says  *)
(* in which                                                                 *)

\* Where a submitter has a task that is in no queue yet.
Carrying == {"count", "extract", "setblocked", "push"}
\* Where a worker has a task that is not done yet.
Working == {"count", "countup", "run"}

SubmitterStage(place) == IF place = "count" THEN "called" ELSE "counted"
WorkerStage(place) ==
    CASE place = "count" -> "popped" [] place = "countup" -> "started" [] OTHER -> "running"

\* A submitter's task is at the stage of its place, and nobody else submits it.
SubmittersHold ==
    /\ \A s \in Submitters : spc[s] \in Carrying => stage[stask[s]] = SubmitterStage(spc[s])
    /\ \A s, r \in Submitters :
         spc[s] \in Carrying /\ spc[r] \in Carrying /\ stask[s] = stask[r] => s = r

\* What is in a queue is queued, and there only.
QueuesHold ==
    /\ \A q \in Queues : \A i \in 1 .. Len(m_tasks[q]) : stage[m_tasks[q][i]] = "queued"
    /\ \A q, p \in Queues : \A i \in 1 .. Len(m_tasks[q]), j \in 1 .. Len(m_tasks[p]) :
         m_tasks[q][i] = m_tasks[p][j] => q = p /\ i = j

\* The same of a worker's task; a worker that has finished one lets go of it in the end.
WorkersHold ==
    /\ \A w \in Workers : wpc[w] \in Working => stage[wtask[w]] = WorkerStage(wpc[w])
    /\ \A w \in Workers : wpc[w] \in {"countdown", "notify"} => stage[wtask[w]] = "done"
    /\ \A w \in Workers : wpc[w] \notin Busy => wtask[w] = NoTask
    /\ \A w, v \in Workers :
         wpc[w] \in Working /\ wpc[v] \in Working /\ wtask[w] = wtask[v] => w = v

\* And a task that is under way is in somebody's hands.
TasksHeld ==
    \A t \in Tasks :
      /\ stage[t] \in {"called", "counted"} =>
           \E s \in Submitters : spc[s] \in Carrying /\ stask[s] = t
      /\ stage[t] = "queued" =>
           \E q \in Queues : \E i \in 1 .. Len(m_tasks[q]) : m_tasks[q][i] = t
      /\ stage[t] \in {"popped", "started", "running"} =>
           \E w \in Workers : wpc[w] \in Working /\ wtask[w] = t

PlaceInv == SubmittersHold /\ QueuesHold /\ WorkersHold /\ TasksHeld

StageInv == TypeInv /\ PlaceInv

LEMMA InitPlace == Init => PlaceInv
<1> SUFFICES ASSUME Init PROVE PlaceInv  OBVIOUS
<1>1. SubmittersHold  BY DEF Init, SubmittersHold, Carrying
<1>2. QueuesHold
  <2>1. \A q \in Queues : Len(m_tasks[q]) = 0  BY DEF Init
  <2> QED  BY <2>1 DEF QueuesHold
<1>3. WorkersHold  BY DEF Init, WorkersHold, Working, Busy
<1>4. TasksHeld  BY DEF Init, TasksHeld
<1> QED  BY <1>1, <1>2, <1>3, <1>4 DEF PlaceInv

\* A step that takes no task anywhere: threads move between places without one, or
\* from one place to another before the same stage ends.
LEMMA NoTaskMoves ==
  ASSUME PlaceInv, UNCHANGED <<m_tasks, wtask, stage>>,
         \A w \in Workers : wpc'[w] = wpc[w] \/ (wpc[w] \notin Busy /\ wpc'[w] \notin Busy),
         \A s \in Submitters :
            \/ spc'[s] = spc[s] /\ stask'[s] = stask[s]
            \/ spc[s] \notin Carrying /\ spc'[s] \notin Carrying
            \/ /\ spc[s] \in Carrying \ {"count"}
               /\ spc'[s] \in Carrying \ {"count"}
               /\ stask'[s] = stask[s]
  PROVE  PlaceInv'
<1>1. \A w \in Workers : /\ wpc'[w] \in Working <=> wpc[w] \in Working
                         /\ wpc'[w] \in Busy => wpc'[w] = wpc[w]
                         /\ wpc'[w] \notin Busy => wpc[w] \notin Busy
  BY DEF Working, Busy
<1>2. \A s \in Submitters : /\ spc'[s] \in Carrying <=> spc[s] \in Carrying
                            /\ spc'[s] \in Carrying =>
                                 /\ stask'[s] = stask[s]
                                 /\ SubmitterStage(spc'[s]) = SubmitterStage(spc[s])
  BY DEF SubmitterStage
<1>3. SubmittersHold'  BY <1>2 DEF PlaceInv, SubmittersHold
<1>4. QueuesHold'  BY DEF PlaceInv, QueuesHold
<1>5. WorkersHold'
  <2>1. \A w \in Workers : wpc[w] \in Working \union {"countdown", "notify"} => wpc[w] \in Busy
    BY DEF Working, Busy
  <2>2. \A w \in Workers : wpc'[w] \in Working \union {"countdown", "notify"} => wpc'[w] = wpc[w]
    BY <1>1 DEF Working, Busy
  <2> QED  BY <1>1, <2>2 DEF PlaceInv, WorkersHold
<1>6. TasksHeld'  BY <1>1, <1>2 DEF PlaceInv, TasksHeld
<1> QED  BY <1>3, <1>4, <1>5, <1>6 DEF PlaceInv

-----------------------------------------------------------------------------
(* A submitter takes a task as far as into a queue                          *)

LEMMA SubmitPlace ==
  ASSUME StageInv, NEW s \in Submitters, NEW t \in Tasks, stage[t] = "new",
         \/ SubmitRejected(s, t)
         \/ \E isWaiting \in WaitFlags : SubmitAccepted(s, t, isWaiting)
  PROVE  PlaceInv'
<1>0. /\ UNCHANGED <<m_tasks, wpc, wtask>>
      /\ \A u \in Tasks : u # t => stage'[u] = stage[u]
      /\ \A r \in Submitters : r # s => spc'[r] = spc[r] /\ stask'[r] = stask[r]
      /\ spc[s] = "idle"
      /\ \/ stage'[t] = "rejected" /\ spc'[s] = "idle"
         \/ stage'[t] = "called" /\ spc'[s] = "count" /\ stask'[s] = t
  BY DEF SubmitRejected, SubmitAccepted, CanCall, StageInv, TypeInv, TypeOK, workerVars,
         queueVars, callVars
<1>i. HandsTyped /\ SubmittersHold /\ QueuesHold /\ WorkersHold /\ TasksHeld
  BY DEF StageInv, PlaceInv, TypeInv
<1>1. \A r \in Submitters : spc[r] \in Carrying =>
        /\ r # s /\ spc'[r] = spc[r] /\ stask'[r] = stask[r]
        /\ stask[r] # t /\ stask[r] \in Tasks /\ stage'[stask[r]] = stage[stask[r]]
  BY <1>0, <1>i DEF SubmittersHold, SubmitterStage, HandsTyped, Carrying
<1>2. SubmittersHold'
  <2>1. \A r \in Submitters : spc'[r] \in Carrying =>
          \/ r = s /\ stask'[r] = t /\ spc'[r] = "count" /\ stage'[t] = "called"
          \/ spc[r] \in Carrying /\ r # s
    BY <1>0 DEF Carrying
  <2> QED  BY <1>i, <1>1, <2>1 DEF SubmittersHold, SubmitterStage
<1>3. QueuesHold'
  <2>1. \A q \in Queues : \A i \in 1 .. Len(m_tasks[q]) :
          m_tasks[q][i] # t /\ m_tasks[q][i] \in Tasks
    BY <1>i DEF QueuesHold, StageInv, TypeInv, TypeOK
  <2> QED  BY <1>0, <1>i, <2>1 DEF QueuesHold
<1>4. WorkersHold'
  <2>1. \A w \in Workers : wpc[w] \in Busy => wtask[w] # t /\ wtask[w] \in Tasks
    BY <1>i DEF WorkersHold, WorkerStage, HandsTyped, Working, Busy
  <2> QED  BY <1>0, <1>i, <2>1 DEF WorkersHold, Working, Busy
<1>5. TasksHeld'
  <2>1. ASSUME NEW u \in Tasks, u # t
        PROVE  stage'[u] \in {"called", "counted"} =>
                 \E r \in Submitters : spc'[r] \in Carrying /\ stask'[r] = u
    BY <1>0, <1>i, <1>1, <2>1 DEF TasksHeld
  <2>2. stage'[t] \in {"called", "counted"} =>
          \E r \in Submitters : spc'[r] \in Carrying /\ stask'[r] = t
    BY <1>0 DEF Carrying
  <2> QED  BY <1>0, <1>i, <2>1, <2>2 DEF TasksHeld
<1> QED  BY <1>2, <1>3, <1>4, <1>5 DEF PlaceInv

LEMMA CountPlace ==
  ASSUME StageInv, NEW s \in Submitters, Count(s)
  PROVE  PlaceInv' /\ stask[s] \in Tasks /\ stage[stask[s]] = "called"
<1> DEFINE t == stask[s]
<1>i. HandsTyped /\ SubmittersHold /\ QueuesHold /\ WorkersHold /\ TasksHeld
  BY DEF StageInv, PlaceInv, TypeInv
<1>0. /\ UNCHANGED <<m_tasks, wpc, wtask, stask>>
      /\ t \in Tasks /\ stage[t] = "called" /\ stage'[t] = "counted"
      /\ \A u \in Tasks : u # t => stage'[u] = stage[u]
      /\ \A r \in Submitters : r # s => spc'[r] = spc[r]
      /\ spc[s] = "count" /\ spc'[s] = "extract"
  BY <1>i DEF Count, HandsTyped, SubmittersHold, SubmitterStage, Carrying, StageInv, TypeInv,
          TypeOK, workerVars, queueVars
<1>1. \A r \in Submitters : r # s /\ spc[r] \in Carrying =>
        stask[r] # t /\ stask[r] \in Tasks /\ stage'[stask[r]] = stage[stask[r]]
  BY <1>0, <1>i DEF SubmittersHold, HandsTyped, Carrying
<1>2. SubmittersHold'
  <2>1. \A r \in Submitters : /\ spc'[r] \in Carrying <=> spc[r] \in Carrying
                              /\ stask'[r] = stask[r]
    BY <1>0 DEF Carrying
  <2> QED  BY <1>0, <1>i, <1>1, <2>1 DEF SubmittersHold, SubmitterStage
<1>3. QueuesHold'
  <2>1. \A q \in Queues : \A i \in 1 .. Len(m_tasks[q]) :
          m_tasks[q][i] # t /\ m_tasks[q][i] \in Tasks
    BY <1>0, <1>i DEF QueuesHold, StageInv, TypeInv, TypeOK
  <2> QED  BY <1>0, <1>i, <2>1 DEF QueuesHold
<1>4. WorkersHold'
  <2>1. \A w \in Workers : wpc[w] \in Busy => wtask[w] # t /\ wtask[w] \in Tasks
    BY <1>0, <1>i DEF WorkersHold, WorkerStage, HandsTyped, Working, Busy
  <2> QED  BY <1>0, <1>i, <2>1 DEF WorkersHold, Working, Busy
<1>5. TasksHeld'
  <2>1. \A r \in Submitters : spc'[r] \in Carrying <=> spc[r] \in Carrying
    BY <1>0 DEF Carrying
  <2>2. ASSUME NEW u \in Tasks, u # t
        PROVE  stage'[u] \in {"called", "counted"} =>
                 \E r \in Submitters : spc'[r] \in Carrying /\ stask'[r] = u
    BY <1>0, <1>i, <2>1, <2>2 DEF TasksHeld
  <2>3. \E r \in Submitters : spc'[r] \in Carrying /\ stask'[r] = t
    BY <1>0 DEF Carrying
  <2> QED  BY <1>0, <1>i, <2>2, <2>3 DEF TasksHeld
<1> QED  BY <1>0, <1>2, <1>3, <1>4, <1>5 DEF PlaceInv

LEMMA PushPlace ==
  ASSUME StageInv, NEW s \in Submitters, Push(s)
  PROVE  PlaceInv' /\ stask[s] \in Tasks /\ stage[stask[s]] = "counted"
<1> DEFINE t == stask[s]
           q == squeue[s]
           n == Len(m_tasks[q])
<1>i. HandsTyped /\ SubmittersHold /\ QueuesHold /\ WorkersHold /\ TasksHeld
  BY DEF StageInv, PlaceInv, TypeInv
<1>0. /\ UNCHANGED <<wtask, stask>>
      /\ t \in Tasks /\ stage[t] = "counted" /\ stage'[t] = "queued"
      /\ \A u \in Tasks : u # t => stage'[u] = stage[u]
      /\ \A r \in Submitters : r # s => spc'[r] = spc[r]
      /\ spc[s] = "push" /\ spc'[s] = "insert"
      /\ q \in Queues
      /\ m_tasks \in [Queues -> Seq(Tasks)]
      /\ m_tasks' = [m_tasks EXCEPT ![q] = Append(@, t)]
  BY <1>i DEF Push, HandsTyped, SubmittersHold, SubmitterStage, Carrying, Holding, StageInv,
          TypeInv, TypeOK
<1>w. \A w \in Workers : wpc'[w] = wpc[w] \/ (wpc[w] \notin Busy /\ wpc'[w] \notin Busy)
  BY DEF Push, NotifyOne, Sleepers, StageInv, TypeInv, TypeOK, Busy
<1> HIDE DEF t, q
<1>s. \A r \in Submitters : spc'[r] \in Carrying <=> r # s /\ spc[r] \in Carrying
  BY <1>0 DEF Carrying
<1>1. \A r \in Submitters : r # s /\ spc[r] \in Carrying =>
        stask[r] # t /\ stask[r] \in Tasks /\ stage'[stask[r]] = stage[stask[r]]
  BY <1>0, <1>i DEF SubmittersHold, HandsTyped, Carrying, t
<1>2. SubmittersHold'
  BY <1>0, <1>i, <1>1, <1>s DEF SubmittersHold, SubmitterStage
<1>q. /\ m_tasks[q] \in Seq(Tasks) /\ n \in Nat
      /\ m_tasks'[q] = Append(m_tasks[q], t)
      /\ Len(m_tasks'[q]) = n + 1 /\ m_tasks'[q][n + 1] = t
      /\ \A i \in 1 .. n : m_tasks'[q][i] = m_tasks[q][i]
      /\ \A p \in Queues : p # q => m_tasks'[p] = m_tasks[p]
  BY <1>0
<1>3. QueuesHold'
  <2>1. \A p \in Queues : \A i \in 1 .. Len(m_tasks[p]) :
          m_tasks[p][i] # t /\ m_tasks[p][i] \in Tasks
    BY <1>0, <1>i DEF QueuesHold
  <2>2. \A p \in Queues : \A i \in 1 .. Len(m_tasks'[p]) :
          \/ p = q /\ i = n + 1 /\ m_tasks'[p][i] = t
          \/ i \in 1 .. Len(m_tasks[p]) /\ m_tasks'[p][i] = m_tasks[p][i]
    BY <1>q
  <2> HIDE DEF n
  <2>3. \A p \in Queues : \A i \in 1 .. Len(m_tasks'[p]) : stage'[m_tasks'[p][i]] = "queued"
    BY <1>0, <1>i, <2>1, <2>2, SMTT(30) DEF QueuesHold
  <2>4. ASSUME NEW p \in Queues, NEW r \in Queues, NEW i \in 1 .. Len(m_tasks'[p]),
               NEW j \in 1 .. Len(m_tasks'[r]), m_tasks'[p][i] = m_tasks'[r][j]
        PROVE  p = r /\ i = j
    <3>1. CASE m_tasks'[p][i] = t
      <4>1. p = q /\ i = n + 1  BY <2>1, <2>2, <3>1
      <4>2. r = q /\ j = n + 1  BY <2>1, <2>2, <2>4, <3>1
      <4> QED  BY <4>1, <4>2
    <3>2. CASE m_tasks'[p][i] # t
      <4>1. i \in 1 .. Len(m_tasks[p]) /\ m_tasks'[p][i] = m_tasks[p][i]  BY <2>2, <3>2
      <4>2. j \in 1 .. Len(m_tasks[r]) /\ m_tasks'[r][j] = m_tasks[r][j]
        BY <2>2, <2>4, <3>2
      <4>3. m_tasks[p][i] = m_tasks[r][j]  BY <2>4, <4>1, <4>2
      <4> QED  BY <1>i, <4>1, <4>2, <4>3 DEF QueuesHold
    <3> QED  BY <3>1, <3>2
  <2> QED  BY <2>3, <2>4 DEF QueuesHold
<1>4. WorkersHold'
  <2>1. \A w \in Workers : wpc[w] \in Busy =>
          wtask[w] # t /\ wtask[w] \in Tasks /\ stage'[wtask[w]] = stage[wtask[w]]
    BY <1>0, <1>i DEF WorkersHold, WorkerStage, HandsTyped, Working, Busy
  <2>2. \A w \in Workers : /\ wpc'[w] \in Busy => wpc[w] = wpc'[w]
                           /\ wpc'[w] \notin Busy => wpc[w] \notin Busy
    BY <1>w
  <2>3. \A w \in Workers : wpc'[w] \notin Busy => wtask'[w] = NoTask
    BY <1>0, <1>i, <2>2 DEF WorkersHold
  <2>4. \A w \in Workers : wpc'[w] \in Working \union {"countdown", "notify"} =>
          wpc'[w] = wpc[w] /\ wtask'[w] = wtask[w] /\ stage'[wtask[w]] = stage[wtask[w]]
    BY <1>0, <2>1, <2>2 DEF Working, Busy
  <2> QED  BY <1>i, <2>3, <2>4 DEF WorkersHold, Working
<1>5. TasksHeld'
  <2>1. ASSUME NEW u \in Tasks, u # t, stage[u] \in {"called", "counted"}
        PROVE  \E r \in Submitters : spc'[r] \in Carrying /\ stask'[r] = u
    BY <1>0, <1>i, <1>s, <2>1 DEF TasksHeld, t
  <2>2. ASSUME NEW u \in Tasks, u # t, stage[u] = "queued"
        PROVE  \E p \in Queues : \E i \in 1 .. Len(m_tasks'[p]) : m_tasks'[p][i] = u
    <3>1. PICK p \in Queues : \E i \in 1 .. Len(m_tasks[p]) : m_tasks[p][i] = u
      BY <1>i, <2>2 DEF TasksHeld
    <3>2. PICK i \in 1 .. Len(m_tasks[p]) : m_tasks[p][i] = u  BY <3>1
    <3>3. i \in 1 .. Len(m_tasks'[p]) /\ m_tasks'[p][i] = u  BY <1>q, <3>2
    <3> QED  BY <3>3
  <2>3. \E i \in 1 .. Len(m_tasks'[q]) : m_tasks'[q][i] = t
    <3>1. n + 1 \in 1 .. Len(m_tasks'[q])  BY <1>q
    <3> QED  BY <1>q, <3>1
  <2>4. ASSUME NEW u \in Tasks, u # t, stage[u] \in {"popped", "started", "running"}
        PROVE  \E w \in Workers : wpc'[w] \in Working /\ wtask'[w] = u
    BY <1>0, <1>i, <1>w, <2>4, SMTT(30) DEF TasksHeld, Working, Busy
  <2> QED  BY <1>0, <2>1, <2>2, <2>3, <2>4 DEF TasksHeld
<1> QED  BY <1>0, <1>2, <1>3, <1>4, <1>5 DEF PlaceInv, t

-----------------------------------------------------------------------------
(* A worker takes it out and runs it                                        *)

LEMMA PopPlace ==
  ASSUME StageInv, NEW w \in Workers, PopTask(w)
  PROVE  /\ PlaceInv'
         /\ Head(m_tasks[Home[w]]) \in Tasks
         /\ stage[Head(m_tasks[Home[w]])] = "queued"
<1> DEFINE q == Home[w]
           t == Head(m_tasks[q])
           n == Len(m_tasks[q])
<1>i. HandsTyped /\ SubmittersHold /\ QueuesHold /\ WorkersHold /\ TasksHeld
  BY DEF StageInv, PlaceInv, TypeInv
<1>q. /\ q \in Queues /\ m_tasks[q] \in Seq(Tasks) /\ m_tasks[q] # <<>>
      /\ n \in Nat /\ n > 0
      /\ t \in Tasks /\ m_tasks[q][1] = t
      /\ m_tasks'[q] = Tail(m_tasks[q])
      /\ \A p \in Queues : p # q => m_tasks'[p] = m_tasks[p]
      /\ \A p \in Queues : m_tasks[p] \in Seq(Tasks)
  <2>1. m_tasks \in [Queues -> Seq(Tasks)]  BY DEF StageInv, TypeInv, TypeOK
  <2>2. q \in Queues /\ m_tasks[q] # <<>> /\ m_tasks' = [m_tasks EXCEPT ![q] = Tail(@)]
    BY HomeAssumption DEF PopTask, AfterPop
  <2> HIDE DEF q
  <2> QED  BY <2>1, <2>2
<1>t. /\ Len(m_tasks'[q]) = n - 1
      /\ \A i \in 1 .. n - 1 : m_tasks'[q][i] = m_tasks[q][i + 1]
  <2> HIDE DEF q
  <2> QED  BY <1>q
\* The place a queued task had before.
<1> DEFINE Old(p, i) == IF p = q THEN i + 1 ELSE i
<1>o. ASSUME NEW p \in Queues, NEW i \in 1 .. Len(m_tasks'[p])
      PROVE  /\ Old(p, i) \in 1 .. Len(m_tasks[p])
             /\ m_tasks'[p][i] = m_tasks[p][Old(p, i)]
             /\ p = q => Old(p, i) # 1
  <2> HIDE DEF q, n
  <2>1. CASE p = q
    <3>0. n \in Nat /\ i \in 1 .. n - 1  BY <1>q, <1>t, <2>1
    <3>1. i + 1 \in 1 .. n /\ i + 1 # 1  BY <3>0
    <3> QED  BY <1>t, <2>1, <3>0, <3>1 DEF n
  <2>2. CASE p # q
    <3>1. m_tasks'[p] = m_tasks[p]  BY <1>q, <2>2
    <3> QED  BY <2>2, <3>1
  <2> QED  BY <2>1, <2>2
<1>u. ASSUME NEW p \in Queues, NEW i \in 1 .. Len(m_tasks'[p]), NEW j \in 1 .. Len(m_tasks'[p]),
             Old(p, i) = Old(p, j)
      PROVE  i = j
  <2>1. i \in Int /\ j \in Int  OBVIOUS
  <2> QED  BY <1>u, <2>1
<1> HIDE DEF Old
<1>0. /\ UNCHANGED <<spc, stask>>
      /\ stage[t] = "queued" /\ stage'[t] = "popped"
      /\ \A u \in Tasks : u # t => stage'[u] = stage[u]
      /\ \A v \in Workers : v # w => wpc'[v] = wpc[v] /\ wtask'[v] = wtask[v]
      /\ wpc[w] = "pop" /\ wpc'[w] = "count" /\ wtask'[w] = t
  <2>1. stage[t] = "queued"  BY <1>i, <1>q DEF QueuesHold
  <2> QED  BY <1>q, <2>1 DEF PopTask, StageInv, TypeInv, TypeOK, callVars
<1> HIDE DEF t, q
<1>2. SubmittersHold'
  <2>1. \A r \in Submitters : spc[r] \in Carrying => stask[r] # t /\ stask[r] \in Tasks
    BY <1>0, <1>i DEF SubmittersHold, SubmitterStage, HandsTyped, Carrying
  <2> QED  BY <1>0, <1>i, <2>1 DEF SubmittersHold
<1>3. QueuesHold'
  <2>2. ASSUME NEW p \in Queues, NEW i \in 1 .. Len(m_tasks'[p])
        PROVE  /\ m_tasks'[p][i] # t /\ m_tasks'[p][i] \in Tasks
               /\ stage[m_tasks'[p][i]] = "queued"
    <3>1. /\ Old(p, i) \in 1 .. Len(m_tasks[p]) /\ m_tasks'[p][i] = m_tasks[p][Old(p, i)]
          /\ p = q => Old(p, i) # 1
      BY <1>o
    <3>2. 1 \in 1 .. Len(m_tasks[q])  BY <1>q
    <3>3. m_tasks[p][Old(p, i)] # m_tasks[q][1]  BY <1>i, <1>q, <3>1, <3>2 DEF QueuesHold
    <3>4. m_tasks[p][Old(p, i)] \in Tasks  BY <1>q, <3>1
    <3> QED  BY <1>i, <1>q, <3>1, <3>3, <3>4 DEF QueuesHold
  <2>3. ASSUME NEW p \in Queues, NEW r \in Queues, NEW i \in 1 .. Len(m_tasks'[p]),
               NEW j \in 1 .. Len(m_tasks'[r]), m_tasks'[p][i] = m_tasks'[r][j]
        PROVE  p = r /\ i = j
    <3>1. /\ Old(p, i) \in 1 .. Len(m_tasks[p]) /\ Old(r, j) \in 1 .. Len(m_tasks[r])
          /\ m_tasks[p][Old(p, i)] = m_tasks[r][Old(r, j)]
      BY <1>o, <2>3
    <3>2. p = r /\ Old(p, i) = Old(r, j)  BY <1>i, <1>q, <3>1 DEF QueuesHold
    <3> QED  BY <1>u, <3>2
  <2> QED  BY <1>0, <2>2, <2>3 DEF QueuesHold
<1>4. WorkersHold'
  <2>1. \A v \in Workers : v # w /\ wpc[v] \in Busy =>
          wtask[v] # t /\ wtask[v] \in Tasks /\ stage'[wtask[v]] = stage[wtask[v]]
    BY <1>0, <1>i DEF WorkersHold, WorkerStage, HandsTyped, Working, Busy
  <2> QED  BY <1>0, <1>i, <2>1 DEF WorkersHold, WorkerStage, Working, Busy
<1>5. TasksHeld'
  <2>1. ASSUME NEW u \in Tasks, u # t, stage[u] = "queued"
        PROVE  \E p \in Queues : \E i \in 1 .. Len(m_tasks'[p]) : m_tasks'[p][i] = u
    <3>1. PICK p \in Queues : \E i \in 1 .. Len(m_tasks[p]) : m_tasks[p][i] = u
      BY <1>i, <2>1 DEF TasksHeld
    <3>2. PICK i \in 1 .. Len(m_tasks[p]) : m_tasks[p][i] = u  BY <3>1
    <3>3. CASE p # q
      <4>1. m_tasks'[p] = m_tasks[p]  BY <1>q, <3>3
      <4> QED  BY <3>2, <4>1
    <3>4. CASE p = q
      <4>1. i # 1  BY <1>q, <2>1, <3>2, <3>4
      <4>2. i - 1 \in 1 .. n - 1 /\ m_tasks'[q][i - 1] = m_tasks[q][i]
        BY <1>q, <1>t, <3>2, <3>4, <4>1
      <4> QED  BY <1>t, <1>q, <3>2, <3>4, <4>2
    <3> QED  BY <3>3, <3>4
  <2>2. ASSUME NEW u \in Tasks, u # t, stage[u] \in {"popped", "started", "running"}
        PROVE  \E v \in Workers : wpc'[v] \in Working /\ wtask'[v] = u
    <3>1. PICK v \in Workers : wpc[v] \in Working /\ wtask[v] = u
      BY <1>i, <2>2 DEF TasksHeld
    <3> QED  BY <1>0, <3>1 DEF Working
  <2>3. wpc'[w] \in Working /\ wtask'[w] = t  BY <1>0 DEF Working
  <2> QED  BY <1>0, <1>i, <2>1, <2>2, <2>3 DEF TasksHeld
<1> QED  BY <1>0, <1>q, <1>2, <1>3, <1>4, <1>5 DEF PlaceInv, t, q

LEMMA WorkPlace ==
  ASSUME StageInv, NEW w \in Workers, CountDown(w) \/ CountUp(w) \/ Run(w)
  PROVE  /\ PlaceInv'
         /\ wtask[w] \in Tasks
         /\ stage[wtask[w]] = WorkerStage(wpc[w])
<1> DEFINE t == wtask[w]
<1>i. HandsTyped /\ SubmittersHold /\ QueuesHold /\ WorkersHold /\ TasksHeld
  BY DEF StageInv, PlaceInv, TypeInv
<1>0. /\ UNCHANGED <<m_tasks, wtask, spc, stask>>
      /\ t \in Tasks /\ wpc[w] \in Working
      /\ stage[t] = WorkerStage(wpc[w]) /\ stage[t] \in {"popped", "started", "running"}
      /\ \A v \in Workers : v # w => wpc'[v] = wpc[v]
      /\ \A u \in Tasks : u # t => stage'[u] = stage[u]
      /\ \/ /\ wpc'[w] \in Working /\ stage'[t] = WorkerStage(wpc'[w])
            /\ stage'[t] \in {"popped", "started", "running"}
         \/ wpc'[w] = "countdown" /\ stage'[t] = "done"
  <2>1. wpc[w] \in Working /\ t \in Tasks
    BY <1>i DEF CountDown, CountUp, Run, HandsTyped, Working, Busy
  <2>2. wpc \in [Workers -> WorkerPlaces] /\ stage \in [Tasks -> Stages]
    BY DEF StageInv, TypeInv, TypeOK
  <2> QED
    BY <1>i, <2>1, <2>2
    DEF CountDown, CountUp, Run, WorkersHold, WorkerStage, Working, queueVars, callVars
<1> HIDE DEF t
<1>1. \A v \in Workers : v # w /\ wpc[v] \in Busy =>
        wtask[v] \in Tasks /\ wtask[v] # t
  <2>1. \A v \in Workers : wpc[v] \in Busy \ Working => wpc[v] \in {"countdown", "notify"}
    BY DEF Busy, Working
  <2> QED  BY <1>0, <1>i, <2>1 DEF WorkersHold, HandsTyped, t
<1>2. SubmittersHold'
  <2>1. \A r \in Submitters : spc[r] \in Carrying => stask[r] # t /\ stask[r] \in Tasks
    BY <1>0, <1>i DEF SubmittersHold, SubmitterStage, HandsTyped, Carrying
  <2> QED  BY <1>0, <1>i, <2>1 DEF SubmittersHold
<1>3. QueuesHold'
  <2>1. \A q \in Queues : \A i \in 1 .. Len(m_tasks[q]) :
          m_tasks[q][i] # t /\ m_tasks[q][i] \in Tasks
    BY <1>0, <1>i DEF QueuesHold, StageInv, TypeInv, TypeOK
  <2> QED  BY <1>0, <1>i, <2>1 DEF QueuesHold
<1>4. WorkersHold'
  <2>1. \A v \in Workers : wpc'[v] \in Working => wpc[v] \in Working
    BY <1>0 DEF Working
  <2>2. \A v \in Workers : wpc'[v] \notin Busy => wpc[v] \notin Busy
    BY <1>0 DEF Working, Busy
  <2>3. \A v \in Workers : wpc[v] \in Working \union {"countdown", "notify"} => wpc[v] \in Busy
    BY DEF Working, Busy
  <2>4. ASSUME NEW v \in Workers, v # w
        PROVE  /\ wpc'[v] \in Working => stage'[wtask'[v]] = WorkerStage(wpc'[v])
               /\ wpc'[v] \in {"countdown", "notify"} => stage'[wtask'[v]] = "done"
    BY <1>0, <1>1, <1>i, <2>3, <2>4 DEF WorkersHold
  <2>5. /\ wpc'[w] \in Working => stage'[wtask'[w]] = WorkerStage(wpc'[w])
        /\ wpc'[w] \in {"countdown", "notify"} => stage'[wtask'[w]] = "done"
    BY <1>0 DEF Working, t
  <2> QED  BY <1>0, <1>i, <2>1, <2>2, <2>4, <2>5 DEF WorkersHold
<1>5. TasksHeld'
  <2>1. ASSUME NEW u \in Tasks, u # t, stage[u] \in {"popped", "started", "running"}
        PROVE  \E v \in Workers : wpc'[v] \in Working /\ wtask'[v] = u
    <3>1. PICK v \in Workers : wpc[v] \in Working /\ wtask[v] = u
      BY <1>i, <2>1 DEF TasksHeld
    <3> QED  BY <1>0, <2>1, <3>1 DEF t
  <2>2. stage'[t] \in {"popped", "started", "running"} => wpc'[w] \in Working /\ wtask'[w] = t
    BY <1>0 DEF t
  <2>3. stage'[t] \notin {"called", "counted", "queued"}
    BY <1>0
  <2> QED  BY <1>0, <1>i, <2>1, <2>2, <2>3 DEF TasksHeld
<1> QED  BY <1>0, <1>2, <1>3, <1>4, <1>5 DEF PlaceInv, t

\* A worker that has run its task lets go of it.
LEMMA DonePlace ==
  ASSUME StageInv, NEW w \in Workers, CountRun(w) \/ NotifyWaiter(w)
  PROVE  PlaceInv'
<1>i. HandsTyped /\ SubmittersHold /\ QueuesHold /\ WorkersHold /\ TasksHeld
  BY DEF StageInv, PlaceInv, TypeInv
<1>0. /\ UNCHANGED <<m_tasks, stage, spc, stask>>
      /\ \A v \in Workers : v # w => wpc'[v] = wpc[v] /\ wtask'[v] = wtask[v]
      /\ \/ wpc[w] = "countdown" /\ wpc'[w] = "notify" /\ wtask'[w] = wtask[w]
         \/ wpc[w] = "notify" /\ wpc'[w] = "loop" /\ wtask'[w] = NoTask
  BY DEF CountRun, NotifyWaiter, StageInv, TypeInv, TypeOK, queueVars, callVars
<1>1. \A v \in Workers : wpc'[v] \in Working <=> wpc[v] \in Working /\ v # w
  BY <1>0 DEF Working
<1>2. SubmittersHold' /\ QueuesHold'  BY <1>0, <1>i DEF SubmittersHold, QueuesHold
<1>3. WorkersHold'  BY <1>0, <1>1, <1>i DEF WorkersHold, Busy
<1>4. TasksHeld'
  <2>1. wpc[w] \notin Working  BY <1>0 DEF Working
  <2> QED  BY <1>0, <1>1, <1>i, <2>1 DEF TasksHeld
<1> QED  BY <1>2, <1>3, <1>4 DEF PlaceInv

-----------------------------------------------------------------------------
(* Everything else moves threads only                                       *)

LEMMA WorkerMoves ==
  ASSUME StageInv, NEW w \in Workers,
         \/ Register(w) \/ Exit(w) \/ Enter(w) \/ PopAborted(w) \/ PopWait(w) \/ Block(w)
         \/ WakeWorker(w)
  PROVE  /\ PlaceInv'
         /\ UNCHANGED <<stage, countVars>>
         /\ WorkersAt({"run", "countdown"})' = WorkersAt({"run", "countdown"})
<1>0. /\ UNCHANGED <<m_tasks, wtask, stage, spc, stask, countVars>>
      /\ \A v \in Workers : v # w => wpc'[v] = wpc[v]
      /\ wpc[w] \notin Busy /\ wpc'[w] \notin Busy
  BY DEF Register, Exit, Enter, PopAborted, PopWait, Block, WakeWorker, OnlyMoves, Busy,
         StageInv, TypeInv, TypeOK, queueVars, callVars
<1>1. PlaceInv'  BY <1>0, NoTaskMoves DEF StageInv
<1>2. WorkersAt({"run", "countdown"})' = WorkersAt({"run", "countdown"})
  BY <1>0 DEF WorkersAt, Busy
<1> QED  BY <1>0, <1>1, <1>2

LEMMA SubmitterMoves ==
  ASSUME StageInv, NEW s \in Submitters,
         \/ Extract(s) \/ ExtractWait(s) \/ WakeSubmitter(s) \/ InsertBegin(s)
         \/ StartCompare(s) \/ ReadSize(s) \/ Descend(s) \/ FinishInsert(s)
         \/ DestroyFutures(s)
  PROVE  PlaceInv' /\ UNCHANGED <<stage, countVars, wpc>>
<1>t. spc \in [Submitters -> SubmitterPlaces]  BY DEF StageInv, TypeInv, TypeOK
<1>0. UNCHANGED <<m_tasks, wtask, stage, wpc, countVars>>
  BY DEF Extract, ExtractWait, WakeSubmitter, InsertBegin, StartCompare, ReadSize, Descend,
         FinishInsert, DestroyFutures, queueVars, workerVars
<1>1. \A r \in Submitters :
        \/ spc'[r] = spc[r] /\ stask'[r] = stask[r]
        \/ spc[r] \notin Carrying /\ spc'[r] \notin Carrying
        \/ /\ spc[r] \in Carrying \ {"count"}
           /\ spc'[r] \in Carrying \ {"count"}
           /\ stask'[r] = stask[r]
  <2>1. CASE Extract(s) \/ ExtractWait(s) \/ WakeSubmitter(s)
    BY <1>t, <2>1 DEF Extract, ExtractWait, WakeSubmitter, Carrying
  <2>2. CASE InsertBegin(s)  BY <1>t, <2>2 DEF InsertBegin, Carrying
  <2>3. CASE StartCompare(s) \/ ReadSize(s) \/ Descend(s) \/ DestroyFutures(s)
    BY <2>3 DEF StartCompare, ReadSize, Descend, DestroyFutures, callVars
  <2>4. CASE FinishInsert(s)
    <3>1. spc[s] = "walk" /\ LeaveSubmit(s) /\ stask' = [stask EXCEPT ![s] = NoTask]
      BY <2>4 DEF FinishInsert
    <3>2. stask \in [Submitters -> Tasks \union {NoTask}]  BY DEF StageInv, TypeInv, TypeOK
    <3> QED  BY <1>t, <3>1, <3>2 DEF LeaveSubmit, SetSleepers, Carrying
  <2> QED  BY <2>1, <2>2, <2>3, <2>4
<1> QED  BY <1>0, <1>1, NoTaskMoves DEF StageInv

LEMMA OwnerMoves ==
  ASSUME StageInv, OwnerStep \/ Destroy \/ WakeOwner
  PROVE  /\ PlaceInv'
         /\ UNCHANGED <<stage, countVars>>
         /\ WorkersAt({"run", "countdown"})' = WorkersAt({"run", "countdown"})
<1>0. UNCHANGED <<m_tasks, wtask, stage, spc, stask, countVars>>
  BY DEF OwnerStep, FinishCtor, ReadJobs, ReadRunning, WaitBlock, WakeOwner, Flag, ClearBegin,
         AbortStore, AbortNotify, ClearDone, Join, Destroy, OwnerOnlyMoves, queueVars,
         workerVars, callVars
<1>1. \A w \in Workers : wpc'[w] = wpc[w] \/ (wpc[w] = "blocked" /\ wpc'[w] = "pop")
  <2>1. CASE AbortNotify  BY <2>1 DEF AbortNotify, NotifyAll, Sleepers
  <2>2. CASE ~AbortNotify
    <3>1. UNCHANGED wpc
      BY <2>2 DEF OwnerStep, FinishCtor, ReadJobs, ReadRunning, WaitBlock, WakeOwner, Flag,
         ClearBegin, AbortStore, ClearDone, Join, Destroy, OwnerOnlyMoves, workerVars
    <3> QED  BY <3>1
  <2> QED  BY <2>1, <2>2
<1>2. PlaceInv'  BY <1>0, <1>1, NoTaskMoves DEF StageInv, Busy
<1>3. WorkersAt({"run", "countdown"})' = WorkersAt({"run", "countdown"})
  BY <1>1 DEF WorkersAt
<1> QED  BY <1>0, <1>2, <1>3

LEMMA NextStageInv == StageInv /\ [Next]_vars => StageInv'
<1> SUFFICES ASSUME StageInv, [Next]_vars PROVE StageInv'  OBVIOUS
<1>1. TypeInv'  BY NextTypeInv DEF StageInv
<1>2. ASSUME NEW w \in Workers, WorkerStep(w) \/ WakeWorker(w) PROVE PlaceInv'
  BY <1>2, WorkerMoves, PopPlace, WorkPlace, DonePlace DEF WorkerStep
<1>3. ASSUME NEW s \in Submitters, SubmitterStep(s) \/ WakeSubmitter(s) PROVE PlaceInv'
  BY <1>3, SubmitterMoves, CountPlace, PushPlace DEF SubmitterStep
<1>4. ASSUME NEW s \in Submitters, NEW t \in Tasks,
             SubmitRejected(s, t) \/ \E isWaiting \in WaitFlags : SubmitAccepted(s, t, isWaiting)
      PROVE  PlaceInv'
  <2>1. stage[t] = "new"  BY <1>4 DEF SubmitRejected, SubmitAccepted
  <2> QED  BY <1>4, <2>1, SubmitPlace
<1>5. ASSUME OwnerStep \/ Destroy \/ WakeOwner PROVE PlaceInv'  BY <1>5, OwnerMoves
<1>6. ASSUME UNCHANGED vars PROVE PlaceInv'
  <2>1. UNCHANGED <<m_tasks, wtask, stage, wpc, spc, stask>>
    BY <1>6 DEF vars, queueVars, workerVars, callVars
  <2> QED  BY <2>1, NoTaskMoves DEF StageInv
<1>7. PlaceInv'  BY <1>2, <1>3, <1>4, <1>5, <1>6 DEF Next
<1> QED  BY <1>1, <1>7 DEF StageInv

-----------------------------------------------------------------------------
(* The counters                                                             *)

LEMMA WithOne ==
  ASSUME NEW S, IsFiniteSet(S), NEW x, x \notin S
  PROVE  Cardinality(S \union {x}) = Cardinality(S) + 1
BY FS_AddElement

LEMMA WithoutOne ==
  ASSUME NEW S, IsFiniteSet(S), NEW x \in S
  PROVE  Cardinality(S \ {x}) = Cardinality(S) - 1
BY FS_RemoveElement

\* A task's stage changes from within the stages counted to within them, from without
\* to without, or crosses over.
LEMMA CountedTasks ==
  ASSUME NEW t \in Tasks, stage \in [Tasks -> Stages],
         \A u \in Tasks : u # t => stage'[u] = stage[u]
  PROVE  /\ (stage[t] \in InJobCount <=> stage'[t] \in InJobCount) =>
                TasksAt(InJobCount)' = TasksAt(InJobCount)
         /\ (stage[t] \notin InJobCount /\ stage'[t] \in InJobCount) =>
                /\ t \notin TasksAt(InJobCount)
                /\ TasksAt(InJobCount)' = TasksAt(InJobCount) \union {t}
         /\ (stage[t] \in InJobCount /\ stage'[t] \notin InJobCount) =>
                /\ t \in TasksAt(InJobCount)
                /\ TasksAt(InJobCount)' = TasksAt(InJobCount) \ {t}
BY DEF TasksAt

LEMMA SameCounts ==
  ASSUME JobAccounting, UNCHANGED countVars, TasksAt(InJobCount)' = TasksAt(InJobCount),
         WorkersAt({"run", "countdown"})' = WorkersAt({"run", "countdown"})
  PROVE  JobAccounting'
BY DEF JobAccounting, countVars

LEMMA WorkerAccounting ==
  ASSUME StageInv, JobAccounting, NEW w \in Workers, WorkerStep(w) \/ WakeWorker(w)
  PROVE  JobAccounting'
<1> DEFINE Counted == TasksAt(InJobCount)
           Running == WorkersAt({"run", "countdown"})
<1>1. IsFiniteSet(Counted) /\ IsFiniteSet(Running)
  BY TasksAssumption, WorkersAssumption, FS_Subset DEF TasksAt, WorkersAt
<1>2. /\ stage \in [Tasks -> Stages] /\ wpc \in [Workers -> WorkerPlaces]
      /\ m_jobCount \in Int /\ m_runningJobCount \in Int
      /\ m_jobCount = Cardinality(Counted)
      /\ m_runningJobCount = Cardinality(Running)
  BY DEF StageInv, TypeInv, TypeOK, JobAccounting
<1>3. ASSUME \/ Register(w) \/ Exit(w) \/ Enter(w) \/ PopAborted(w) \/ PopWait(w)
             \/ Block(w) \/ WakeWorker(w)
      PROVE  JobAccounting'
  BY <1>3, WorkerMoves, SameCounts DEF TasksAt
<1>4. CASE PopTask(w)
  <2> DEFINE t == Head(m_tasks[Home[w]])
  <2>1. t \in Tasks /\ stage[t] = "queued"  BY <1>4, PopPlace
  <2>2. stage' = [stage EXCEPT ![t] = "popped"] /\ wpc[w] = "pop"
        /\ wpc' = [wpc EXCEPT ![w] = "count"] /\ UNCHANGED countVars
    BY <1>4 DEF PopTask
  <2> HIDE DEF t
  <2>3. TasksAt(InJobCount)' = TasksAt(InJobCount)
    BY <1>2, <2>1, <2>2, CountedTasks DEF InJobCount
  <2>4. WorkersAt({"run", "countdown"})' = WorkersAt({"run", "countdown"})
    BY <1>2, <2>2 DEF WorkersAt
  <2> QED  BY <2>2, <2>3, <2>4, SameCounts
<1>5. CASE CountDown(w)
  <2> DEFINE t == wtask[w]
  <2>1. t \in Tasks /\ stage[t] = "popped"
    BY <1>5, WorkPlace DEF CountDown, WorkerStage
  <2>2. /\ stage' = [stage EXCEPT ![t] = "started"] /\ wpc[w] = "count"
        /\ wpc' = [wpc EXCEPT ![w] = "countup"]
        /\ m_jobCount' = m_jobCount - 1 /\ UNCHANGED m_runningJobCount
    BY <1>5 DEF CountDown
  <2> HIDE DEF t
  <2>3. t \in Counted /\ Counted' = Counted \ {t}
    BY <1>2, <2>1, <2>2, CountedTasks DEF InJobCount
  <2>4. Running' = Running  BY <1>2, <2>2 DEF WorkersAt
  <2>5. Cardinality(Counted \ {t}) = Cardinality(Counted) - 1  BY <1>1, <2>3, WithoutOne
  <2> HIDE DEF Counted, Running
  <2>6. m_jobCount' = Cardinality(Counted') /\ m_runningJobCount' = Cardinality(Running')
    BY <1>2, <2>2, <2>3, <2>4, <2>5
  <2> QED  BY <2>6 DEF JobAccounting, Counted, Running
<1>6. CASE CountUp(w)
  <2> DEFINE t == wtask[w]
  <2>1. t \in Tasks /\ stage[t] = "started"
    BY <1>6, WorkPlace DEF CountUp, WorkerStage
  <2>2. /\ stage' = [stage EXCEPT ![t] = "running"] /\ wpc[w] = "countup"
        /\ wpc' = [wpc EXCEPT ![w] = "run"]
        /\ UNCHANGED m_jobCount /\ m_runningJobCount' = m_runningJobCount + 1
    BY <1>6 DEF CountUp
  <2> HIDE DEF t
  <2>3. Counted' = Counted  BY <1>2, <2>1, <2>2, CountedTasks DEF InJobCount
  <2>4. w \notin Running /\ Running' = Running \union {w}  BY <1>2, <2>2 DEF WorkersAt
  <2>5. Cardinality(Running \union {w}) = Cardinality(Running) + 1  BY <1>1, <2>4, WithOne
  <2> HIDE DEF Counted, Running
  <2>6. m_jobCount' = Cardinality(Counted') /\ m_runningJobCount' = Cardinality(Running')
    BY <1>2, <2>2, <2>3, <2>4, <2>5
  <2> QED  BY <2>6 DEF JobAccounting, Counted, Running
<1>7. CASE Run(w)
  <2> DEFINE t == wtask[w]
  <2>1. t \in Tasks /\ stage[t] = "running"
    BY <1>7, WorkPlace DEF Run, WorkerStage
  <2>2. /\ stage' = [stage EXCEPT ![t] = "done"] /\ wpc[w] = "run"
        /\ wpc' = [wpc EXCEPT ![w] = "countdown"] /\ UNCHANGED countVars
    BY <1>7 DEF Run
  <2> HIDE DEF t
  <2>3. TasksAt(InJobCount)' = TasksAt(InJobCount)
    BY <1>2, <2>1, <2>2, CountedTasks DEF InJobCount
  <2>4. WorkersAt({"run", "countdown"})' = WorkersAt({"run", "countdown"})
    BY <1>2, <2>2 DEF WorkersAt
  <2> QED  BY <2>2, <2>3, <2>4, SameCounts
<1>8. CASE CountRun(w)
  <2>2. /\ UNCHANGED <<stage, m_jobCount>> /\ wpc[w] = "countdown"
        /\ wpc' = [wpc EXCEPT ![w] = "notify"]
        /\ m_runningJobCount' = m_runningJobCount - 1
    BY <1>8 DEF CountRun
  <2>3. Counted' = Counted  BY <2>2 DEF TasksAt
  <2>4. w \in Running /\ Running' = Running \ {w}  BY <1>2, <2>2 DEF WorkersAt
  <2>5. Cardinality(Running \ {w}) = Cardinality(Running) - 1  BY <1>1, <2>4, WithoutOne
  <2> HIDE DEF Counted, Running
  <2>6. m_jobCount' = Cardinality(Counted') /\ m_runningJobCount' = Cardinality(Running')
    BY <1>2, <2>2, <2>3, <2>4, <2>5
  <2> QED  BY <2>6 DEF JobAccounting, Counted, Running
<1>9. CASE NotifyWaiter(w)
  <2>1. /\ UNCHANGED <<stage, countVars>> /\ wpc[w] = "notify"
        /\ wpc' = [wpc EXCEPT ![w] = "loop"]
    BY <1>9 DEF NotifyWaiter
  <2>2. Counted' = Counted /\ Running' = Running  BY <1>2, <2>1 DEF TasksAt, WorkersAt
  <2> QED  BY <2>1, <2>2, SameCounts
<1> QED  BY <1>3, <1>4, <1>5, <1>6, <1>7, <1>8, <1>9 DEF WorkerStep

LEMMA SubmitterAccounting ==
  ASSUME StageInv, JobAccounting, NEW s \in Submitters,
         \/ SubmitterStep(s) \/ WakeSubmitter(s)
         \/ \E t \in Tasks : \/ SubmitRejected(s, t)
                            \/ \E isWaiting \in WaitFlags : SubmitAccepted(s, t, isWaiting)
  PROVE  JobAccounting'
<1> DEFINE Counted == TasksAt(InJobCount)
           Running == WorkersAt({"run", "countdown"})
<1>1. IsFiniteSet(Counted)  BY TasksAssumption, FS_Subset DEF TasksAt
<1>2. /\ stage \in [Tasks -> Stages] /\ wpc \in [Workers -> WorkerPlaces]
      /\ m_jobCount \in Int
      /\ m_jobCount = Cardinality(Counted)
      /\ m_runningJobCount = Cardinality(Running)
  BY DEF StageInv, TypeInv, TypeOK, JobAccounting
<1>3. ASSUME \/ Extract(s) \/ ExtractWait(s) \/ WakeSubmitter(s) \/ InsertBegin(s)
             \/ StartCompare(s) \/ ReadSize(s) \/ Descend(s) \/ FinishInsert(s)
             \/ DestroyFutures(s)
      PROVE  JobAccounting'
  <2>1. UNCHANGED <<stage, countVars, wpc>>  BY <1>3, SubmitterMoves
  <2> QED  BY <2>1, SameCounts DEF TasksAt, WorkersAt
<1>4. ASSUME NEW t \in Tasks,
             SubmitRejected(s, t) \/ \E isWaiting \in WaitFlags : SubmitAccepted(s, t, isWaiting)
      PROVE  JobAccounting'
  <2>1. /\ UNCHANGED <<wpc, countVars>>
        /\ stage[t] = "new"
        /\ stage' = [stage EXCEPT ![t] = "rejected"] \/ stage' = [stage EXCEPT ![t] = "called"]
    BY <1>4 DEF SubmitRejected, SubmitAccepted, workerVars
  <2>2. Counted' = Counted  BY <1>2, <2>1, CountedTasks DEF InJobCount
  <2>3. Running' = Running  BY <2>1 DEF WorkersAt
  <2> QED  BY <2>1, <2>2, <2>3, SameCounts
<1>5. CASE Count(s)
  <2> DEFINE t == stask[s]
  <2>1. t \in Tasks /\ stage[t] = "called"  BY <1>5, CountPlace
  <2>2. /\ UNCHANGED <<wpc, m_runningJobCount>> /\ m_jobCount' = m_jobCount + 1
        /\ stage' = [stage EXCEPT ![t] = "counted"]
    BY <1>5 DEF Count, JobSubmitted, workerVars
  <2> HIDE DEF t
  <2>3. t \notin Counted /\ Counted' = Counted \union {t}
    BY <1>2, <2>1, <2>2, CountedTasks DEF InJobCount
  <2>4. Running' = Running  BY <2>2 DEF WorkersAt
  <2>5. Cardinality(Counted \union {t}) = Cardinality(Counted) + 1  BY <1>1, <2>3, WithOne
  <2> HIDE DEF Counted, Running
  <2>6. m_jobCount' = Cardinality(Counted') /\ m_runningJobCount' = Cardinality(Running')
    BY <1>2, <2>2, <2>3, <2>4, <2>5
  <2> QED  BY <2>6 DEF JobAccounting, Counted, Running
<1>6. CASE Push(s)
  <2> DEFINE t == stask[s]
  <2>1. t \in Tasks /\ stage[t] = "counted"  BY <1>6, PushPlace
  <2>2. /\ UNCHANGED countVars /\ NotifyOne(squeue[s])
        /\ stage' = [stage EXCEPT ![t] = "queued"]
    BY <1>6 DEF Push
  <2> HIDE DEF t
  <2>3. Counted' = Counted  BY <1>2, <2>1, <2>2, CountedTasks DEF InJobCount
  <2>4. Running' = Running  BY <1>2, <2>2 DEF NotifyOne, Sleepers, WorkersAt
  <2> QED  BY <2>2, <2>3, <2>4, SameCounts
<1> QED  BY <1>3, <1>4, <1>5, <1>6 DEF SubmitterStep

LEMMA NextAccounting == StageInv /\ JobAccounting /\ [Next]_vars => JobAccounting'
<1> SUFFICES ASSUME StageInv, JobAccounting, [Next]_vars PROVE JobAccounting'  OBVIOUS
<1>1. CASE OwnerStep \/ Destroy \/ WakeOwner  BY <1>1, OwnerMoves, SameCounts DEF TasksAt
<1>2. CASE UNCHANGED vars
  BY <1>2, SameCounts DEF vars, workerVars, TasksAt, WorkersAt
<1> QED  BY <1>1, <1>2, WorkerAccounting, SubmitterAccounting DEF Next

LEMMA InitAccounting == Init => JobAccounting
<1> SUFFICES ASSUME Init PROVE JobAccounting  OBVIOUS
<1>1. TasksAt(InJobCount) = {}  BY DEF Init, TasksAt, InJobCount
<1>2. WorkersAt({"run", "countdown"}) = {}  BY DEF Init, WorkersAt
<1> QED  BY <1>1, <1>2, FS_EmptySet DEF Init, JobAccounting

\* m_jobCount and m_runningJobCount, which submitters and workers change without a common
\* lock, count exactly the tasks submitted and not yet taken and the workers around
\* task(): neither drifts and neither goes below zero.
THEOREM CountersAreExact == SafeSpec => []JobAccounting
<1>1. Init => StageInv /\ JobAccounting  BY InitType, InitPlace, InitAccounting DEF StageInv
<1>2. StageInv /\ JobAccounting /\ [Next]_vars => (StageInv /\ JobAccounting)'
  BY NextStageInv, NextAccounting
<1> QED  BY <1>1, <1>2, PTL DEF SafeSpec

-----------------------------------------------------------------------------
(* Tasks are in one place                                                   *)

\* A queue has no more tasks than there are.
LEMMA QueueFits ==
  ASSUME StageInv, NEW q \in Queues
  PROVE  Len(m_tasks[q]) <= Cardinality(Tasks)
<1> DEFINE n == Len(m_tasks[q])
<1>1. m_tasks[q] \in Seq(Tasks) /\ n \in Nat  BY DEF StageInv, TypeInv, TypeOK
<1>2. m_tasks[q] \in [1 .. n -> Tasks]  BY <1>1
<1>3. \A i, j \in 1 .. n : m_tasks[q][i] = m_tasks[q][j] => i = j
  BY DEF StageInv, PlaceInv, QueuesHold
<1>4. m_tasks[q] \in Injection(1 .. n, Tasks)
  BY <1>2, <1>3 DEF Injection, IsInjective
<1>5. Cardinality(1 .. n) = n  BY <1>1, FS_Interval
<1>6. Cardinality(1 .. n) <= Cardinality(Tasks)  BY <1>4, TasksAssumption, FS_Injection
<1> QED  BY <1>5, <1>6

LEMMA StageGivesOnePlace == StageInv => QueuedOnce
<1> SUFFICES ASSUME StageInv, NEW t \in Tasks
             PROVE  /\ stage[t] = "queued" =>
                         \E q \in Queues, i \in 1 .. Cardinality(Tasks) :
                           \A p \in Queues : \A j \in DOMAIN m_tasks[p] :
                             (m_tasks[p][j] = t) <=> (p = q /\ j = i)
                    /\ stage[t] \in {"popped", "started", "running"} =>
                         \E w \in Workers : \A v \in Workers : (wtask[v] = t) <=> (v = w)
  BY DEF QueuedOnce
<1>1. QueuesHold /\ WorkersHold /\ TasksHeld  BY DEF StageInv, PlaceInv
<1>2. ASSUME stage[t] = "queued"
      PROVE  \E q \in Queues, i \in 1 .. Cardinality(Tasks) :
               \A p \in Queues : \A j \in DOMAIN m_tasks[p] :
                 (m_tasks[p][j] = t) <=> (p = q /\ j = i)
  <2>1. PICK q \in Queues : \E i \in 1 .. Len(m_tasks[q]) : m_tasks[q][i] = t
    BY <1>1, <1>2 DEF TasksHeld
  <2>2. PICK i \in 1 .. Len(m_tasks[q]) : m_tasks[q][i] = t  BY <2>1
  <2>3. \A p \in Queues : DOMAIN m_tasks[p] = 1 .. Len(m_tasks[p])
    BY DEF StageInv, TypeInv, TypeOK
  <2>4. i \in 1 .. Cardinality(Tasks)
    <3>1. Len(m_tasks[q]) <= Cardinality(Tasks)  BY QueueFits
    <3>2. Len(m_tasks[q]) \in Nat /\ Cardinality(Tasks) \in Nat
      BY TasksAssumption, FS_CardinalityType DEF StageInv, TypeInv, TypeOK
    <3> QED  BY <3>1, <3>2
  <2>5. ASSUME NEW p \in Queues, NEW j \in DOMAIN m_tasks[p]
        PROVE  (m_tasks[p][j] = t) <=> (p = q /\ j = i)
    <3>1. j \in 1 .. Len(m_tasks[p])  BY <2>3
    <3> QED  BY <1>1, <2>2, <3>1 DEF QueuesHold
  <2> QED  BY <2>4, <2>5
<1>3. ASSUME stage[t] \in {"popped", "started", "running"}
      PROVE  \E w \in Workers : \A v \in Workers : (wtask[v] = t) <=> (v = w)
  <2>1. PICK w \in Workers : wpc[w] \in Working /\ wtask[w] = t
    BY <1>1, <1>3 DEF TasksHeld
  <2>2. ASSUME NEW v \in Workers, wtask[v] = t PROVE v = w
    <3>1. wpc[v] \in Busy  BY <1>1, <2>2, TasksAssumption DEF WorkersHold
    <3>2. wpc[v] \notin {"countdown", "notify"}  BY <1>1, <1>3, <2>2 DEF WorkersHold
    <3>3. wpc[v] \in Working  BY <3>1, <3>2 DEF Working, Busy
    <3> QED  BY <1>1, <2>1, <2>2, <3>3 DEF WorkersHold
  <2> QED  BY <2>1, <2>2
<1> QED  BY <1>2, <1>3

\* A task that was pushed is in one queue at one place, one that was popped in the hands of
\* one worker: no interleaving of pushes, pops and wakeups duplicates or drops it.
THEOREM TasksAreInOnePlace == SafeSpec => []QueuedOnce
<1>1. Init => StageInv  BY InitType, InitPlace DEF StageInv
<1> QED  BY <1>1, NextStageInv, StageGivesOnePlace, PTL DEF SafeSpec

-----------------------------------------------------------------------------
(* The graceful destructor                                                  *)

\* The destructor has begun; it has seen m_jobCount at zero.
Destroying == {"w1", "w2", "wprep", "wblocked", "flag", "flagged", "clear", "notify",
               "join", "dead"}
SeenNoJobs == {"w2", "flag", "flagged", "clear", "notify", "join", "dead"}

\* Nobody calls a pool that is being destroyed, so what waitForAll has seen stays true; and
\* a pool that is dead has no worker left that could have taken a task.
DrainInv ==
    (IsGraceful /\ ~LateCalls) =>
      /\ opc \in Destroying => \A s \in Submitters : spc[s] = "idle"
      /\ opc \in SeenNoJobs => TasksAt({"called", "counted", "queued", "popped"}) = {}
      /\ opc = "dead" => \A w \in Workers : wpc[w] = "exit"

LEMMA DrainIsGraceful == StageInv /\ DrainInv => GracefulDrain
<1> SUFFICES ASSUME StageInv, DrainInv, IsGraceful, ~LateCalls
             PROVE  /\ opc \in SeenNoJobs =>
                         /\ TasksAt({"called", "counted", "queued", "popped"}) = {}
                         /\ \A q \in Queues : m_tasks[q] = <<>>
                    /\ opc = "dead" => TasksAt(Unfinished) = {}
  BY DEF GracefulDrain, SeenNoJobs
<1>i. QueuesHold /\ WorkersHold /\ TasksHeld  BY DEF StageInv, PlaceInv
<1>1. ASSUME opc \in SeenNoJobs
      PROVE  TasksAt({"called", "counted", "queued", "popped"}) = {}
  BY <1>1 DEF DrainInv
<1>2. ASSUME opc \in SeenNoJobs, NEW q \in Queues PROVE m_tasks[q] = <<>>
  <2> SUFFICES ASSUME m_tasks[q] # <<>> PROVE FALSE  OBVIOUS
  <2>1. m_tasks[q] \in Seq(Tasks)  BY DEF StageInv, TypeInv, TypeOK
  <2>2. 1 \in 1 .. Len(m_tasks[q]) /\ m_tasks[q][1] \in Tasks  BY <2>1
  <2>3. stage[m_tasks[q][1]] = "queued"  BY <1>i, <2>2 DEF QueuesHold
  <2> QED  BY <1>1, <1>2, <2>2, <2>3 DEF TasksAt
<1>3. ASSUME opc = "dead" PROVE TasksAt(Unfinished) = {}
  <2>1. TasksAt({"called", "counted", "queued", "popped"}) = {}  BY <1>1, <1>3 DEF SeenNoJobs
  <2>2. \A w \in Workers : wpc[w] \notin Working  BY <1>3 DEF DrainInv, Working
  <2>3. \A t \in Tasks : stage[t] \notin {"started", "running"}  BY <1>i, <2>2 DEF TasksHeld
  <2> QED  BY <2>1, <2>3 DEF TasksAt, Unfinished
<1> QED  BY <1>1, <1>2, <1>3

LEMMA InitDrain == Init => DrainInv
BY DEF Init, DrainInv, Destroying, SeenNoJobs

LEMMA WorkerDrain ==
  ASSUME StageInv, DrainInv, NEW w \in Workers, WorkerStep(w) \/ WakeWorker(w)
  PROVE  DrainInv'
<1> SUFFICES ASSUME IsGraceful, ~LateCalls PROVE DrainInv'  BY DEF DrainInv
<1>t. /\ stage \in [Tasks -> Stages] /\ wpc \in [Workers -> WorkerPlaces]
      /\ wpc[w] \in WorkerPlaces
  BY DEF StageInv, TypeInv, TypeOK
<1>1. /\ UNCHANGED spc
      /\ opc' = opc \/ (opc = "wblocked" /\ opc' = "w1")
      /\ wpc[w] # "exit"
  BY DEF WorkerStep, Register, Exit, Enter, PopAborted, PopTask, PopWait, Block, WakeWorker,
         CountDown, CountUp, Run, CountRun, NotifyWaiter, OnlyMoves, callVars, ownerVars
<1>2. ASSUME opc \in SeenNoJobs
      PROVE  \A t \in Tasks : stage'[t] \notin {"called", "counted", "queued", "popped"}
  <2>1. \A t \in Tasks : stage[t] \notin {"called", "counted", "queued", "popped"}
    BY <1>2 DEF DrainInv, TasksAt
  <2>2. CASE PopTask(w)
    <3>1. Head(m_tasks[Home[w]]) \in Tasks /\ stage[Head(m_tasks[Home[w]])] = "queued"
      BY <2>2, PopPlace
    <3> QED  BY <2>1, <3>1
  <2>3. ASSUME CountDown(w) \/ CountUp(w) \/ Run(w)
        PROVE  \A t \in Tasks : stage'[t] = stage[t] \/ stage'[t] \in {"started", "running", "done"}
    BY <1>t, <2>3 DEF CountDown, CountUp, Run
  <2>4. ASSUME ~PopTask(w), ~(CountDown(w) \/ CountUp(w) \/ Run(w)) PROVE UNCHANGED stage
    BY <2>4 DEF WorkerStep, Register, Exit, Enter, PopAborted, PopWait, Block, WakeWorker,
       CountRun, NotifyWaiter, OnlyMoves
  <2> QED  BY <2>1, <2>2, <2>3, <2>4
<1>3. opc' \in Destroying => opc \in Destroying  BY <1>1 DEF Destroying
<1>4. opc' \in SeenNoJobs => opc \in SeenNoJobs  BY <1>1 DEF SeenNoJobs
<1>5. opc' # "dead"
  BY <1>1 DEF DrainInv
<1>6. opc' \in SeenNoJobs => TasksAt({"called", "counted", "queued", "popped"})' = {}
  BY <1>2, <1>4 DEF TasksAt
<1> QED  BY <1>1, <1>3, <1>5, <1>6 DEF DrainInv

LEMMA SubmitterDrain ==
  ASSUME StageInv, DrainInv, NEW s \in Submitters,
         \/ SubmitterStep(s) \/ WakeSubmitter(s)
         \/ \E t \in Tasks : \/ SubmitRejected(s, t)
                            \/ \E isWaiting \in WaitFlags : SubmitAccepted(s, t, isWaiting)
  PROVE  DrainInv'
<1> SUFFICES ASSUME IsGraceful, ~LateCalls PROVE DrainInv'  BY DEF DrainInv
<1>1. opc' = opc
  BY DEF SubmitterStep, WakeSubmitter, Count, Extract, ExtractWait, Push, InsertBegin,
         StartCompare, ReadSize, Descend, FinishInsert, DestroyFutures, SubmitRejected,
         SubmitAccepted, ownerVars
<1>2. CASE opc \notin Destroying
  BY <1>1, <1>2 DEF DrainInv, Destroying, SeenNoJobs
<1>3. CASE opc \in Destroying
  <2>1. spc[s] = "idle" /\ opc # "open"  BY <1>3 DEF DrainInv, Destroying
  <2>2. DestroyFutures(s)
    BY <2>1 DEF SubmitterStep, WakeSubmitter, Count, Extract, ExtractWait, Push, InsertBegin,
         StartCompare, ReadSize, Descend, FinishInsert, SubmitRejected, SubmitAccepted, CanCall
  <2>3. UNCHANGED <<spc, stage, wpc>>  BY <2>2 DEF DestroyFutures, workerVars
  <2> QED  BY <1>1, <2>3 DEF DrainInv, TasksAt
<1> QED  BY <1>2, <1>3

\* Here it counts that m_jobCount is exact.
LEMMA OwnerDrain ==
  ASSUME StageInv, JobAccounting, DrainInv, OwnerStep \/ Destroy \/ WakeOwner
  PROVE  DrainInv'
<1> SUFFICES ASSUME IsGraceful, ~LateCalls PROVE DrainInv'  BY DEF DrainInv
<1>0. UNCHANGED <<stage, spc>>
  BY DEF OwnerStep, FinishCtor, ReadJobs, ReadRunning, WaitBlock, WakeOwner, Flag, ClearBegin,
         AbortStore, AbortNotify, ClearDone, Join, Destroy, OwnerOnlyMoves, callVars
<1>1. CASE ReadJobs
  <2>1. opc = "w1" /\ UNCHANGED wpc /\ opc' \in {"w2", "wprep"}
    BY <1>1 DEF ReadJobs, OwnerOnlyMoves, workerVars
  <2>2. \A s \in Submitters : spc[s] = "idle"  BY <2>1 DEF DrainInv, Destroying
  <2>3. ASSUME opc' = "w2" PROVE TasksAt({"called", "counted", "queued", "popped"}) = {}
    <3>1. m_jobCount = 0  BY <1>1, <2>3 DEF ReadJobs, NoJobs
    <3>2. IsFiniteSet(TasksAt(InJobCount))  BY TasksAssumption, FS_Subset DEF TasksAt
    <3>3. TasksAt(InJobCount) = {}  BY <3>1, <3>2, FS_EmptySet DEF JobAccounting
    <3>4. \A t \in Tasks : stage[t] # "called"
      BY <2>2 DEF StageInv, PlaceInv, TasksHeld, Carrying
    <3> QED  BY <3>3, <3>4 DEF TasksAt, InJobCount
  <2> QED  BY <1>0, <2>1, <2>2, <2>3 DEF DrainInv, SeenNoJobs, TasksAt
<1>2. CASE Destroy
  <2>1. opc' = "w1" /\ \A s \in Submitters : spc[s] = "idle"  BY <1>2 DEF Destroy
  <2> QED  BY <1>0, <2>1 DEF DrainInv, SeenNoJobs
<1>3. CASE FinishCtor
  <2>1. opc' = "open"  BY <1>3 DEF FinishCtor
  <2> QED  BY <2>1 DEF DrainInv, Destroying, SeenNoJobs
<1>4. CASE Join
  <2>1. opc = "join" /\ \A w \in Workers : wpc'[w] = "exit"
    BY <1>4 DEF Join, workerVars
  <2> QED  BY <1>0, <2>1 DEF DrainInv, Destroying, SeenNoJobs, TasksAt
<1>5. ASSUME \/ ReadRunning \/ WaitBlock \/ WakeOwner \/ Flag \/ ClearBegin
             \/ (\E w \in Workers : AbortStore(w)) \/ AbortNotify \/ ClearDone
      PROVE  DrainInv'
  <2>1. /\ opc \in Destroying /\ opc' # "dead"
        /\ opc' \in SeenNoJobs => opc \in SeenNoJobs
    BY <1>5 DEF ReadRunning, WaitBlock, WakeOwner, Flag, ClearBegin, AbortStore, AbortNotify,
       ClearDone, Destroying, SeenNoJobs
  <2> QED  BY <1>0, <2>1 DEF DrainInv, TasksAt
<1> QED  BY <1>1, <1>2, <1>3, <1>4, <1>5 DEF OwnerStep

LEMMA NextDrain == StageInv /\ JobAccounting /\ DrainInv /\ [Next]_vars => DrainInv'
<1> SUFFICES ASSUME StageInv, JobAccounting, DrainInv, [Next]_vars PROVE DrainInv'  OBVIOUS
<1>1. ASSUME UNCHANGED vars PROVE DrainInv'
  BY <1>1 DEF vars, workerVars, callVars, ownerVars, DrainInv, TasksAt
<1> QED  BY <1>1, WorkerDrain, SubmitterDrain, OwnerDrain DEF Next

\* Once waitForAll of a graceful destructor has seen m_jobCount at zero no task is in a queue
\* or on its way into one, and when the destructor has returned every task that was accepted
\* has run, although the two counters are read one after the other and a task between them
\* counts in neither.
THEOREM DestructorDrains == SafeSpec => []GracefulDrain
<1>1. Init => StageInv /\ JobAccounting /\ DrainInv
  BY InitType, InitPlace, InitAccounting, InitDrain DEF StageInv
<1>2. StageInv /\ JobAccounting /\ DrainInv /\ [Next]_vars => (StageInv /\ JobAccounting /\ DrainInv)'
  BY NextStageInv, NextAccounting, NextDrain
<1> QED  BY <1>1, <1>2, DrainIsGraceful, PTL DEF SafeSpec

-----------------------------------------------------------------------------
(* clear(): what m_shutDown and the abort of every registered queue keep out *)

Flagged == {"flagged", "clear", "notify", "join", "dead"}
Clearing == {"clear", "notify", "join", "dead"}
InPop == {"pop", "prep", "blocked"}

\* A worker inside pop is registered, since it has been through the lambda; so clear() finds
\* its queue, unless the worker registered when m_shutDown was set already, and then it does
\* not get as far as pop.
ClearInv ==
    /\ opc \in Flagged => m_shutDown
    /\ \A w \in Workers : wpc[w] # "boot" => w \in m_map
    /\ opc \in Clearing =>
         \A w \in Workers : wpc[w] \in InPop => w \in toAbort \/ m_abort[Home[w]]
    /\ opc \in {"join", "dead"} => toAbort = {}

\* The invariant holds in the beginning.
LEMMA InitClear == Init => ClearInv
BY DEF Init, ClearInv, Flagged, Clearing

\* A worker comes to pop from inside pop only, once m_shutDown is set.
LEMMA WorkerClear ==
  ASSUME StageInv, ClearInv, NEW w \in Workers, WorkerStep(w) \/ WakeWorker(w)
  PROVE  ClearInv'
<1>1. /\ wpc \in [Workers -> WorkerPlaces]
      /\ UNCHANGED <<m_abort, toAbort, m_shutDown>>
      /\ \A v \in Workers \ {w} : wpc'[v] = wpc[v]
      /\ opc' = opc \/ (opc = "wblocked" /\ opc' = "w1")
  BY DEF StageInv, TypeInv, TypeOK, WorkerStep, Register, Exit, Enter, PopAborted, PopTask,
         PopWait, Block, WakeWorker, CountDown, CountUp, Run, CountRun, NotifyWaiter, OnlyMoves,
         ownerVars, queueVars
<1>2. opc' \in Clearing => opc' = opc /\ opc \in Flagged  BY <1>1 DEF Clearing, Flagged
<1>3. opc' \in Flagged => opc' = opc  BY <1>1 DEF Flagged
<1>4. m_shutDown /\ wpc'[w] \in InPop => wpc[w] \in InPop
  BY <1>1 DEF WorkerStep, Register, Exit, Enter, PopAborted, PopTask, PopWait, Block, WakeWorker,
              CountDown, CountUp, Run, CountRun, NotifyWaiter, InPop
<1>5. \A v \in Workers : wpc'[v] # "boot" => v \in m_map'
  <2>1. CASE Register(w)
    <3>1. m_map' = m_map \union {w}  BY <2>1 DEF Register
    <3> QED  BY <1>1, <3>1 DEF ClearInv
  <2>2. CASE ~Register(w)
    <3>1. m_map' = m_map /\ wpc[w] # "boot"
      BY <2>2 DEF WorkerStep, Exit, Enter, PopAborted, PopTask, PopWait, Block, WakeWorker,
                  CountDown, CountUp, Run, CountRun, NotifyWaiter, OnlyMoves
    <3> QED  BY <1>1, <3>1 DEF ClearInv
  <2> QED  BY <2>1, <2>2
<1>6. ASSUME opc' \in Clearing, NEW v \in Workers, wpc'[v] \in InPop
      PROVE  v \in toAbort' \/ m_abort'[Home[v]]
  <2>1. m_shutDown  BY <1>2, <1>6 DEF ClearInv
  <2>2. wpc[v] \in InPop  BY <1>1, <1>4, <1>6, <2>1
  <2> QED  BY <1>1, <1>2, <1>6, <2>2 DEF ClearInv
<1>7. opc' \in {"join", "dead"} => toAbort' = {}  BY <1>1 DEF ClearInv
<1> QED  BY <1>1, <1>3, <1>5, <1>6, <1>7 DEF ClearInv

\* A submitter wakes workers inside pop and changes nothing else of this.
LEMMA SubmitterClear ==
  ASSUME StageInv, ClearInv, NEW s \in Submitters,
         \/ SubmitterStep(s) \/ WakeSubmitter(s)
         \/ \E t \in Tasks : \/ SubmitRejected(s, t)
                            \/ \E isWaiting \in WaitFlags : SubmitAccepted(s, t, isWaiting)
  PROVE  ClearInv'
<1>1. UNCHANGED <<opc, toAbort, m_abort, m_shutDown, m_map>>
  BY DEF SubmitterStep, WakeSubmitter, Count, Extract, ExtractWait, Push, InsertBegin,
         StartCompare, ReadSize, Descend, FinishInsert, DestroyFutures, SubmitRejected,
         SubmitAccepted, ownerVars, workerVars, queueVars
<1>2. \A v \in Workers : wpc'[v] = wpc[v] \/ (wpc[v] = "blocked" /\ wpc'[v] = "pop")
  <2>1. CASE Push(s)
    <3>1. wpc \in [Workers -> WorkerPlaces]  BY DEF StageInv, TypeInv, TypeOK
    <3>2. NotifyOne(squeue[s])  BY <2>1 DEF Push
    <3> QED  BY <3>1, <3>2 DEF NotifyOne, Sleepers
  <2>2. CASE ~Push(s)
    <3>1. wpc' = wpc
      BY <2>2 DEF SubmitterStep, WakeSubmitter, Count, Extract, ExtractWait, InsertBegin,
         StartCompare, ReadSize, Descend, FinishInsert, DestroyFutures, SubmitRejected,
         SubmitAccepted, workerVars
    <3> QED  BY <3>1
  <2> QED  BY <2>1, <2>2
<1> QED  BY <1>1, <1>2 DEF ClearInv, InPop

\* The owner starts clear() with every worker that is registered, and stores to a queue's
\* m_abort before it goes on to the next.
LEMMA OwnerClear ==
  ASSUME StageInv, ClearInv, OwnerStep \/ Destroy \/ WakeOwner
  PROVE  ClearInv'
<1>t. wpc \in [Workers -> WorkerPlaces] /\ m_abort \in [Queues -> BOOLEAN]
  BY DEF StageInv, TypeInv, TypeOK
<1>1. CASE FinishCtor \/ Destroy \/ WakeOwner \/ ReadJobs \/ ReadRunning \/ WaitBlock
  <2>1. opc' \notin Flagged /\ UNCHANGED <<wpc, m_map>>
    BY <1>1 DEF FinishCtor, Destroy, WakeOwner, ReadJobs, ReadRunning, WaitBlock, OwnerOnlyMoves,
       workerVars, Flagged
  <2> QED  BY <2>1 DEF ClearInv, Flagged, Clearing
<1>2. CASE Flag
  <2>1. opc' = "flagged" /\ m_shutDown' /\ UNCHANGED <<wpc, m_map>>  BY <1>2 DEF Flag, workerVars
  <2> QED  BY <2>1 DEF ClearInv, Clearing
<1>3. CASE ClearBegin
  <2>1. /\ opc = "flagged" /\ opc' = "clear" /\ toAbort' = m_map
        /\ UNCHANGED <<wpc, m_map, m_shutDown>>
    BY <1>3 DEF ClearBegin, workerVars
  <2> QED  BY <2>1 DEF ClearInv, Flagged, InPop
<1>4. ASSUME NEW w \in Workers, AbortStore(w)  PROVE ClearInv'
  <2>1. /\ opc = "clear" /\ opc' = "notify" /\ toAbort' = toAbort \ {w}
        /\ m_abort' = [m_abort EXCEPT ![Home[w]] = TRUE]
        /\ UNCHANGED <<wpc, m_map, m_shutDown>>
    BY <1>4 DEF AbortStore, workerVars
  <2>2. \A v \in Workers : Home[v] \in Queues  BY HomeAssumption
  <2>3. m_abort'[Home[w]] /\ \A v \in Workers : m_abort[Home[v]] => m_abort'[Home[v]]
    BY <1>t, <2>1, <2>2
  <2> QED  BY <2>1, <2>3 DEF ClearInv, Flagged, Clearing
<1>5. CASE AbortNotify
  <2>1. /\ opc = "notify" /\ opc' = "clear" /\ UNCHANGED <<toAbort, m_abort, m_map, m_shutDown>>
        /\ NotifyAll(abortQ)
    BY <1>5 DEF AbortNotify, queueVars
  <2>2. \A v \in Workers : wpc'[v] = wpc[v] \/ (wpc[v] = "blocked" /\ wpc'[v] = "pop")
    BY <2>1 DEF NotifyAll, Sleepers
  <2> QED  BY <2>1, <2>2 DEF ClearInv, Flagged, Clearing, InPop
<1>6. CASE ClearDone \/ Join
  <2>1. /\ opc \in {"clear", "join"} /\ opc' \in {"join", "dead"} /\ toAbort' = toAbort
        /\ (opc = "clear") => (toAbort = {})
        /\ UNCHANGED <<wpc, m_map, m_shutDown, m_abort>>
    BY <1>6 DEF ClearDone, Join, OwnerOnlyMoves, workerVars, queueVars
  <2> QED  BY <2>1 DEF ClearInv, Flagged, Clearing
<1> QED  BY <1>1, <1>2, <1>3, <1>4, <1>5, <1>6 DEF OwnerStep

\* Every step keeps the invariant.
LEMMA NextClear == StageInv /\ ClearInv /\ [Next]_vars => ClearInv'
<1> SUFFICES ASSUME StageInv, ClearInv, [Next]_vars PROVE ClearInv'  OBVIOUS
<1>1. ASSUME UNCHANGED vars PROVE ClearInv'
  BY <1>1 DEF vars, workerVars, ownerVars, queueVars, ClearInv
<1> QED  BY <1>1, WorkerClear, SubmitterClear, OwnerClear DEF Next

\* A task leaves its queue only when a worker pops it: who counts or runs one has taken it out
\* before.
LEMMA OnlyPopUnqueues ==
  ASSUME StageInv, [Next]_vars, NEW t \in Tasks, stage[t] = "queued", stage'[t] # "queued"
  PROVE  \E w \in Workers : PopTask(w)
<1>1. stage \in [Tasks -> Stages] /\ WorkersHold /\ SubmittersHold
  BY DEF StageInv, TypeInv, TypeOK, PlaceInv
<1>2. CASE UNCHANGED vars  BY <1>2 DEF vars
<1>3. ASSUME NEW w \in Workers, WorkerStep(w) \/ WakeWorker(w)  PROVE PopTask(w)
  <2> SUFFICES ASSUME ~PopTask(w)  PROVE FALSE
    OBVIOUS
  <2>1. CASE CountDown(w) \/ CountUp(w) \/ Run(w)
    <3>1. wpc[w] \in Working /\ \A x \in Tasks \ {wtask[w]} : stage'[x] = stage[x]
      BY <1>1, <2>1 DEF CountDown, CountUp, Run, Working
    <3>2. stage[wtask[w]] # "queued"  BY <1>1, <3>1 DEF WorkersHold, WorkerStage, Working
    <3> QED  BY <3>1, <3>2
  <2>2. CASE ~(CountDown(w) \/ CountUp(w) \/ Run(w))
    BY <1>3, <2>2 DEF WorkerStep, Register, Exit, Enter, PopAborted, PopWait, Block, WakeWorker,
       CountRun, NotifyWaiter, OnlyMoves
  <2> QED  BY <2>1, <2>2
<1>4. ASSUME NEW s \in Submitters,
             \/ SubmitterStep(s) \/ WakeSubmitter(s)
             \/ \E x \in Tasks : \/ SubmitRejected(s, x)
                                \/ \E isWaiting \in WaitFlags : SubmitAccepted(s, x, isWaiting)
      PROVE  FALSE
  <2>1. CASE Count(s) \/ Push(s)
    <3>1. spc[s] \in Carrying /\ \A x \in Tasks \ {stask[s]} : stage'[x] = stage[x]
      BY <1>1, <2>1 DEF Count, Push, Carrying
    <3>2. stage[stask[s]] # "queued"  BY <1>1, <3>1 DEF SubmittersHold, SubmitterStage
    <3> QED  BY <3>1, <3>2
  <2>2. ASSUME NEW x \in Tasks,
               SubmitRejected(s, x) \/ \E isWaiting \in WaitFlags : SubmitAccepted(s, x, isWaiting)
        PROVE  FALSE
    <3>1. stage[x] = "new" /\ \A y \in Tasks \ {x} : stage'[y] = stage[y]
      BY <1>1, <2>2 DEF SubmitRejected, SubmitAccepted
    <3> QED  BY <3>1
  <2>3. CASE WakeSubmitter(s) \/ (SubmitterStep(s) /\ ~Count(s) /\ ~Push(s))
    BY <2>3 DEF SubmitterStep, WakeSubmitter, Extract, ExtractWait, InsertBegin, StartCompare,
       ReadSize, Descend, FinishInsert, DestroyFutures
  <2> QED  BY <1>4, <2>1, <2>2, <2>3
<1>5. ASSUME OwnerStep \/ Destroy \/ WakeOwner  PROVE FALSE
  BY <1>5 DEF OwnerStep, FinishCtor, ReadJobs, ReadRunning, WaitBlock, WakeOwner, Flag, ClearBegin,
     AbortStore, AbortNotify, ClearDone, Join, Destroy, OwnerOnlyMoves
<1> QED  BY <1>2, <1>3, <1>4, <1>5 DEF Next

\* Once clear() is through no worker takes a task out of its queue, not even one that
\* registered so late that clear() did not find its queue.
THEOREM ClearStopsPops == SafeSpec => NoPopAfterClear
<1>1. Init => StageInv /\ ClearInv  BY InitType, InitPlace, InitClear DEF StageInv
<1>2. StageInv /\ ClearInv /\ [Next]_vars => (StageInv /\ ClearInv)'  BY NextStageInv, NextClear
<1>3. StageInv /\ ClearInv /\ [Next]_vars =>
        [(opc \in {"join", "dead"}) => (TasksAt({"queued"}) \subseteq TasksAt({"queued"})')]_vars
  <2> SUFFICES ASSUME StageInv, ClearInv, [Next]_vars, opc \in {"join", "dead"},
                      NEW t \in Tasks, stage[t] = "queued"
               PROVE  stage'[t] = "queued"
    BY DEF TasksAt
  <2>1. ASSUME NEW w \in Workers, PopTask(w)  PROVE FALSE
    <3>1. wpc[w] \in InPop /\ ~m_abort[Home[w]]  BY <2>1 DEF PopTask, InPop
    <3> QED  BY <3>1 DEF ClearInv, Clearing
  <2> QED  BY <2>1, OnlyPopUnqueues
<1> QED  BY <1>1, <1>2, <1>3, PTL DEF SafeSpec, NoPopAfterClear

-----------------------------------------------------------------------------
(* A pool that is destroyed gracefully, and that nobody calls while it is,  *)
(* does what TaskPool promises, step by step                                *)

\* What the mapping to TaskPool needs of the callers: an idle one is owed nothing, and
\* whatever a caller submits or waits for has been accepted.
CallsInv ==
    \A s \in Submitters :
      /\ spc[s] = "idle" => ~swait[s]
      /\ spc[s] # "idle" => stage[stask[s]] \notin {"new", "rejected"}
      /\ \A t \in futures[s] : stage[t] \notin {"new", "rejected"}

FullInv == StageInv /\ JobAccounting /\ DrainInv /\ CallsInv

LEMMA InitCalls == Init => CallsInv
BY DEF Init, CallsInv

\* Once accepted, a task stays so.
LEMMA Accepted ==
  ASSUME StageInv, [Next]_vars, NEW t \in Tasks, stage[t] \notin {"new", "rejected"}
  PROVE  stage'[t] \notin {"new", "rejected"}
<1>t. stage \in [Tasks -> Stages]  BY DEF StageInv, TypeInv, TypeOK
<1>1. ASSUME NEW w \in Workers, WorkerStep(w) \/ WakeWorker(w)
      PROVE  stage'[t] \notin {"new", "rejected"}
  BY <1>1, <1>t DEF WorkerStep, Register, Exit, Enter, PopAborted, PopTask, PopWait, Block,
     WakeWorker, CountDown, CountUp, Run, CountRun, NotifyWaiter, OnlyMoves
<1>2. ASSUME NEW s \in Submitters, SubmitterStep(s) \/ WakeSubmitter(s)
      PROVE  stage'[t] \notin {"new", "rejected"}
  BY <1>2, <1>t DEF SubmitterStep, WakeSubmitter, Count, Extract, ExtractWait, Push,
     InsertBegin, StartCompare, ReadSize, Descend, FinishInsert, DestroyFutures
<1>3. ASSUME NEW s \in Submitters, NEW u \in Tasks,
             SubmitRejected(s, u) \/ \E isWaiting \in WaitFlags : SubmitAccepted(s, u, isWaiting)
      PROVE  stage'[t] \notin {"new", "rejected"}
  BY <1>3, <1>t DEF SubmitRejected, SubmitAccepted
<1>4. ASSUME (OwnerStep \/ Destroy \/ WakeOwner) \/ UNCHANGED vars
      PROVE  stage'[t] \notin {"new", "rejected"}
  BY <1>4 DEF OwnerStep, FinishCtor, ReadJobs, ReadRunning, WaitBlock, WakeOwner, Flag,
     ClearBegin, AbortStore, AbortNotify, ClearDone, Join, Destroy, OwnerOnlyMoves, vars
<1> QED  BY <1>1, <1>2, <1>3, <1>4 DEF Next

\* Nobody calls, and nobody's futures change.
CallsUnchanged == UNCHANGED <<spc, stask, swait, futures>>

LEMMA NextCalls == StageInv /\ CallsInv /\ [Next]_vars => CallsInv'
<1> SUFFICES ASSUME StageInv, CallsInv, [Next]_vars PROVE CallsInv'  OBVIOUS
<1>t. /\ stage \in [Tasks -> Stages] /\ stask \in [Submitters -> Tasks \union {NoTask}]
      /\ swait \in [Submitters -> BOOLEAN] /\ futures \in [Submitters -> SUBSET Tasks]
      /\ spc \in [Submitters -> SubmitterPlaces]
      /\ \A s \in Submitters : spc[s] # "idle" => stask[s] \in Tasks
  BY DEF StageInv, TypeInv, TypeOK, HandsTyped
<1>a. \A t \in Tasks : stage[t] \notin {"new", "rejected"} => stage'[t] \notin {"new", "rejected"}
  BY Accepted
<1>1. CASE CallsUnchanged
  BY <1>1, <1>a, <1>t DEF CallsUnchanged, CallsInv
<1>2. ASSUME NEW w \in Workers, WorkerStep(w) \/ WakeWorker(w) PROVE CallsInv'
  <2>1. CallsUnchanged
    BY <1>2 DEF CallsUnchanged, WorkerStep, Register, Exit, Enter, PopAborted, PopTask, PopWait,
       Block, WakeWorker, CountDown, CountUp, Run, CountRun, NotifyWaiter, OnlyMoves, callVars
  <2> QED  BY <1>1, <2>1
<1>3. ASSUME (OwnerStep \/ Destroy \/ WakeOwner) \/ UNCHANGED vars PROVE CallsInv'
  <2>1. CallsUnchanged
    BY <1>3 DEF CallsUnchanged, OwnerStep, FinishCtor, ReadJobs, ReadRunning, WaitBlock,
       WakeOwner, Flag, ClearBegin, AbortStore, AbortNotify, ClearDone, Join, Destroy,
       OwnerOnlyMoves, callVars, vars
  <2> QED  BY <1>1, <2>1
<1>4. ASSUME NEW s \in Submitters,
             \/ Count(s) \/ Extract(s) \/ ExtractWait(s) \/ Push(s) \/ InsertBegin(s)
             \/ StartCompare(s) \/ ReadSize(s) \/ Descend(s) \/ WakeSubmitter(s)
      PROVE  CallsInv'
  <2>1. /\ UNCHANGED <<stask, swait, futures>>
        /\ \A r \in Submitters : spc'[r] = "idle" <=> spc[r] = "idle"
    BY <1>4, <1>t DEF Count, Extract, ExtractWait, Push, InsertBegin, StartCompare, ReadSize,
       Descend, WakeSubmitter, callVars
  <2> QED  BY <1>a, <1>t, <2>1 DEF CallsInv
<1>5. ASSUME NEW s \in Submitters, FinishInsert(s) PROVE CallsInv'
  <2>1. /\ spc[s] = "walk" /\ UNCHANGED stage
        /\ spc'[s] = "idle" /\ ~swait'[s]
        /\ \A t \in futures'[s] : t \in futures[s] \/ t = stask[s]
        /\ \A r \in Submitters : r # s =>
             /\ futures'[r] = futures[r] /\ stask'[r] = stask[r] /\ swait'[r] = swait[r]
             /\ spc'[r] = "idle" <=> spc[r] = "idle"
    BY <1>5, <1>t DEF FinishInsert, LeaveSubmit, SetSleepers
  <2> QED  BY <2>1 DEF CallsInv
<1>6. ASSUME NEW s \in Submitters, DestroyFutures(s) PROVE CallsInv'
  <2>1. /\ UNCHANGED <<stage, spc, stask, swait>>
        /\ \A r \in Submitters : futures'[r] \subseteq futures[r]
    BY <1>6, <1>t DEF DestroyFutures
  <2> QED  BY <2>1 DEF CallsInv
<1>7. ASSUME NEW s \in Submitters, NEW t \in Tasks, SubmitRejected(s, t) PROVE CallsInv'
  <2>1. CallsUnchanged  BY <1>7 DEF CallsUnchanged, SubmitRejected, callVars
  <2> QED  BY <1>1, <2>1
<1>8. ASSUME NEW s \in Submitters, NEW t \in Tasks, NEW isWaiting \in WaitFlags,
             SubmitAccepted(s, t, isWaiting)
      PROVE  CallsInv'
  <2>1. /\ spc'[s] = "count" /\ stask'[s] = t /\ stage'[t] = "called"
        /\ UNCHANGED futures
        /\ \A r \in Submitters : r # s =>
             stask'[r] = stask[r] /\ swait'[r] = swait[r] /\ spc'[r] = spc[r]
    BY <1>8, <1>t DEF SubmitAccepted
  <2> QED  BY <1>a, <1>t, <2>1 DEF CallsInv
<1> QED  BY <1>2, <1>3, <1>4, <1>5, <1>6, <1>7, <1>8 DEF Next, SubmitterStep

LEMMA FullInvariance == SafeSpec => []FullInv
<1>1. Init => FullInv
  BY InitType, InitPlace, InitAccounting, InitDrain, InitCalls DEF StageInv, FullInv
<1>2. FullInv /\ [Next]_vars => FullInv'
  BY NextStageInv, NextAccounting, NextDrain, NextCalls DEF FullInv
<1> QED  BY <1>1, <1>2, PTL DEF SafeSpec

-----------------------------------------------------------------------------
(* The mapping: what a step does to status, pending and isOpen              *)

\* A step that the callers of the pool cannot tell from none.
LEMMA Hidden ==
  ASSUME \A t \in Tasks : StatusOf(t)' = StatusOf(t),
         \A s \in Submitters : PendingOf(s)' = PendingOf(s),
         opc' = "dead" <=> opc = "dead"
  PROVE  UNCHANGED Promise!poolVars
BY DEF Promise!poolVars

\* It is enough that the stages do not cross from one status to another.
LEMMA SameStatus ==
  ASSUME NEW t \in Tasks,
         \/ stage'[t] = stage[t]
         \/ stage[t] \in Unfinished /\ stage'[t] \in Unfinished
         \/ stage[t] = "new" /\ stage'[t] = "rejected"
  PROVE  StatusOf(t)' = StatusOf(t)
BY DEF StatusOf, Unfinished

LEMMA SamePending ==
  ASSUME UNCHANGED <<futures, stask, swait>>, NEW s \in Submitters
  PROVE  PendingOf(s)' = PendingOf(s)
BY DEF PendingOf

LEMMA InitMaps == Init => Promise!Init
<1> SUFFICES ASSUME Init PROVE Promise!Init  OBVIOUS
<1>1. \A t \in Tasks : StatusOf(t) = "new"
  <2>1. \A t \in Tasks : stage[t] = "new"  BY DEF Init
  <2> QED  BY <2>1 DEF StatusOf, Unfinished
<1>2. \A s \in Submitters : PendingOf(s) = {}  BY DEF Init, PendingOf
<1>3. opc # "dead"  BY DEF Init
<1> QED  BY <1>1, <1>2, <1>3 DEF Promise!Init

LEMMA WorkerMaps ==
  ASSUME FullInv, IsGraceful, ~LateCalls, NEW w \in Workers, WorkerStep(w) \/ WakeWorker(w)
  PROVE  [Promise!Next]_Promise!poolVars
<1>t. /\ stage \in [Tasks -> Stages] /\ StageInv /\ HandsTyped /\ WorkersHold
      /\ wpc \in [Workers -> WorkerPlaces]
  BY DEF FullInv, StageInv, PlaceInv, TypeInv, TypeOK
<1>1. UNCHANGED <<futures, stask, swait>>
  BY DEF WorkerStep, Register, Exit, Enter, PopAborted, PopTask, PopWait, Block, WakeWorker,
     CountDown, CountUp, Run, CountRun, NotifyWaiter, OnlyMoves, callVars
<1>2. \A s \in Submitters : PendingOf(s)' = PendingOf(s)  BY <1>1, SamePending
<1>3. wpc[w] # "exit"
  BY DEF WorkerStep, Register, Exit, Enter, PopAborted, PopTask, PopWait, Block, WakeWorker,
     CountDown, CountUp, Run, CountRun, NotifyWaiter
<1>4. opc # "dead"  BY <1>3 DEF FullInv, DrainInv
<1>5. opc' # "dead"
  BY <1>4 DEF WorkerStep, Register, Exit, Enter, PopAborted, PopTask, PopWait, Block, WakeWorker,
     CountDown, CountUp, Run, CountRun, NotifyWaiter, OnlyMoves, ownerVars
<1>6. CASE Run(w)
  <2> DEFINE t == wtask[w]
  <2>1. t \in Tasks /\ stage[t] = "running" /\ stage' = [stage EXCEPT ![t] = "done"]
    BY <1>6, <1>t DEF Run, HandsTyped, WorkersHold, WorkerStage, Working, Busy
  <2>2. \E u \in Tasks : u = t  BY <2>1
  <2>3. PICK u \in Tasks : u = t  BY <2>2
  <2>4. StatusOf(u) = "accepted" /\ StatusOf(u)' = "done"
    BY <1>t, <2>1, <2>3 DEF StatusOf, Unfinished
  <2>5. \A v \in Tasks : v # u => StatusOf(v)' = StatusOf(v)
    BY <1>t, <2>1, <2>3, SameStatus
  <2>6. Promise!Run(u)  BY <1>2, <1>4, <1>5, <2>4, <2>5 DEF Promise!Run
  <2> QED  BY <2>6 DEF Promise!Next
<1>7. CASE ~Run(w)
  <2>1. ASSUME NEW t \in Tasks PROVE StatusOf(t)' = StatusOf(t)
    <3>1. CASE PopTask(w)
      <4>1. Head(m_tasks[Home[w]]) \in Tasks /\ stage[Head(m_tasks[Home[w]])] = "queued"
        BY <1>t, <3>1, PopPlace
      <4>2. stage' = [stage EXCEPT ![Head(m_tasks[Home[w]])] = "popped"]  BY <3>1 DEF PopTask
      <4> QED  BY <1>t, <4>1, <4>2, SameStatus DEF Unfinished
    <3>2. CASE CountDown(w) \/ CountUp(w)
      <4>1. /\ wtask[w] \in Tasks /\ stage[wtask[w]] \in {"popped", "started"}
            /\ \/ stage' = [stage EXCEPT ![wtask[w]] = "started"]
               \/ stage' = [stage EXCEPT ![wtask[w]] = "running"]
        BY <1>t, <3>2 DEF CountDown, CountUp, HandsTyped, WorkersHold, WorkerStage, Working, Busy
      <4> QED  BY <1>t, <4>1, SameStatus DEF Unfinished
    <3>3. ASSUME ~PopTask(w), ~(CountDown(w) \/ CountUp(w)) PROVE UNCHANGED stage
      BY <1>7, <3>3 DEF WorkerStep, Register, Exit, Enter, PopAborted, PopWait, Block, WakeWorker,
         CountRun, NotifyWaiter, OnlyMoves
    <3> QED  BY <3>1, <3>2, <3>3, SameStatus
  <2> QED  BY <1>2, <1>4, <1>5, <2>1, Hidden
<1> QED  BY <1>6, <1>7

LEMMA SubmitterMaps ==
  ASSUME FullInv, IsGraceful, ~LateCalls, NEW s \in Submitters,
         SubmitterStep(s) \/ WakeSubmitter(s)
  PROVE  [Promise!Next]_Promise!poolVars
<1>t. /\ stage \in [Tasks -> Stages] /\ StageInv /\ CallsInv
      /\ stask \in [Submitters -> Tasks \union {NoTask}]
      /\ swait \in [Submitters -> BOOLEAN] /\ futures \in [Submitters -> SUBSET Tasks]
  BY DEF FullInv, StageInv, TypeInv, TypeOK
<1>1. opc' = opc
  BY DEF SubmitterStep, WakeSubmitter, Count, Extract, ExtractWait, Push, InsertBegin,
     StartCompare, ReadSize, Descend, FinishInsert, DestroyFutures, ownerVars
<1>2. ASSUME \/ Count(s) \/ Extract(s) \/ ExtractWait(s) \/ Push(s) \/ InsertBegin(s)
             \/ StartCompare(s) \/ ReadSize(s) \/ Descend(s) \/ WakeSubmitter(s)
      PROVE  [Promise!Next]_Promise!poolVars
  <2>1. UNCHANGED <<futures, stask, swait>>
    BY <1>2 DEF Count, Extract, ExtractWait, Push, InsertBegin, StartCompare, ReadSize, Descend,
       WakeSubmitter, callVars
  <2>2. \A r \in Submitters : PendingOf(r)' = PendingOf(r)  BY <2>1, SamePending
  <2>3. ASSUME NEW t \in Tasks PROVE StatusOf(t)' = StatusOf(t)
    <3>1. CASE Count(s) \/ Push(s)
      <4>1. /\ stask[s] \in Tasks /\ stage[stask[s]] \in {"called", "counted"}
            /\ \/ stage' = [stage EXCEPT ![stask[s]] = "counted"]
               \/ stage' = [stage EXCEPT ![stask[s]] = "queued"]
        BY <1>t, <3>1, CountPlace, PushPlace DEF Count, Push
      <4> QED  BY <1>t, <4>1, SameStatus DEF Unfinished
    <3>2. CASE ~(Count(s) \/ Push(s))
      <4>1. UNCHANGED stage
        BY <1>2, <3>2 DEF Extract, ExtractWait, InsertBegin, StartCompare, ReadSize, Descend,
           WakeSubmitter
      <4> QED  BY <4>1, SameStatus
    <3> QED  BY <3>1, <3>2
  <2> QED  BY <1>1, <2>2, <2>3, Hidden
<1>3. CASE FinishInsert(s)
  <2>1. /\ UNCHANGED stage
        /\ futures'[s] = IF swait[s] THEN futures[s] \union {stask[s]} ELSE futures[s]
        /\ ~swait'[s]
        /\ \A r \in Submitters : r # s =>
             futures'[r] = futures[r] /\ stask'[r] = stask[r] /\ swait'[r] = swait[r]
    BY <1>3, <1>t DEF FinishInsert
  <2>2. PendingOf(s)' = PendingOf(s)  BY <2>1 DEF PendingOf
  <2>3. \A r \in Submitters : r # s => PendingOf(r)' = PendingOf(r)  BY <2>1 DEF PendingOf
  <2>4. \A t \in Tasks : StatusOf(t)' = StatusOf(t)  BY <2>1, SameStatus
  <2> QED  BY <1>1, <2>2, <2>3, <2>4, Hidden
<1>4. CASE DestroyFutures(s)
  <2>1. /\ spc[s] = "idle" /\ futures[s] # {}
        /\ \A t \in futures[s] : stage[t] = "done" \/ opc = "dead"
        /\ UNCHANGED <<stage, stask, swait>>
        /\ futures' = [futures EXCEPT ![s] = {}]
    BY <1>4 DEF DestroyFutures
  <2>2. ~swait[s]  BY <1>t, <2>1 DEF CallsInv
  <2>3. PendingOf(s) = futures[s] /\ PendingOf(s)' = {}
    BY <1>t, <2>1, <2>2 DEF PendingOf
  <2>4. \A r \in Submitters : r # s => PendingOf(r)' = PendingOf(r)
    BY <1>t, <2>1 DEF PendingOf
  <2>5. ASSUME NEW t \in futures[s] PROVE StatusOf(t) = "done"
    <3>1. t \in Tasks /\ stage[t] \notin {"new", "rejected"}  BY <1>t DEF CallsInv
    <3>2. opc = "dead" => stage[t] \notin Unfinished
      BY <3>1, DrainIsGraceful DEF FullInv, GracefulDrain, TasksAt
    <3>3. stage[t] \notin Unfinished  BY <2>1, <3>2 DEF Unfinished
    <3> QED  BY <3>1, <3>3 DEF StatusOf
  <2>6. \A t \in Tasks : StatusOf(t)' = StatusOf(t)  BY <2>1, SameStatus
  <2>7. Promise!Return(s)
    BY <1>1, <2>1, <2>3, <2>4, <2>5, <2>6, <1>t DEF Promise!Return
  <2> QED  BY <2>7 DEF Promise!Next
<1> QED  BY <1>2, <1>3, <1>4 DEF SubmitterStep

LEMMA SubmitMaps ==
  ASSUME FullInv, IsGraceful, ~LateCalls, NEW s \in Submitters, NEW t \in Tasks,
         SubmitRejected(s, t) \/ \E isWaiting \in WaitFlags : SubmitAccepted(s, t, isWaiting)
  PROVE  [Promise!Next]_Promise!poolVars
<1>t. /\ stage \in [Tasks -> Stages] /\ CallsInv
      /\ stask \in [Submitters -> Tasks \union {NoTask}]
      /\ swait \in [Submitters -> BOOLEAN] /\ futures \in [Submitters -> SUBSET Tasks]
  BY DEF FullInv, StageInv, TypeInv, TypeOK
<1>1. CASE SubmitRejected(s, t)
  <2>1. /\ stage[t] = "new" /\ stage' = [stage EXCEPT ![t] = "rejected"]
        /\ UNCHANGED <<futures, stask, swait, opc>>
    BY <1>1 DEF SubmitRejected, callVars, ownerVars
  <2>2. \A u \in Tasks : StatusOf(u)' = StatusOf(u)  BY <1>t, <2>1, SameStatus
  <2> QED  BY <2>1, <2>2, SamePending, Hidden
<1>2. ASSUME NEW isWaiting \in WaitFlags, SubmitAccepted(s, t, isWaiting)
      PROVE  [Promise!Next]_Promise!poolVars
  <2>1. /\ spc[s] = "idle" /\ opc = "open" /\ opc' = opc
        /\ stage[t] = "new" /\ stage' = [stage EXCEPT ![t] = "called"]
        /\ UNCHANGED futures
        /\ stask' = [stask EXCEPT ![s] = t] /\ swait' = [swait EXCEPT ![s] = isWaiting]
    BY <1>2 DEF SubmitAccepted, CanCall, ownerVars
  <2>2. isWaiting \in BOOLEAN  BY FlagsAssumption
  <2>3. PendingOf(s) = futures[s]  BY <1>t, <2>1 DEF CallsInv, PendingOf
  <2>4. stask'[s] = t /\ swait'[s] = isWaiting  BY <1>t, <2>1
  <2>5. PendingOf(s)' = IF isWaiting THEN futures[s] \union {t} ELSE futures[s]
    BY <2>1, <2>4 DEF PendingOf
  <2>6. \A r \in Submitters : r # s => PendingOf(r)' = PendingOf(r)
    BY <1>t, <2>1 DEF PendingOf
  <2>7. StatusOf(t) = "new" /\ StatusOf(t)' = "accepted"
    BY <1>t, <2>1 DEF StatusOf, Unfinished
  <2>8. \A u \in Tasks : u # t => StatusOf(u)' = StatusOf(u)  BY <1>t, <2>1, SameStatus
  <2>9. Promise!Submit(s, t, isWaiting)
    BY <2>1, <2>3, <2>5, <2>6, <2>7, <2>8 DEF Promise!Submit
  <2> QED  BY <2>2, <2>9 DEF Promise!Next
<1> QED  BY <1>1, <1>2

LEMMA OwnerMaps ==
  ASSUME FullInv, IsGraceful, ~LateCalls, DrainInv', StageInv', OwnerStep \/ Destroy \/ WakeOwner
  PROVE  [Promise!Next]_Promise!poolVars
<1>1. UNCHANGED <<stage, futures, stask, swait>>
  BY DEF OwnerStep, FinishCtor, ReadJobs, ReadRunning, WaitBlock, WakeOwner, Flag, ClearBegin,
     AbortStore, AbortNotify, ClearDone, Join, Destroy, OwnerOnlyMoves, callVars
<1>2. \A t \in Tasks : StatusOf(t)' = StatusOf(t)  BY <1>1, SameStatus
<1>3. \A s \in Submitters : PendingOf(s)' = PendingOf(s)  BY <1>1, SamePending
<1>4. CASE Join
  <2>1. opc = "join" /\ opc' = "dead"  BY <1>4 DEF Join
  <2>2. GracefulDrain'  BY DrainIsGraceful, PTL
  <2>3. \A t \in Tasks : stage[t] \notin Unfinished
    BY <1>1, <2>1, <2>2 DEF GracefulDrain, TasksAt
  <2>4. \A t \in Tasks : StatusOf(t) # "accepted"  BY <2>3 DEF StatusOf
  <2>5. Promise!Close  BY <1>2, <1>3, <2>1, <2>4 DEF Promise!Close
  <2> QED  BY <2>5 DEF Promise!Next
<1>5. CASE ~Join
  <2>1. opc # "dead" /\ opc' # "dead"
    BY <1>5 DEF OwnerStep, FinishCtor, ReadJobs, ReadRunning, WaitBlock, WakeOwner, Flag,
       ClearBegin, AbortStore, AbortNotify, ClearDone, Destroy
  <2> QED  BY <1>2, <1>3, <2>1, Hidden
<1> QED  BY <1>4, <1>5

\* A pool destroyed gracefully, which nobody calls meanwhile, keeps what TaskPool promises:
\* a task runs once and only while the pool is there, a caller gets past its waiting
\* futures only when their tasks have run, and the destructor returns when all have.
THEOREM TaskPoolRefined == (IsGraceful /\ ~LateCalls) => (SafeSpec => Promise!SafeSpec)
<1> SUFFICES ASSUME IsGraceful, ~LateCalls PROVE SafeSpec => Promise!SafeSpec  OBVIOUS
<1>1. FullInv /\ [Next]_vars => [Promise!Next]_Promise!poolVars
  <2> SUFFICES ASSUME FullInv, [Next]_vars PROVE [Promise!Next]_Promise!poolVars  OBVIOUS
  <2>1. DrainInv' /\ StageInv'  BY NextStageInv, NextDrain DEF FullInv
  <2>2. CASE UNCHANGED vars
    <3>1. UNCHANGED <<stage, futures, stask, swait, opc>>
      BY <2>2 DEF vars, callVars, ownerVars
    <3> QED  BY <3>1, SameStatus, SamePending, Hidden
  <2> QED  BY <2>1, <2>2, WorkerMaps, SubmitterMaps, SubmitMaps, OwnerMaps DEF Next
<1> QED  BY InitMaps, <1>1, FullInvariance, PTL DEF SafeSpec, Promise!SafeSpec
=============================================================================

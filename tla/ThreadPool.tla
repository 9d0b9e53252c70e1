----------------------------- MODULE ThreadPool -----------------------------
(***************************************************************************)
(* core::ThreadPool with the QueueDispatch and the SafeQueues inside it and *)
(* the WaitableFutures it hands out.                                        *)
(*                                                                          *)
(* A submitter takes the least busy queue out of the ordered set m_set,     *)
(* pushes its task, and puts the queue back; the set orders its queues by   *)
(* their live sizes, so putting one back is modelled read by read.  Every   *)
(* worker serves one queue.  The owner constructs and destroys the pool.    *)
(*                                                                          *)
(* Locks are implied by the program counters: a worker in "prep" has found  *)
(* its queue empty and still holds the queue's m_mtx; a submitter in "walk" *)
(* holds m_setMtx; the owner holds m_waitMtx from "w1" to "wprep".          *)
(***************************************************************************)
EXTENDS Integers, Sequences, FiniteSets, SequencesExt

CONSTANTS
    Queues,         \* the queues, by m_id
    Workers,        \* the threads in m_threads
    Home,           \* worker -> the queue its lambda captured
    Submitters,     \* the threads that call submitTask
    Tasks,          \* the callables, each submitted at most once
    NoTask,         \* an invalid Task
    NoQueue,        \* a null QueuePtr
    WaitFlags,      \* the values of isWaiting the callers use
    IsGraceful,     \* m_isGraceful
    LateCalls,      \* may submitTask be called while ~ThreadPool runs?
    SpuriousWakeups \* the condition variables that wake without a notify

ASSUME QueuesAssumption == Queues \subseteq Nat /\ IsFiniteSet(Queues) /\ Queues # {}
ASSUME HomeAssumption == Home \in [Workers -> Queues]
ASSUME WorkersAssumption == IsFiniteSet(Workers)
ASSUME TasksAssumption == IsFiniteSet(Tasks) /\ NoTask \notin Tasks
ASSUME NoQueueAssumption == NoQueue \notin Queues
ASSUME FlagsAssumption ==
    /\ WaitFlags \subseteq BOOLEAN
    /\ IsGraceful \in BOOLEAN
    /\ LateCalls \in BOOLEAN
    /\ SpuriousWakeups \subseteq {"SafeQueue::m_cv", "QueueDispatch::m_cv", "m_waitCv"}

VARIABLES
    m_set,              \* QueueDispatch::m_set in its order
    m_tasks,            \* queue -> SafeQueue::m_tasks
    m_abort,            \* queue -> SafeQueue::m_abort
    m_map,              \* the workers QueueDispatch::m_map knows
    m_jobCount,
    m_runningJobCount,
    m_shutDown,
    m_isInitialized,
    wpc,                \* worker -> where it is in process()
    wtask,              \* worker -> its local task
    spc,                \* submitter -> where it is in submitTask
    stask,              \* submitter -> the task it is submitting
    swait,              \* submitter -> the isWaiting of that call
    squeue,             \* submitter -> the queue it has extracted
    walk,               \* the descent of m_set.insert under m_setMtx
    futures,            \* submitter -> the waiting futures it holds
    opc,                \* where the owner is in the constructor or destructor
    toAbort,            \* the entries of m_map clear() has still to visit
    abortQ,             \* the queue signalAbort has still to notify
    stage               \* task -> how far it has come (history)

queueVars == <<m_tasks, m_abort>>
workerVars == <<wpc, wtask, m_map>>
callVars == <<spc, stask, swait, squeue, futures>>
setVars == <<m_set, walk>>
countVars == <<m_jobCount, m_runningJobCount>>
ownerVars == <<opc, toAbort, abortQ, m_shutDown, m_isInitialized>>
vars == <<queueVars, workerVars, callVars, setVars, countVars, ownerVars, stage>>

Stages == {"new", "rejected", "called", "counted", "queued", "popped",
           "started", "running", "done"}

\* What a task that was accepted and has not run yet may be at.
Unfinished == {"called", "counted", "queued", "popped", "started", "running"}

\* Between m_jobCount++ and m_jobCount--.
InJobCount == {"counted", "queued", "popped"}

\* Every worker is in exactly one place of process() or of SafeQueue::pop.
WorkerPlaces == {"boot", "loop", "pop", "prep", "blocked", "count", "countup",
                 "run", "countdown", "notify", "exit"}
SubmitterPlaces == {"idle", "count", "extract", "setblocked", "push", "insert", "walk"}
OwnerPlaces == {"ctor", "open", "w1", "w2", "wprep", "wblocked", "flag", "flagged",
                "clear", "notify", "join", "dead"}

\* A descent that has narrowed its gap to [lo, hi) and compares nothing yet.
Gap(lo, hi) ==
    [lo |-> lo, hi |-> hi, lhs |-> NoQueue, rhs |-> NoQueue, at |-> 1, reads |-> <<>>]

NoWalk == Gap(1, 1)

TypeOK ==
    /\ m_set \in Seq(Queues)
    /\ m_tasks \in [Queues -> Seq(Tasks)]
    /\ m_abort \in [Queues -> BOOLEAN]
    /\ m_map \in SUBSET Workers
    /\ m_jobCount \in Int
    /\ m_runningJobCount \in Int
    /\ m_shutDown \in BOOLEAN
    /\ m_isInitialized \in BOOLEAN
    /\ wpc \in [Workers -> WorkerPlaces]
    /\ wtask \in [Workers -> Tasks \union {NoTask}]
    /\ spc \in [Submitters -> SubmitterPlaces]
    /\ stask \in [Submitters -> Tasks \union {NoTask}]
    /\ swait \in [Submitters -> BOOLEAN]
    /\ squeue \in [Submitters -> Queues \union {NoQueue}]
    /\ walk \in [lo : Nat, hi : Nat, at : Nat, reads : Seq(Nat),
                 lhs : Queues \union {NoQueue}, rhs : Queues \union {NoQueue}]
    /\ futures \in [Submitters -> SUBSET Tasks]
    /\ opc \in OwnerPlaces
    /\ toAbort \in SUBSET Workers
    /\ abortQ \in Queues \union {NoQueue}
    /\ stage \in [Tasks -> Stages]

Init ==
    /\ m_set \in {order \in [1 .. Cardinality(Queues) -> Queues] :
                   \A i, j \in DOMAIN order : i < j => order[i] < order[j]}
    /\ m_tasks = [q \in Queues |-> <<>>]
    /\ m_abort = [q \in Queues |-> FALSE]
    /\ m_map = {}
    /\ m_jobCount = 0
    /\ m_runningJobCount = 0
    /\ m_shutDown = FALSE
    /\ m_isInitialized = FALSE
    /\ wpc = [w \in Workers |-> "boot"]
    /\ wtask = [w \in Workers |-> NoTask]
    /\ spc = [s \in Submitters |-> "idle"]
    /\ stask = [s \in Submitters |-> NoTask]
    /\ swait = [s \in Submitters |-> FALSE]
    /\ squeue = [s \in Submitters |-> NoQueue]
    /\ walk = NoWalk
    /\ futures = [s \in Submitters |-> {}]
    /\ opc = "ctor"
    /\ toAbort = {}
    /\ abortQ = NoQueue
    /\ stage = [t \in Tasks |-> "new"]

-----------------------------------------------------------------------------
(* Locks and condition variables                                            *)

\* Slip: size and push without m_mtx.
QueueUnlocked(q) == TRUE
QueueFree(q) == \A w \in Workers : Home[w] = q => wpc[w] # "prep"
SetFree == \A s \in Submitters : spc[s] # "walk"

Sleepers(q) == {w \in Workers : wpc[w] = "blocked" /\ Home[w] = q}
SetSleepers == {s \in Submitters : spc[s] = "setblocked"}

\* SafeQueue::m_size: push and pop keep it with m_tasks under m_mtx.
\* Slip: pop counts down once more than push counted up.
SizeOffByOne(q) == Len(m_tasks[q]) - 1
CurrentSize(q) == Len(m_tasks[q])

\* Slip: push forgets its notify.
NotifyNobody(q) == UNCHANGED wpc

\* m_cv.notify_one() of queue q: one sleeper, if any, goes on to take m_mtx.
NotifyOne(q) ==
    \/ /\ Sleepers(q) = {}
       /\ UNCHANGED wpc
    \/ \E w \in Sleepers(q) : wpc' = [wpc EXCEPT ![w] = "pop"]

\* m_cv.notify_all() of queue q.
NotifyAll(q) == wpc' = [w \in Workers |-> IF w \in Sleepers(q) THEN "pop" ELSE wpc[w]]

-----------------------------------------------------------------------------
(* A worker: the thread lambda, process() and SafeQueue::pop                *)

\* The worker changes nothing but its place.
OnlyMoves == UNCHANGED <<queueVars, wtask, m_map, callVars, setVars, countVars, ownerVars, stage>>

\* assignThreadIdToQueue.  clear() iterates m_map under the map's exclusive lock.
Register(w) ==
    /\ wpc[w] = "boot"
    /\ opc \notin {"clear", "notify"}
    /\ m_map' = m_map \union {w}
    /\ wpc' = [wpc EXCEPT ![w] = "loop"]
    /\ UNCHANGED <<queueVars, wtask, callVars, setVars, countVars, ownerVars, stage>>

Exit(w) ==
    /\ wpc[w] = "loop"
    /\ m_shutDown
    /\ wpc' = [wpc EXCEPT ![w] = "exit"]
    /\ OnlyMoves

\* Slip: process() does not look at m_shutDown again.
EnterUnchecked(w) ==
    /\ wpc[w] = "loop"
    /\ m_isInitialized
    /\ wpc' = [wpc EXCEPT ![w] = "pop"]
    /\ OnlyMoves

\* Past both flags: extractTaskByThreadId finds the worker's own queue.
Enter(w) ==
    /\ wpc[w] = "loop"
    /\ ~m_shutDown
    /\ m_isInitialized
    /\ wpc' = [wpc EXCEPT ![w] = "pop"]
    /\ OnlyMoves

\* The predicate holds because of m_abort: pop returns false, the task is invalid.
PopAborted(w) ==
    /\ wpc[w] = "pop"
    /\ QueueFree(Home[w])
    /\ m_abort[Home[w]]
    /\ wpc' = [wpc EXCEPT ![w] = "loop"]
    /\ OnlyMoves

\* Slip: front() without pop().
AfterFront(tasks) == tasks
AfterPop(tasks) == Tail(tasks)

PopTask(w) ==
    LET q == Home[w] IN
    /\ wpc[w] = "pop"
    /\ QueueFree(q)
    /\ ~m_abort[q]
    /\ m_tasks[q] # <<>>
    /\ wtask' = [wtask EXCEPT ![w] = Head(m_tasks[q])]
    /\ m_tasks' = [m_tasks EXCEPT ![q] = AfterPop(@)]
    /\ stage' = [stage EXCEPT ![Head(m_tasks[q])] = "popped"]
    /\ wpc' = [wpc EXCEPT ![w] = "count"]
    /\ UNCHANGED <<m_abort, m_map, callVars, setVars, countVars, ownerVars>>

\* The predicate is false; the worker has not yet released m_mtx to sleep.
PopWait(w) ==
    /\ wpc[w] = "pop"
    /\ QueueFree(Home[w])
    /\ ~m_abort[Home[w]]
    /\ m_tasks[Home[w]] = <<>>
    /\ wpc' = [wpc EXCEPT ![w] = "prep"]
    /\ OnlyMoves

Block(w) ==
    /\ wpc[w] = "prep"
    /\ wpc' = [wpc EXCEPT ![w] = "blocked"]
    /\ OnlyMoves

WakeWorker(w) ==
    /\ "SafeQueue::m_cv" \in SpuriousWakeups
    /\ wpc[w] = "blocked"
    /\ wpc' = [wpc EXCEPT ![w] = "pop"]
    /\ OnlyMoves

\* m_jobCount--
CountDown(w) ==
    /\ wpc[w] = "count"
    /\ m_jobCount' = m_jobCount - 1
    /\ wpc' = [wpc EXCEPT ![w] = "countup"]
    /\ stage' = [stage EXCEPT ![wtask[w]] = "started"]
    /\ UNCHANGED <<queueVars, wtask, m_map, callVars, setVars, m_runningJobCount, ownerVars>>

\* m_runningJobCount++
CountUp(w) ==
    /\ wpc[w] = "countup"
    /\ m_runningJobCount' = m_runningJobCount + 1
    /\ wpc' = [wpc EXCEPT ![w] = "run"]
    /\ stage' = [stage EXCEPT ![wtask[w]] = "running"]
    /\ UNCHANGED <<queueVars, wtask, m_map, callVars, setVars, m_jobCount, ownerVars>>

\* task() returns and its future is ready.
Run(w) ==
    /\ wpc[w] = "run"
    /\ wpc' = [wpc EXCEPT ![w] = "countdown"]
    /\ stage' = [stage EXCEPT ![wtask[w]] = "done"]
    /\ UNCHANGED <<queueVars, wtask, m_map, callVars, setVars, countVars, ownerVars>>

\* m_runningJobCount--
CountRun(w) ==
    /\ wpc[w] = "countdown"
    /\ m_runningJobCount' = m_runningJobCount - 1
    /\ wpc' = [wpc EXCEPT ![w] = "notify"]
    /\ UNCHANGED <<queueVars, wtask, m_map, callVars, setVars, m_jobCount, ownerVars, stage>>

\* m_waitCv.notify_one(): only an owner already asleep hears it.
NotifyWaiter(w) ==
    /\ wpc[w] = "notify"
    /\ opc' = IF opc = "wblocked" THEN "w1" ELSE opc
    /\ wpc' = [wpc EXCEPT ![w] = "loop"]
    /\ wtask' = [wtask EXCEPT ![w] = NoTask]
    /\ UNCHANGED <<queueVars, m_map, callVars, setVars, countVars, toAbort, abortQ,
                   m_shutDown, m_isInitialized, stage>>

WorkerStep(w) ==
    \/ Register(w) \/ Exit(w) \/ Enter(w)
    \/ PopAborted(w) \/ PopTask(w) \/ PopWait(w) \/ Block(w)
    \/ CountDown(w) \/ CountUp(w) \/ Run(w) \/ CountRun(w) \/ NotifyWaiter(w)

-----------------------------------------------------------------------------
(* A submitter: submitTask, pushTaskToLeastBusy and the futures             *)

CanCall(s) ==
    /\ spc[s] = "idle"
    /\ opc = "open" \/ (LateCalls /\ opc \notin {"ctor", "dead"})

\* submitTask returns a default future, which waits for nothing.
SubmitRejected(s, t) ==
    /\ CanCall(s)
    /\ stage[t] = "new"
    /\ m_shutDown \/ ~m_isInitialized
    /\ stage' = [stage EXCEPT ![t] = "rejected"]
    /\ UNCHANGED <<queueVars, workerVars, callVars, setVars, countVars, ownerVars>>

\* Past the flags, which are read only once.
SubmitAccepted(s, t, isWaiting) ==
    /\ CanCall(s)
    /\ stage[t] = "new"
    /\ ~m_shutDown
    /\ m_isInitialized
    /\ stage' = [stage EXCEPT ![t] = "called"]
    /\ stask' = [stask EXCEPT ![s] = t]
    /\ swait' = [swait EXCEPT ![s] = isWaiting]
    /\ spc' = [spc EXCEPT ![s] = "count"]
    /\ UNCHANGED <<queueVars, workerVars, squeue, futures, setVars, countVars, ownerVars>>

\* m_jobCount++ in submitTask.
\* Slip: the increment is left out.
JobForgotten == UNCHANGED m_jobCount
JobSubmitted == m_jobCount' = m_jobCount + 1

Count(s) ==
    /\ spc[s] = "count"
    /\ JobSubmitted
    /\ stage' = [stage EXCEPT ![stask[s]] = "counted"]
    /\ spc' = [spc EXCEPT ![s] = "extract"]
    /\ UNCHANGED <<queueVars, workerVars, stask, swait, squeue, futures, setVars,
                   m_runningJobCount, ownerVars>>

\* Slip: *begin() in place of extract(begin()).
SetAfterPeek == m_set
SetAfterExtract == Tail(m_set)

\* extractLeastBusy takes the first queue of the set.
Extract(s) ==
    /\ spc[s] = "extract"
    /\ SetFree
    /\ m_set # <<>>
    /\ squeue' = [squeue EXCEPT ![s] = Head(m_set)]
    /\ m_set' = SetAfterExtract
    /\ spc' = [spc EXCEPT ![s] = "push"]
    /\ UNCHANGED <<queueVars, workerVars, stask, swait, futures, walk, countVars,
                   ownerVars, stage>>

\* Every queue is in some submitter's hands.  Whoever notifies QueueDispatch::m_cv
\* holds m_setMtx, so finding the set empty and falling asleep is one step.
ExtractWait(s) ==
    /\ spc[s] = "extract"
    /\ SetFree
    /\ m_set = <<>>
    /\ spc' = [spc EXCEPT ![s] = "setblocked"]
    /\ UNCHANGED <<queueVars, workerVars, stask, swait, squeue, futures, setVars,
                   countVars, ownerVars, stage>>

WakeSubmitter(s) ==
    /\ "QueueDispatch::m_cv" \in SpuriousWakeups
    /\ spc[s] = "setblocked"
    /\ spc' = [spc EXCEPT ![s] = "extract"]
    /\ UNCHANGED <<queueVars, workerVars, stask, swait, squeue, futures, setVars,
                   countVars, ownerVars, stage>>

\* SafeQueue::push on the extracted queue.
Push(s) ==
    LET q == squeue[s] IN
    /\ spc[s] = "push"
    /\ QueueFree(q)
    /\ m_tasks' = [m_tasks EXCEPT ![q] = Append(@, stask[s])]
    /\ NotifyOne(q)
    /\ stage' = [stage EXCEPT ![stask[s]] = "queued"]
    /\ spc' = [spc EXCEPT ![s] = "insert"]
    /\ UNCHANGED <<m_abort, wtask, m_map, stask, swait, squeue, futures, setVars,
                   countVars, ownerVars>>

-----------------------------------------------------------------------------
(* insertQueue: std::set::insert under m_setMtx, ordered by QueueCompare.   *)
(* The descent keeps the gap [lo, hi) the new element belongs to, compares  *)
(* it with one element of the gap after the other, and at the end asks      *)
(* whether the element before the gap is really less than the new one: if   *)
(* not the two count as equivalent and nothing is inserted.  Each comparison*)
(* reads the sizes of two queues that workers may be popping from.          *)

InsertBegin(s) ==
    /\ spc[s] = "insert"
    /\ SetFree
    /\ walk' = Gap(1, Len(m_set) + 1)
    /\ spc' = [spc EXCEPT ![s] = "walk"]
    /\ UNCHANGED <<queueVars, workerVars, stask, swait, squeue, futures, m_set,
                   countVars, ownerVars, stage>>

\* The tree's shape decides which element of the gap is next: any of them.
StartCompare(s) ==
    /\ spc[s] = "walk"
    /\ walk.lhs = NoQueue
    /\ \/ \E k \in walk.lo .. walk.hi - 1 :
             walk' = [walk EXCEPT !.lhs = squeue[s], !.rhs = m_set[k], !.at = k]
       \/ /\ walk.lo = walk.hi
          /\ walk.lo > 1
          /\ walk' = [walk EXCEPT !.lhs = m_set[walk.lo - 1], !.rhs = squeue[s],
                                  !.at = walk.lo - 1]
    /\ UNCHANGED <<queueVars, workerVars, callVars, m_set, countVars, ownerVars, stage>>

\* QueueCompare has read enough: equal sizes, or a second pair of reads.
Compared(reads) == Len(reads) = 4 \/ (Len(reads) = 2 /\ reads[1] = reads[2])

\* What QueueCompare(lhs, rhs) returns.
QueueLess(lhs, rhs, reads) ==
    IF Len(reads) = 4 THEN reads[3] < reads[4] ELSE lhs < rhs

\* getCurrentSize() of the queue QueueCompare reads next.
ReadSize(s) ==
    LET q == IF Len(walk.reads) % 2 = 0 THEN walk.lhs ELSE walk.rhs IN
    /\ spc[s] = "walk"
    /\ walk.lhs # NoQueue
    /\ ~Compared(walk.reads)
    /\ QueueFree(q)
    /\ walk' = [walk EXCEPT !.reads = Append(@, CurrentSize(q))]
    /\ UNCHANGED <<queueVars, workerVars, callVars, m_set, countVars, ownerVars, stage>>

Descend(s) ==
    /\ spc[s] = "walk"
    /\ walk.lo < walk.hi
    /\ walk.lhs # NoQueue
    /\ Compared(walk.reads)
    /\ walk' = IF QueueLess(walk.lhs, walk.rhs, walk.reads)
               THEN Gap(walk.lo, walk.at)
               ELSE Gap(walk.at + 1, walk.hi)
    /\ UNCHANGED <<queueVars, workerVars, callVars, m_set, countVars, ownerVars, stage>>

\* Slip: insertQueue does not notify.
LeaveSilently(s) == spc' = [spc EXCEPT ![s] = "idle"]

\* m_cv.notify_one() of the dispatch, and s leaves submitTask.
LeaveSubmit(s) ==
    \/ /\ SetSleepers = {}
       /\ spc' = [spc EXCEPT ![s] = "idle"]
    \/ \E x \in SetSleepers : spc' = [spc EXCEPT ![s] = "idle", ![x] = "extract"]

\* What m_set.insert makes of the set once the gap has closed at walk.lo.
SetAfterInsert(q) ==
    IF walk.lo = 1 \/ QueueLess(walk.lhs, walk.rhs, walk.reads)
    THEN InsertAt(m_set, walk.lo, q)
    ELSE m_set

\* m_set.insert returns, m_cv.notify_one(), and submitTask hands out the future.
FinishInsert(s) ==
    /\ spc[s] = "walk"
    /\ walk.lo = walk.hi
    /\ walk.lo = 1 \/ (walk.lhs # NoQueue /\ Compared(walk.reads))
    /\ m_set' = SetAfterInsert(squeue[s])
    /\ walk' = NoWalk
    /\ LeaveSubmit(s)
    /\ futures' = [futures EXCEPT ![s] = IF swait[s] THEN @ \union {stask[s]} ELSE @]
    /\ squeue' = [squeue EXCEPT ![s] = NoQueue]
    /\ stask' = [stask EXCEPT ![s] = NoTask]
    /\ swait' = [swait EXCEPT ![s] = FALSE]
    /\ UNCHANGED <<queueVars, workerVars, countVars, ownerVars, stage>>

\* ~WaitableFuture for every future s holds.  Tasks that die with a dead pool
\* leave broken promises, which end the wait too.
DestroyFutures(s) ==
    /\ spc[s] = "idle"
    /\ futures[s] # {}
    /\ \A t \in futures[s] : stage[t] = "done" \/ opc = "dead"
    /\ futures' = [futures EXCEPT ![s] = {}]
    /\ UNCHANGED <<queueVars, workerVars, spc, stask, swait, squeue, setVars, countVars,
                   ownerVars, stage>>

\* What s does without being asked.
SubmitterStep(s) ==
    \/ Count(s) \/ Extract(s) \/ ExtractWait(s) \/ Push(s) \/ InsertBegin(s)
    \/ StartCompare(s) \/ ReadSize(s) \/ Descend(s) \/ FinishInsert(s)
    \/ DestroyFutures(s)

-----------------------------------------------------------------------------
(* The owner: the end of the constructor, and the destructor                *)

FinishCtor ==
    /\ opc = "ctor"
    /\ m_isInitialized' = TRUE
    /\ opc' = "open"
    /\ UNCHANGED <<queueVars, workerVars, callVars, setVars, countVars, toAbort, abortQ,
                   m_shutDown, stage>>

\* ~ThreadPool starts.  Without LateCalls nobody is inside submitTask or holds a
\* waiting future by then.
Destroy ==
    /\ opc = "open"
    /\ LateCalls \/ \A s \in Submitters : spc[s] = "idle" /\ futures[s] = {}
    /\ opc' = IF IsGraceful THEN "w1" ELSE "flag"
    /\ UNCHANGED <<queueVars, workerVars, callVars, setVars, countVars, toAbort, abortQ,
                   m_shutDown, m_isInitialized, stage>>

\* The owner changes nothing but its place.
OwnerOnlyMoves == UNCHANGED <<queueVars, workerVars, callVars, setVars, countVars, toAbort,
                              abortQ, m_shutDown, m_isInitialized, stage>>

\* Slip: the predicate leaves m_jobCount out.
JobsIgnored == TRUE
NoJobs == m_jobCount = 0

\* waitForAll: m_jobCount == 0 ...
ReadJobs ==
    /\ opc = "w1"
    /\ opc' = IF NoJobs THEN "w2" ELSE "wprep"
    /\ OwnerOnlyMoves

\* ... && m_runningJobCount == 0, read later.
ReadRunning ==
    /\ opc = "w2"
    /\ opc' = IF m_runningJobCount = 0 THEN "flag" ELSE "wprep"
    /\ OwnerOnlyMoves

WaitBlock ==
    /\ opc = "wprep"
    /\ opc' = "wblocked"
    /\ OwnerOnlyMoves

WakeOwner ==
    /\ "m_waitCv" \in SpuriousWakeups
    /\ opc = "wblocked"
    /\ opc' = "w1"
    /\ OwnerOnlyMoves

Flag ==
    /\ opc = "flag"
    /\ m_shutDown' = TRUE
    /\ opc' = "flagged"
    /\ UNCHANGED <<queueVars, workerVars, callVars, setVars, countVars, toAbort, abortQ,
                   m_isInitialized, stage>>

\* clear() locks m_map and starts to iterate it.
ClearBegin ==
    /\ opc = "flagged"
    /\ toAbort' = m_map
    /\ opc' = "clear"
    /\ UNCHANGED <<queueVars, workerVars, callVars, setVars, countVars, abortQ, m_shutDown,
                   m_isInitialized, stage>>

\* signalAbort: the store ...
AbortStore(w) ==
    /\ opc = "clear"
    /\ w \in toAbort
    /\ toAbort' = toAbort \ {w}
    /\ abortQ' = Home[w]
    /\ m_abort' = [m_abort EXCEPT ![Home[w]] = TRUE]
    /\ opc' = "notify"
    /\ UNCHANGED <<m_tasks, workerVars, callVars, setVars, countVars, m_shutDown,
                   m_isInitialized, stage>>

\* ... and, without m_mtx in between, the notify_all.
AbortNotify ==
    /\ opc = "notify"
    /\ NotifyAll(abortQ)
    /\ abortQ' = NoQueue
    /\ opc' = "clear"
    /\ UNCHANGED <<queueVars, wtask, m_map, callVars, setVars, countVars, toAbort,
                   m_shutDown, m_isInitialized, stage>>

ClearDone ==
    /\ opc = "clear"
    /\ toAbort = {}
    /\ opc' = "join"
    /\ OwnerOnlyMoves

\* All threads joined; whoever is still inside submitTask may not outlive the pool.
Join ==
    /\ opc = "join"
    /\ \A w \in Workers : wpc[w] = "exit"
    /\ \A s \in Submitters : spc[s] = "idle"
    /\ opc' = "dead"
    /\ m_isInitialized' = FALSE
    /\ UNCHANGED <<queueVars, workerVars, callVars, setVars, countVars, toAbort, abortQ,
                   m_shutDown, stage>>

OwnerStep ==
    \/ FinishCtor \/ ReadJobs \/ ReadRunning \/ WaitBlock \/ Flag
    \/ ClearBegin \/ (\E w \in Workers : AbortStore(w)) \/ AbortNotify \/ ClearDone \/ Join

Next ==
    \/ \E w \in Workers : WorkerStep(w) \/ WakeWorker(w)
    \/ \E s \in Submitters : SubmitterStep(s) \/ WakeSubmitter(s)
    \/ \E s \in Submitters, t \in Tasks :
          SubmitRejected(s, t) \/ \E isWaiting \in WaitFlags : SubmitAccepted(s, t, isWaiting)
    \/ OwnerStep \/ Destroy \/ WakeOwner

SafeSpec == Init /\ [][Next]_vars

\* A thread that can take a step takes one: every std::thread is scheduled.  Nobody
\* has to call submitTask or to destroy the pool.
Fairness ==
    /\ \A w \in Workers : WF_vars(WorkerStep(w))
    /\ \A s \in Submitters : WF_vars(SubmitterStep(s))
    /\ WF_vars(OwnerStep)

Spec == SafeSpec /\ Fairness

-----------------------------------------------------------------------------
(* Properties                                                               *)

TasksAt(places) == {t \in Tasks : stage[t] \in places}
WorkersAt(places) == {w \in Workers : wpc[w] \in places}

\* m_jobCount is the number of tasks between submitTask's increment and the worker's
\* decrement, m_runningJobCount that of the workers around task(): neither atomic
\* drifts or goes below zero, whatever the order of submitters and workers.
JobAccounting ==
    /\ m_jobCount = Cardinality(TasksAt(InJobCount))
    /\ m_runningJobCount = Cardinality(WorkersAt({"run", "countdown"}))

\* Once waitForAll has seen m_jobCount at zero no task is left in a queue or on its
\* way into one, and when the destructor has returned none is left undone at all:
\* the task that slipped between the two counters is waited for by the join.
GracefulDrain ==
    (IsGraceful /\ ~LateCalls) =>
      /\ opc \in {"w2", "flag", "flagged", "clear", "notify", "join", "dead"} =>
            /\ TasksAt({"called", "counted", "queued", "popped"}) = {}
            /\ \A q \in Queues : m_tasks[q] = <<>>
      /\ opc = "dead" => TasksAt(Unfinished) = {}

\* A task sits in one queue once, or in the hands of one thread: pushes, pops and
\* wakeups of several threads neither duplicate nor drop it.
QueuedOnce ==
    \A t \in Tasks :
      /\ stage[t] = "queued" =>
           \E q \in Queues, i \in 1 .. Cardinality(Tasks) :
             \A p \in Queues : \A j \in DOMAIN m_tasks[p] :
               (m_tasks[p][j] = t) <=> (p = q /\ j = i)
      /\ stage[t] \in {"popped", "started", "running"} =>
           \E w \in Workers : \A v \in Workers : (wtask[v] = t) <=> (v = w)

\* A queue that a submitter has extracted is out of the set and nobody else has it;
\* and though an insert into m_set may lose its queue, when QueueCompare finds two
\* queues equivalent while a worker pops, some queue is always left to push to.
SetNeverStarves ==
    /\ \A s, r \in Submitters : (s # r /\ squeue[s] # NoQueue) => squeue[s] # squeue[r]
    /\ \A s \in Submitters, i \in DOMAIN m_set : m_set[i] # squeue[s]
    /\ m_set # <<>> \/ \E s \in Submitters : squeue[s] # NoQueue

\* While a worker of a queue sleeps, every task in the queue has a worker of its own on
\* the way to it: SafeQueue::push notifies under m_mtx, so its wakeup cannot fall between
\* a worker's predicate and its sleep, and workers that come by themselves only help.
NoTaskOverslept ==
    \A q \in Queues :
      (Sleepers(q) # {} /\ ~m_abort[q]) =>
        Len(m_tasks[q]) <= Cardinality({w \in WorkersAt({"pop"}) : Home[w] = q})

\* Once clear() is through, no worker takes a task any more, not even one whose thread
\* registered too late for clear() to find its queue: m_shutDown was set before.
NoPopAfterClear ==
    [][(opc \in {"join", "dead"}) => (TasksAt({"queued"}) \subseteq TasksAt({"queued"})')]_vars

\* A submitter that finds every queue taken gets one.
SubmitterServed == \A s \in Submitters : spc[s] = "setblocked" ~> spc[s] = "push"

\* A destructor in waitForAll gets out of it.
WaitForAllReturns == opc \in {"w1", "w2", "wprep", "wblocked"} ~> opc = "flag"

\* The status each task has for the callers of the pool.
StatusOf(t) ==
    CASE stage[t] \in {"new", "rejected"} -> "new"
      [] stage[t] \in Unfinished -> "accepted"
      [] OTHER -> "done"

\* The waiting futures of s, the one submitTask is about to return included.
PendingOf(s) == futures[s] \union {t \in {stask[s]} : swait[s]}

Promise == INSTANCE TaskPool WITH
    status <- [t \in Tasks |-> StatusOf(t)],
    pending <- [s \in Submitters |-> PendingOf(s)],
    isOpen <- opc # "dead"

\* A graceful pool nobody calls late implements TaskPool: tasks run once, waiting
\* futures return after them, and the destructor returns with nothing left undone.
ImplementsTaskPool == Promise!Spec
=============================================================================

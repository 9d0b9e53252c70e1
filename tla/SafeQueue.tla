------------------------------ MODULE SafeQueue ------------------------------
(***************************************************************************)
(* core::SafeQueue: the monitor under every hand-over of work in the        *)
(* program, from the pool's dispatch to its workers and from the server's   *)
(* accept thread to its readers.                                            *)
(*                                                                          *)
(* m_mtx is implied by the consumers' places: "prep" is the consumer that   *)
(* has found the predicate of pop false and still holds the mutex; every    *)
(* other critical section is one step.                                      *)
(***************************************************************************)
EXTENDS Naturals, Sequences, FiniteSets

CONSTANTS
    Consumers,          \* the threads that call pop, again and again
    Values,             \* what producers push
    MaxPushes,          \* bound: how many pushes a behaviour has
    SpuriousWakeups     \* does m_cv wake sleepers without a notify?

ASSUME ConsumersAssumption == IsFiniteSet(Consumers)
ASSUME MaxPushesAssumption == MaxPushes \in Nat
ASSUME SpuriousAssumption == SpuriousWakeups \in BOOLEAN

VARIABLES
    m_tasks,
    m_size,
    m_abort,
    cpc,                \* consumer -> where it is in pop
    apc,                \* where signalAbort is
    popped              \* what pop has handed out, in order (history)

vars == <<m_tasks, m_size, m_abort, cpc, apc, popped>>

\* "out" is a consumer between two calls of pop.
Places == {"out", "pop", "prep", "blocked"}
ConsumersAt(place) == {c \in Consumers : cpc[c] = place}

TypeOK ==
    /\ m_tasks \in Seq(Values)
    /\ m_size \in Nat
    /\ m_abort \in BOOLEAN
    /\ cpc \in [Consumers -> Places]
    /\ apc \in {"before", "store", "after"}
    /\ popped \in Seq(Values)

Init ==
    /\ m_tasks = <<>>
    /\ m_size = 0
    /\ m_abort = FALSE
    /\ cpc = [c \in Consumers |-> "out"]
    /\ apc = "before"
    /\ popped = <<>>

\* Slip: push and the size read without m_mtx.
MutexIgnored == TRUE
MutexFree == ConsumersAt("prep") = {}

\* Slip: push does not notify.
NotifyNobody == UNCHANGED cpc

NotifyOne ==
    \/ ConsumersAt("blocked") = {} /\ UNCHANGED cpc
    \/ \E c \in ConsumersAt("blocked") : cpc' = [cpc EXCEPT ![c] = "pop"]

NotifyAll == cpc' = [c \in Consumers |-> IF cpc[c] = "blocked" THEN "pop" ELSE cpc[c]]

\* Slip: push does not count.
SizeKept == m_size
SizeAfterPush == m_size + 1

Push(v) ==
    /\ Len(popped) + Len(m_tasks) < MaxPushes
    /\ MutexFree
    /\ m_tasks' = Append(m_tasks, v)
    /\ m_size' = SizeAfterPush
    /\ NotifyOne
    /\ UNCHANGED <<m_abort, apc, popped>>

CallPop(c) ==
    /\ cpc[c] = "out"
    /\ cpc' = [cpc EXCEPT ![c] = "pop"]
    /\ UNCHANGED <<m_tasks, m_size, m_abort, apc, popped>>

\* pop gives up although there may be something to take.
PopAborted(c) ==
    /\ cpc[c] = "pop"
    /\ MutexFree
    /\ m_abort
    /\ cpc' = [cpc EXCEPT ![c] = "out"]
    /\ UNCHANGED <<m_tasks, m_size, m_abort, apc, popped>>

\* Slip: a stack in place of a queue.
RestAfterLast(tasks) == SubSeq(tasks, 1, Len(tasks) - 1)
RestAfterFront(tasks) == Tail(tasks)

PopFront(c) ==
    /\ cpc[c] = "pop"
    /\ MutexFree
    /\ ~m_abort
    /\ m_tasks # <<>>
    /\ popped' = Append(popped, Head(m_tasks))
    /\ m_tasks' = RestAfterFront(m_tasks)
    /\ m_size' = m_size - 1
    /\ cpc' = [cpc EXCEPT ![c] = "out"]
    /\ UNCHANGED <<m_abort, apc>>

\* The predicate is false, and m_mtx not yet released.
PopWait(c) ==
    /\ cpc[c] = "pop"
    /\ MutexFree
    /\ ~m_abort
    /\ m_tasks = <<>>
    /\ cpc' = [cpc EXCEPT ![c] = "prep"]
    /\ UNCHANGED <<m_tasks, m_size, m_abort, apc, popped>>

Block(c) ==
    /\ cpc[c] = "prep"
    /\ cpc' = [cpc EXCEPT ![c] = "blocked"]
    /\ UNCHANGED <<m_tasks, m_size, m_abort, apc, popped>>

Wake(c) ==
    /\ SpuriousWakeups
    /\ cpc[c] = "blocked"
    /\ cpc' = [cpc EXCEPT ![c] = "pop"]
    /\ UNCHANGED <<m_tasks, m_size, m_abort, apc, popped>>

\* signalAbort takes no lock: a store, and a notify later.
AbortStore ==
    /\ apc = "before"
    /\ m_abort' = TRUE
    /\ apc' = "store"
    /\ UNCHANGED <<m_tasks, m_size, cpc, popped>>

AbortNotify ==
    /\ apc = "store"
    /\ NotifyAll
    /\ apc' = "after"
    /\ UNCHANGED <<m_tasks, m_size, m_abort, popped>>

ConsumerStep(c) == CallPop(c) \/ PopAborted(c) \/ PopFront(c) \/ PopWait(c) \/ Block(c)

Next ==
    \/ \E v \in Values : Push(v)
    \/ \E c \in Consumers : ConsumerStep(c) \/ Wake(c)
    \/ AbortStore
    \/ AbortNotify

SafeSpec == Init /\ [][Next]_vars

\* Consumers are loops around pop, and a call of signalAbort that has begun ends.
Fairness ==
    /\ \A c \in Consumers : WF_vars(ConsumerStep(c))
    /\ WF_vars(AbortNotify)

Spec == SafeSpec /\ Fairness

-----------------------------------------------------------------------------

\* m_size, which QueueCompare and isEmpty read in place of m_tasks, never drifts.
SizeIsLength == m_size = Len(m_tasks)

\* While a consumer sleeps, every task has a consumer of its own on the way to it: no
\* push is lost between a consumer's predicate and its sleep, whoever comes first.
NoLostPush ==
    (ConsumersAt("blocked") # {} /\ ~m_abort) => Len(m_tasks) <= Cardinality(ConsumersAt("pop"))

\* SafeQueue implements FifoChannel.
Fifo == INSTANCE FifoChannel WITH
    sent <- popped \o m_tasks, received <- popped, closed <- m_abort

\* Order and uniqueness of what is popped; with consumers that keep calling pop, what is
\* pushed into a queue nobody aborts comes out.
ImplementsFifo == Fifo!Spec
=============================================================================

--------------------------- MODULE SafeQueueProofs ---------------------------
(***************************************************************************)
(* What holds of core::SafeQueue for every number of consumers, values and  *)
(* pushes: its types, that no push is lost on a sleeping consumer, and that *)
(* it implements FifoChannel.                                               *)
(***************************************************************************)
EXTENDS SafeQueue, FiniteSetTheorems, TLAPS

\* A consumer about to sleep has m_mtx and has found nothing to take.
PrepFoundEmpty == ConsumersAt("prep") # {} => m_tasks = <<>>

IInv == TypeOK /\ SizeIsLength /\ PrepFoundEmpty /\ NoLostPush

-----------------------------------------------------------------------------
(* Consumers at a place                                                     *)

\* The consumers at any place are finitely many.
LEMMA AtFinite ==
  ASSUME NEW place
  PROVE  /\ IsFiniteSet(ConsumersAt(place))
         /\ Cardinality(ConsumersAt(place)) \in Nat
<1>1. ConsumersAt(place) \subseteq Consumers  BY DEF ConsumersAt
<1>2. IsFiniteSet(ConsumersAt(place))  BY <1>1, ConsumersAssumption, FS_Subset
<1> QED  BY <1>2, FS_CardinalityType

\* A consumer that moves from one place to another leaves the first set, joins the second.
LEMMA Moved ==
  ASSUME TypeOK, NEW c \in Consumers, NEW from, NEW to, from # to,
         cpc[c] = from, cpc' = [cpc EXCEPT ![c] = to]
  PROVE  /\ ConsumersAt(from)' = ConsumersAt(from) \ {c}
         /\ ConsumersAt(to)' = ConsumersAt(to) \union {c}
         /\ c \in ConsumersAt(from)
         /\ c \notin ConsumersAt(to)
BY DEF TypeOK, ConsumersAt

\* How many are at "pop" after a consumer came there.
LEMMA PopGrows ==
  ASSUME TypeOK, NEW c \in Consumers, cpc[c] # "pop", cpc' = [cpc EXCEPT ![c] = "pop"]
  PROVE  Cardinality(ConsumersAt("pop"))' = Cardinality(ConsumersAt("pop")) + 1
<1>1. /\ ConsumersAt("pop")' = ConsumersAt("pop") \union {c}
      /\ c \notin ConsumersAt("pop")
  BY Moved
<1> QED  BY <1>1, AtFinite, FS_AddElement

\* How many are at "pop" after a consumer left.
LEMMA PopShrinks ==
  ASSUME TypeOK, NEW c \in Consumers, NEW to, to # "pop",
         cpc[c] = "pop", cpc' = [cpc EXCEPT ![c] = to]
  PROVE  Cardinality(ConsumersAt("pop"))' = Cardinality(ConsumersAt("pop")) - 1
<1>1. /\ ConsumersAt("pop")' = ConsumersAt("pop") \ {c}
      /\ c \in ConsumersAt("pop")
  BY Moved
<1> QED  BY <1>1, AtFinite, FS_RemoveElement

\* An empty queue needs nobody at "pop".
LEMMA AtEmpty ==
  /\ Len(<<>>) <= Cardinality(ConsumersAt("pop"))
  /\ Len(<<>>) <= Cardinality(ConsumersAt("pop"))'
<1>1. Cardinality(ConsumersAt("pop")) \in Nat  BY AtFinite
<1>2. Cardinality(ConsumersAt("pop"))' \in Nat
  <2>1. ConsumersAt("pop")' \subseteq Consumers  BY DEF ConsumersAt
  <2> QED  BY <2>1, ConsumersAssumption, FS_Subset, FS_CardinalityType
<1> QED  BY <1>1, <1>2

-----------------------------------------------------------------------------
(* The inductive invariant                                                  *)

LEMMA InitInv == Init => IInv
<1> SUFFICES ASSUME Init PROVE IInv  OBVIOUS
<1>1. TypeOK
  <2>1. <<>> \in Seq(Values)  OBVIOUS
  <2> QED  BY <2>1 DEF Init, TypeOK, Places
<1>2. ConsumersAt("prep") = {} /\ ConsumersAt("blocked") = {}  BY DEF Init, ConsumersAt
<1> QED  BY <1>1, <1>2 DEF IInv, Init, SizeIsLength, PrepFoundEmpty, NoLostPush

\* Every step keeps the types and the size.
LEMMA NextType == TypeOK /\ SizeIsLength /\ [Next]_vars => TypeOK' /\ SizeIsLength'
<1> SUFFICES ASSUME TypeOK, SizeIsLength, [Next]_vars PROVE TypeOK' /\ SizeIsLength'
  OBVIOUS
<1> USE DEF TypeOK, SizeIsLength, Places
<1>1. ASSUME NEW v \in Values, Push(v) PROVE TypeOK' /\ SizeIsLength'
  <2>1. cpc' \in [Consumers -> Places]  BY <1>1 DEF Push, NotifyOne
  <2> QED  BY <1>1, <2>1 DEF Push, SizeAfterPush
<1>2. ASSUME NEW c \in Consumers, CallPop(c) PROVE TypeOK' /\ SizeIsLength'
  BY <1>2 DEF CallPop
<1>3. ASSUME NEW c \in Consumers, PopAborted(c) PROVE TypeOK' /\ SizeIsLength'
  BY <1>3 DEF PopAborted
<1>4. ASSUME NEW c \in Consumers, PopFront(c) PROVE TypeOK' /\ SizeIsLength'
  <2>1. m_tasks # <<>> /\ m_tasks' = Tail(m_tasks)  BY <1>4 DEF PopFront, RestAfterFront
  <2>2. /\ m_tasks' \in Seq(Values)
        /\ Len(m_tasks') = Len(m_tasks) - 1
        /\ Len(m_tasks) \in Nat \ {0}
        /\ Head(m_tasks) \in Values
    BY <2>1
  <2>3. popped' \in Seq(Values)  BY <1>4, <2>2 DEF PopFront
  <2> QED  BY <1>4, <2>2, <2>3 DEF PopFront
<1>5. ASSUME NEW c \in Consumers, PopWait(c) PROVE TypeOK' /\ SizeIsLength'
  BY <1>5 DEF PopWait
<1>6. ASSUME NEW c \in Consumers, Block(c) PROVE TypeOK' /\ SizeIsLength'
  BY <1>6 DEF Block
<1>7. ASSUME NEW c \in Consumers, Wake(c) PROVE TypeOK' /\ SizeIsLength'
  BY <1>7 DEF Wake
<1>8. CASE AbortStore  BY <1>8 DEF AbortStore
<1>9. CASE AbortNotify  BY <1>9 DEF AbortNotify, NotifyAll
<1>10. CASE UNCHANGED vars  BY <1>10 DEF vars
<1> QED
  BY <1>1, <1>2, <1>3, <1>4, <1>5, <1>6, <1>7, <1>8, <1>9, <1>10 DEF Next, ConsumerStep

\* Every step keeps the other two parts.
LEMMA NextWake == IInv /\ [Next]_vars => PrepFoundEmpty' /\ NoLostPush'
<1> SUFFICES ASSUME IInv, [Next]_vars PROVE PrepFoundEmpty' /\ NoLostPush'
  OBVIOUS
<1>0. TypeOK  BY DEF IInv
<1>a. /\ IsFiniteSet(ConsumersAt("pop"))
      /\ Cardinality(ConsumersAt("pop")) \in Nat
  BY AtFinite
<1>b. Len(m_tasks) \in Nat  BY <1>0 DEF TypeOK
<1>1. ASSUME NEW v \in Values, Push(v) PROVE PrepFoundEmpty' /\ NoLostPush'
  <2>1. ConsumersAt("prep") = {} /\ Len(m_tasks') = Len(m_tasks) + 1 /\ m_abort' = m_abort
    BY <1>1, <1>0 DEF Push, MutexFree, TypeOK
  <2>2. CASE ConsumersAt("blocked") = {} /\ UNCHANGED cpc
    BY <2>1, <2>2 DEF PrepFoundEmpty, NoLostPush, ConsumersAt
  <2>3. ASSUME NEW c \in ConsumersAt("blocked"), cpc' = [cpc EXCEPT ![c] = "pop"]
        PROVE  PrepFoundEmpty' /\ NoLostPush'
    <3>1. c \in Consumers /\ cpc[c] = "blocked"  BY <2>3 DEF ConsumersAt
    <3>2. ConsumersAt("prep")' = {}  BY <2>1, <2>3, <3>1, <1>0 DEF ConsumersAt, TypeOK
    <3>3. Cardinality(ConsumersAt("pop"))' = Cardinality(ConsumersAt("pop")) + 1
      BY <2>3, <3>1, <1>0, PopGrows
    <3>4. ~m_abort => Len(m_tasks) <= Cardinality(ConsumersAt("pop"))
      BY <2>3 DEF IInv, NoLostPush
    <3> QED  BY <1>a, <1>b, <2>1, <3>2, <3>3, <3>4 DEF PrepFoundEmpty, NoLostPush
  <2> QED  BY <1>1, <2>2, <2>3 DEF Push, NotifyOne
<1>2. ASSUME NEW c \in Consumers, CallPop(c) \/ Wake(c) PROVE PrepFoundEmpty' /\ NoLostPush'
  <2>1. /\ cpc[c] \in {"out", "blocked"} /\ cpc' = [cpc EXCEPT ![c] = "pop"]
        /\ UNCHANGED <<m_tasks, m_abort>>
    BY <1>2 DEF CallPop, Wake
  <2>2. ConsumersAt("prep")' = ConsumersAt("prep")  BY <2>1, <1>0 DEF ConsumersAt, TypeOK
  <2>3. Cardinality(ConsumersAt("pop"))' = Cardinality(ConsumersAt("pop")) + 1
    BY <2>1, <1>0, PopGrows
  <2>4. ConsumersAt("blocked")' \subseteq ConsumersAt("blocked")
    BY <2>1, <1>0 DEF ConsumersAt, TypeOK
  <2> QED  BY <1>a, <1>b, <2>1, <2>2, <2>3, <2>4 DEF IInv, PrepFoundEmpty, NoLostPush
<1>3. ASSUME NEW c \in Consumers, PopAborted(c) PROVE PrepFoundEmpty' /\ NoLostPush'
  <2>1. ConsumersAt("prep")' = {}  BY <1>3, <1>0 DEF PopAborted, MutexFree, ConsumersAt, TypeOK
  <2> QED  BY <1>3, <2>1 DEF PopAborted, PrepFoundEmpty, NoLostPush
<1>4. ASSUME NEW c \in Consumers, PopFront(c) PROVE PrepFoundEmpty' /\ NoLostPush'
  <2>1. /\ cpc[c] = "pop" /\ cpc' = [cpc EXCEPT ![c] = "out"]
        /\ ConsumersAt("prep") = {} /\ ~m_abort /\ m_tasks # <<>>
        /\ m_tasks' = Tail(m_tasks)
    BY <1>4 DEF PopFront, MutexFree, RestAfterFront
  <2>2. ConsumersAt("prep")' = {} /\ ConsumersAt("blocked")' = ConsumersAt("blocked")
    BY <2>1, <1>0 DEF ConsumersAt, TypeOK
  <2>3. Cardinality(ConsumersAt("pop"))' = Cardinality(ConsumersAt("pop")) - 1
    BY <2>1, <1>0, PopShrinks
  <2>4. Len(m_tasks') = Len(m_tasks) - 1  BY <2>1, <1>0 DEF TypeOK
  <2> QED  BY <1>a, <1>b, <2>1, <2>2, <2>3, <2>4 DEF IInv, PrepFoundEmpty, NoLostPush
<1>5. ASSUME NEW c \in Consumers, PopWait(c) PROVE PrepFoundEmpty' /\ NoLostPush'
  <2>1. m_tasks' = <<>>  BY <1>5 DEF PopWait
  <2> QED  BY <2>1, AtEmpty DEF PrepFoundEmpty, NoLostPush
<1>6. ASSUME NEW c \in Consumers, Block(c) PROVE PrepFoundEmpty' /\ NoLostPush'
  <2>1. m_tasks' = <<>>  BY <1>6 DEF Block, IInv, PrepFoundEmpty, ConsumersAt
  <2> QED  BY <2>1, AtEmpty DEF PrepFoundEmpty, NoLostPush
<1>7. CASE AbortStore
  BY <1>7 DEF AbortStore, IInv, PrepFoundEmpty, NoLostPush, ConsumersAt
<1>8. CASE AbortNotify
  <2>1. ConsumersAt("blocked")' = {} /\ ConsumersAt("prep")' = ConsumersAt("prep")
    BY <1>8, <1>0 DEF AbortNotify, NotifyAll, ConsumersAt, TypeOK
  <2> QED  BY <1>8, <2>1 DEF AbortNotify, IInv, PrepFoundEmpty, NoLostPush
<1>9. CASE UNCHANGED vars
  BY <1>9 DEF vars, IInv, PrepFoundEmpty, NoLostPush, ConsumersAt
<1> QED
  BY <1>1, <1>2, <1>3, <1>4, <1>5, <1>6, <1>7, <1>8, <1>9 DEF Next, ConsumerStep

-----------------------------------------------------------------------------
(* Theorems                                                                 *)

\* m_tasks, m_size, the consumers' places and what was popped keep their types, and
\* m_size its value, under any interleaving of push, pop and signalAbort.
THEOREM TypeCorrect == SafeSpec => []TypeOK
<1>1. Init => TypeOK /\ SizeIsLength  BY InitInv DEF IInv
<1> QED  BY <1>1, NextType, PTL DEF SafeSpec

LEMMA Invariance == SafeSpec => []IInv
<1>1. IInv /\ [Next]_vars => IInv'
  BY NextType, NextWake DEF IInv
<1> QED  BY InitInv, <1>1, PTL DEF SafeSpec

\* No push is lost on a consumer that is going to sleep, however many there are.
THEOREM NoPushIsLost == SafeSpec => []NoLostPush
<1>1. IInv => NoLostPush  BY DEF IInv
<1> QED  BY Invariance, <1>1, PTL

\* What is pushed comes out once and in order: every step is one of FifoChannel or stutters.
THEOREM FifoRefined == SafeSpec => Fifo!SafeSpec
<1>1. Init => Fifo!Init  BY DEF Init, Fifo!Init
<1>2. IInv /\ [Next]_vars => [Fifo!Next]_Fifo!fifoVars
  <2> SUFFICES ASSUME IInv, [Next]_vars PROVE [Fifo!Next]_Fifo!fifoVars  OBVIOUS
  <2>0. m_tasks \in Seq(Values) /\ popped \in Seq(Values)  BY DEF IInv, TypeOK
  <2>1. ASSUME NEW v \in Values, Push(v) PROVE Fifo!Next
    <3>1. m_tasks' = Append(m_tasks, v) /\ UNCHANGED <<popped, m_abort>>  BY <2>1 DEF Push
    <3>2. popped \o Append(m_tasks, v) = Append(popped \o m_tasks, v)  BY <2>0
    <3> QED  BY <3>1, <3>2 DEF Fifo!Next, Fifo!Send
  <2>2. ASSUME NEW c \in Consumers, PopFront(c) PROVE Fifo!Next
    <3>1. /\ ~m_abort /\ m_tasks # <<>> /\ m_abort' = m_abort
          /\ popped' = Append(popped, Head(m_tasks)) /\ m_tasks' = Tail(m_tasks)
      BY <2>2 DEF PopFront, RestAfterFront
    <3>2. /\ Len(popped) < Len(popped \o m_tasks)
          /\ (popped \o m_tasks)[Len(popped) + 1] = Head(m_tasks)
          /\ Append(popped, Head(m_tasks)) \o Tail(m_tasks) = popped \o m_tasks
      BY <2>0, <3>1
    <3> QED  BY <3>1, <3>2 DEF Fifo!Next, Fifo!Receive
  <2>3. CASE AbortStore  BY <2>3 DEF AbortStore, Fifo!Next, Fifo!Close
  <2>4. ASSUME NEW c \in Consumers,
               CallPop(c) \/ PopAborted(c) \/ PopWait(c) \/ Block(c) \/ Wake(c)
        PROVE  UNCHANGED Fifo!fifoVars
    BY <2>4 DEF CallPop, PopAborted, PopWait, Block, Wake, Fifo!fifoVars
  <2>5. CASE AbortNotify  BY <2>5 DEF AbortNotify, Fifo!fifoVars
  <2>6. CASE UNCHANGED vars  BY <2>6 DEF vars, Fifo!fifoVars
  <2> QED  BY <2>1, <2>2, <2>3, <2>4, <2>5, <2>6 DEF Next, ConsumerStep
<1> QED  BY <1>1, <1>2, Invariance, PTL DEF SafeSpec, Fifo!SafeSpec
=============================================================================

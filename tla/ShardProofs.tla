---------------------------- MODULE ShardProofs ----------------------------
(***************************************************************************)
(* What holds of core::Shard for every number of threads, documents, tokens *)
(* and inserts: its types, that the counts of its two maps are off by what  *)
(* threads owe and by nothing else, and that a document is in DocTrace with *)
(* the number of its entries and with its statistics, for all inserts and   *)
(* erases side by side and with the exceptions Shard names.                 *)
(***************************************************************************)
EXTENDS Shard, FiniteSetTheorems, FunctionTheorems, SequenceTheorems, TLAPS

\* They only group variables.
USE DEF statVars, fateVars

-----------------------------------------------------------------------------
(* Types                                                                    *)

\* An insert has a position the callers insert; an erase that has found a record has
\* changed no map yet; a thread is in DocTrace only as a part of its call.
CallsTyped ==
    \A th \in Threads :
      /\ shpc[th] = "trace" => call[th].pos \in Positions
      /\ shpc[th] = "drop" => found[th] \in DOMAIN heap /\ ~Owes(th)
      /\ shpc[th] \in {"idle", "drop"} => dpc[th] = "idle"

TypeInv == TypeOK /\ CallsTyped

\* The wrapped counts are counts.
LEMMA WrapType ==
  ASSUME NEW n \in Int
  PROVE  Wrap(n) \in 0 .. 2 ^ CountWidth - 1 /\ SizeWrap(n) \in 0 .. 2 ^ SizeWidth - 1
<1> DEFINE C == 2 ^ CountWidth
           S == 2 ^ SizeWidth
<1>1. C \in Nat \ {0} /\ S \in Nat \ {0}  BY WidthAssumption, SizeWidthAssumption
<1> HIDE DEF C, S
<1>2. n % C \in 0 .. C - 1 /\ n % S \in 0 .. S - 1  BY <1>1
<1> QED  BY <1>2 DEF Wrap, SizeWrap, C, S

\* What Owe leaves behind.
LEMMA OweType ==
  ASSUME SizesOK(Maps), NEW th \in Threads, NEW map \in Maps, NEW by \in {-1, 0, 1},
         Owe(th, map, by)
  PROVE  SizesOK(Maps)'
BY DEF SizesOK, Owe

LEMMA InitType == Init => TypeInv
<1> SUFFICES ASSUME Init PROVE TypeInv  OBVIOUS
<1> USE DEF Init
<1>1. DocTypeOK
  <2>1. SizesOK(Maps)
    <3>1. 2 ^ SizeWidth \in Nat \ {0}  BY SizeWidthAssumption
    <3>2. 0 \in 0 .. 2 ^ SizeWidth - 1  BY <3>1
    <3> QED  BY <3>2 DEF DocInit, SizesInit, SizesOK
  <2>2. dangling \in Nat  BY DEF DocInit
  <2>3. freed \in BOOLEAN  BY DEF DocInit
  <2>4. lost \subseteq Views /\ m_stats \subseteq Views  BY DEF DocInit
  <2>5. DOMAIN m_trace = {}  BY DEF DocInit
  <2>6. /\ dpc \in [Threads -> DocPlaces] /\ dpath \in [Threads -> Views]
        /\ hook \in [Threads -> Views]
    BY DEF DocInit, Views, DocPlaces
  <2> QED  BY <2>1, <2>2, <2>3, <2>4, <2>5, <2>6 DEF DocTypeOK
<1>2. call \in [Threads -> [token : Tokens, pos : Nat]]
  <2>1. NoCall \in [token : Tokens, pos : Nat]  BY TokensAssumption DEF NoCall
  <2> QED  BY <2>1
<1>3. inserts \in 0 .. MaxCalls  BY MaxCallsAssumption
<1>4. heap \in Seq(SUBSET Entries) /\ DOMAIN m_record = {}  OBVIOUS
<1> QED  BY <1>1, <1>2, <1>3, <1>4 DEF TypeInv, TypeOK, CallsTyped, DocInit

\* A count that is new, and one that goes up, as the first and the second mutate leave it.
LEMMA IncrementType ==
  ASSUME TypeOK, NEW p \in Views
  PROVE  /\ DOMAIN Incremented(p) \subseteq Views
         /\ \A q \in DOMAIN Incremented(p) : Incremented(p)[q] \in 0 .. 2 ^ CountWidth - 1
         /\ HookFor(p) \in Views
         /\ PushDiff(m_trace, p) \in {-1, 0, 1}
<1>1. 0 \in 0 .. 2 ^ CountWidth - 1  BY WidthAssumption
<1>2. \A q \in DOMAIN m_trace : Wrap(m_trace[q] + 1) \in 0 .. 2 ^ CountWidth - 1
  <2> SUFFICES ASSUME NEW q \in DOMAIN m_trace
               PROVE  Wrap(m_trace[q] + 1) \in 0 .. 2 ^ CountWidth - 1
    OBVIOUS
  <2>1. m_trace[q] + 1 \in Int  BY WidthAssumption DEF TypeOK, DocTypeOK
  <2> QED  BY <2>1, WrapType
<1>3. CASE Contains(m_trace, p)
  <2>1. Incremented(p) = [m_trace EXCEPT ![p] = Wrap(@ + 1)]  BY <1>3 DEF Incremented
  <2> QED  BY <1>2, <1>3, <2>1 DEF TypeOK, DocTypeOK, Contains, HookFor, PushDiff, Views
<1>4. CASE ~Contains(m_trace, p)
  <2>1. Incremented(p) = Inserted(m_trace, p, 0)  BY <1>4 DEF Incremented
  <2> QED  BY <1>1, <1>4, <2>1 DEF TypeOK, DocTypeOK, Inserted, HookFor, PushDiff, Views
<1> QED  BY <1>3, <1>4

\* The same of a count that goes down, or away.
LEMMA DecrementType ==
  ASSUME TypeOK, NEW p \in Views
  PROVE  /\ DOMAIN Decremented(p) \subseteq Views
         /\ \A q \in DOMAIN Decremented(p) : Decremented(p)[q] \in 0 .. 2 ^ CountWidth - 1
         /\ DecrementDiff(p) \in {-1, 0, 1}
<1>1. 0 \in 0 .. 2 ^ CountWidth - 1  BY WidthAssumption
<1>2. \A q \in DOMAIN m_trace : Wrap(m_trace[q] - 1) \in 0 .. 2 ^ CountWidth - 1
  <2> SUFFICES ASSUME NEW q \in DOMAIN m_trace
               PROVE  Wrap(m_trace[q] - 1) \in 0 .. 2 ^ CountWidth - 1
    OBVIOUS
  <2>1. m_trace[q] - 1 \in Int  BY WidthAssumption DEF TypeOK, DocTypeOK
  <2> QED  BY <2>1, WrapType
<1>3. DecrementDiff(p) \in {-1, 0, 1}  BY DEF DecrementDiff
<1>4. CASE ~Contains(m_trace, p)
  <2>1. Decremented(p) = Inserted(m_trace, p, 0)  BY <1>4 DEF Decremented
  <2> QED  BY <1>1, <1>3, <1>4, <2>1 DEF TypeOK, DocTypeOK, Inserted
<1>5. CASE Contains(m_trace, p) /\ m_trace[p] = 1
  <2>1. Decremented(p) = Erased(m_trace, p)  BY <1>5 DEF Decremented
  <2> QED  BY <1>3, <1>5, <2>1 DEF TypeOK, DocTypeOK, Erased, Restrict
<1>6. CASE Contains(m_trace, p) /\ m_trace[p] # 1
  <2>1. Decremented(p) = [m_trace EXCEPT ![p] = Wrap(@ - 1)]  BY <1>6 DEF Decremented
  <2> QED  BY <1>2, <1>3, <1>6, <2>1 DEF TypeOK, DocTypeOK, Contains
<1> QED  BY <1>4, <1>5, <1>6

\* A step of DocTrace keeps the types.
LEMMA DocStepType ==
  ASSUME TypeInv, NEW th \in Threads, TraceStep(th)
  PROVE  TypeInv'
<1> USE DEF TypeInv
<1>1. UNCHANGED shardVars /\ ~Owes(th)  BY DEF TraceStep, DocStep
<1>2. dpath[th] \in Views  BY DEF TypeOK, DocTypeOK
<1>3. DocTypeOK'
  <2>1. CASE AddFirst(th)
    <3>1. SizesOK(Maps)'
      BY <2>1, <1>2, IncrementType, OweType DEF AddFirst, TypeOK, DocTypeOK, Maps
    <3>2. m_trace' = Incremented(dpath[th]) /\ HookFor(dpath[th]) \in Views
      BY <2>1, <1>2, IncrementType DEF AddFirst
    <3>3. /\ DOMAIN m_trace' \subseteq Views
          /\ \A p \in DOMAIN m_trace' : m_trace'[p] \in 0 .. 2 ^ CountWidth - 1
      BY <3>2, <1>2, IncrementType
    <3>4. dpc' \in [Threads -> DocPlaces] /\ hook' \in [Threads -> Views]
      BY <2>1, <3>2 DEF AddFirst, TypeOK, DocTypeOK, DocPlaces
    <3> QED  BY <2>1, <3>1, <3>3, <3>4 DEF AddFirst, TypeOK, DocTypeOK
  <2>2. CASE AddSecond(th)
    <3>1. SizesOK(Maps)'
      BY <2>2, <1>2, IncrementType, OweType DEF AddSecond, TypeOK, DocTypeOK, Maps
    <3>2. m_trace' = Incremented(dpath[th]) /\ HookFor(dpath[th]) \in Views
      BY <2>2, <1>2, IncrementType DEF AddSecond
    <3>3. /\ DOMAIN m_trace' \subseteq Views
          /\ \A p \in DOMAIN m_trace' : m_trace'[p] \in 0 .. 2 ^ CountWidth - 1
      BY <3>2, <1>2, IncrementType
    <3>4. dpc' \in [Threads -> DocPlaces] /\ hook' \in [Threads -> Views]
      BY <2>2, <3>2 DEF AddSecond, TypeOK, DocTypeOK, DocPlaces
    <3> QED  BY <2>2, <3>1, <3>3, <3>4 DEF AddSecond, TypeOK, DocTypeOK
  <2>3. CASE AddStat(th)
    <3>1. hook[th] \in Views  BY DEF TypeOK, DocTypeOK
    <3>2. m_stats' \subseteq Views /\ dangling' \in Nat
      BY <2>3, <3>1 DEF AddStat, MayReadAs, TypeOK, DocTypeOK
    <3>3. UNCHANGED <<mapVars, m_trace, dpath, hook, fateVars>> /\ dpc' \in [Threads -> DocPlaces]
      BY <2>3 DEF AddStat, TypeOK, DocTypeOK, DocPlaces
    <3> QED  BY <3>2, <3>3 DEF TypeOK, DocTypeOK, SizesOK, mapVars
  <2>4. CASE EraseDecrement(th)
    <3>1. SizesOK(Maps)'
      BY <2>4, <1>2, DecrementType, OweType DEF EraseDecrement, TypeOK, DocTypeOK, Maps
    <3>2. /\ m_stats' \subseteq Views /\ dangling' \in Nat
          /\ freed' \in BOOLEAN /\ lost' \subseteq Views
      BY <2>4, <1>2 DEF EraseDecrement, KeyGoes, TypeOK, DocTypeOK
    <3>3. m_trace' = Decremented(dpath[th]) /\ UNCHANGED <<dpath, hook>>
      BY <2>4 DEF EraseDecrement
    <3>4. dpc' \in [Threads -> DocPlaces]
      BY <2>4 DEF EraseDecrement, TypeOK, DocTypeOK, DocPlaces
    <3> QED  BY <3>1, <3>2, <3>3, <3>4, <1>2, DecrementType DEF TypeOK, DocTypeOK
  <2>5. CASE EraseCheck(th)
    BY <2>5 DEF EraseCheck, TypeOK, DocTypeOK, SizesOK, mapVars, DocPlaces
  <2>6. CASE EraseStat(th)
    <3>1. m_stats' \subseteq Views /\ dangling' \in Nat
      BY <2>6 DEF EraseStat, MayReadAs, TypeOK, DocTypeOK
    <3>2. UNCHANGED <<mapVars, m_trace, dpath, hook, fateVars>> /\ dpc' \in [Threads -> DocPlaces]
      BY <2>6 DEF EraseStat, TypeOK, DocTypeOK, DocPlaces
    <3> QED  BY <3>1, <3>2 DEF TypeOK, DocTypeOK, SizesOK, mapVars
  <2> QED  BY <2>1, <2>2, <2>3, <2>4, <2>5, <2>6 DEF TraceStep, DocStep
<1>4. \A t \in Threads : t # th => diff'[t] = diff[t] /\ dpc'[t] = dpc[t]
  BY DEF TraceStep, DocStep, AddFirst, AddSecond, AddStat, EraseDecrement, EraseCheck, EraseStat,
         Owe, mapVars, TypeOK, DocTypeOK, SizesOK
<1>5. dpc[th] # "idle"
  BY DEF TraceStep, DocStep, AddFirst, AddSecond, AddStat, EraseDecrement, EraseCheck, EraseStat
<1>6. TypeOK'  BY <1>1, <1>3 DEF shardVars, TypeOK
<1>7. CallsTyped'  BY <1>1, <1>4, <1>5 DEF shardVars, CallsTyped, Owes
<1> QED  BY <1>6, <1>7

\* m_size is paid what it is owed.
LEMMA SizeStepType ==
  ASSUME TypeInv, NEW th \in Threads, SizeStep(th)
  PROVE  TypeInv'
<1> USE DEF TypeInv
<1>1. UNCHANGED <<traceVars, shardVars>>  BY DEF SizeStep
<1>2. SizesOK(Maps)'
  <2>1. diff[th] \in Maps \X {-1, 1}
    BY DEF SizeStep, CountDiff, Owes, TypeOK, DocTypeOK, SizesOK
  <2>2. m_size[diff[th][1]] + diff[th][2] \in Int
    BY <2>1, SizeWidthAssumption DEF TypeOK, DocTypeOK, SizesOK
  <2> QED  BY <2>1, <2>2, WrapType DEF SizeStep, CountDiff, TypeOK, DocTypeOK, SizesOK
<1>3. TypeOK'  BY <1>1, <1>2 DEF shardVars, traceVars, TypeOK, DocTypeOK
<1>4. \A t \in Threads : ~Owes(t) => ~Owes(t)'
  BY DEF SizeStep, CountDiff, Owes, TypeOK, DocTypeOK, SizesOK
<1>5. CallsTyped'  BY <1>1, <1>4 DEF shardVars, traceVars, CallsTyped
<1> QED  BY <1>3, <1>5

\* An insert is called with an entry of the right kind.
LEMMA BeginInsertType ==
  ASSUME TypeInv, NEW th \in Threads, NEW i, BeginInsert(th, i), inserts' \in 0 .. MaxCalls,
         i.token \in Tokens, i.doc \in Paths, i.pos \in Positions, i.pos \in Nat
  PROVE  TypeInv'
<1> USE DEF TypeInv
<1>1. /\ dpc' = [dpc EXCEPT ![th] = "add1"]
      /\ dpath' = [dpath EXCEPT ![th] = i.doc]
      /\ hook' = [hook EXCEPT ![th] = NoView]
      /\ shpc' = [shpc EXCEPT ![th] = "trace"]
      /\ call' = [call EXCEPT ![th] = [token |-> i.token, pos |-> i.pos]]
      /\ UNCHANGED <<mapVars, m_trace, statVars, fateVars, m_record, heap, found, todo, surplus,
                     crossed>>
  BY DEF BeginInsert, CallAdd
<1>2. DocTypeOK'
  BY <1>1 DEF TypeOK, DocTypeOK, SizesOK, mapVars, DocPlaces, Views
<1>3. call' \in [Threads -> [token : Tokens, pos : Nat]]  BY <1>1 DEF TypeOK
<1>4. TypeOK'  BY <1>1, <1>2, <1>3 DEF TypeOK
<1>5. CallsTyped'  BY <1>1 DEF CallsTyped, TypeOK, DocTypeOK, Owes, mapVars
<1> QED  BY <1>4, <1>5

\* The entry is added to a record, or makes one.
LEMMA InsertRecordType ==
  ASSUME TypeInv, NEW th \in Threads, InsertRecord(th)
  PROVE  TypeInv'
<1> USE DEF TypeInv
<1> DEFINE tk == call[th].token
           entry == <<hook[th], call[th].pos>>
<1>1. tk \in Tokens /\ hook[th] \in Views /\ call[th].pos \in Positions
  BY DEF TypeOK, DocTypeOK, CallsTyped, InsertRecord
<1>2. entry \in Entries  BY <1>1 DEF Entries
<1>3. /\ heap' \in Seq(SUBSET Entries) /\ DOMAIN heap \subseteq DOMAIN heap'
      /\ DOMAIN m_record' \subseteq Tokens
      /\ \A k \in DOMAIN m_record' : m_record'[k] \in DOMAIN heap'
      /\ surplus' \in [Views -> Nat]
  <2>1. CASE Contains(m_record, tk)
    <3>1. /\ m_record' = m_record
          /\ heap' = [heap EXCEPT ![m_record[tk]] = @ \union {entry}]
          /\ surplus' = surplus \/ surplus' = [surplus EXCEPT ![hook[th]] = @ + 1]
      BY <2>1 DEF InsertRecord
    <3>2. m_record[tk] \in 1 .. Len(heap)  BY <2>1 DEF Contains, TypeOK
    <3>3. heap[m_record[tk]] \in SUBSET Entries  BY <3>2 DEF TypeOK
    <3>4. heap[m_record[tk]] \union {entry} \in SUBSET Entries  BY <3>3, <1>2
    <3>5. heap' \in Seq(SUBSET Entries) /\ Len(heap') = Len(heap)
      BY <3>1, <3>2, <3>4, ExceptSeq DEF TypeOK
    <3>6. surplus' \in [Views -> Nat]
      <4>1. surplus \in [Views -> Nat] /\ hook[th] \in Views  BY <1>1 DEF TypeOK
      <4>2. surplus' = surplus \/ surplus' = [surplus EXCEPT ![hook[th]] = @ + 1]  BY <3>1
      <4>3. [surplus EXCEPT ![hook[th]] = @ + 1] \in [Views -> Nat]  BY <4>1
      <4> QED  BY <4>1, <4>2, <4>3
    <3> QED  BY <3>1, <3>5, <3>6 DEF TypeOK
  <2>2. CASE ~Contains(m_record, tk)
    <3>1. /\ m_record' = Inserted(m_record, tk, Len(heap) + 1)
          /\ heap' = Append(heap, {entry})
          /\ surplus' = surplus
      BY <2>2 DEF InsertRecord, NextRecord
    <3>2. heap' \in Seq(SUBSET Entries) /\ Len(heap') = Len(heap) + 1
      BY <3>1, <1>2 DEF TypeOK
    <3>3. DOMAIN heap' = DOMAIN heap \union {Len(heap) + 1}  BY <3>2 DEF TypeOK
    <3> QED  BY <3>1, <3>2, <3>3, <1>1 DEF TypeOK, Inserted
  <2> QED  BY <2>1, <2>2
<1>4. SizesOK(Maps)'
  <2>1. PushDiff(m_record, tk) \in {-1, 0, 1}  BY DEF PushDiff
  <2>2. Owe(th, "record", PushDiff(m_record, tk))  BY DEF InsertRecord
  <2> QED  BY <2>1, <2>2, OweType DEF TypeOK, DocTypeOK, Maps
<1>5. UNCHANGED <<traceVars, call, found, todo, inserts, crossed>>  BY DEF InsertRecord
<1>6. shpc' = [shpc EXCEPT ![th] = "idle"] /\ dpc[th] = "idle"  BY DEF InsertRecord
<1>7. TypeOK'  BY <1>3, <1>4, <1>5, <1>6 DEF TypeOK, DocTypeOK, traceVars
<1>8. \A t \in Threads : t # th => diff'[t] = diff[t]
  BY DEF InsertRecord, Owe, TypeOK, DocTypeOK, SizesOK
<1>9. CallsTyped'
  BY <1>3, <1>5, <1>6, <1>8 DEF CallsTyped, traceVars, Owes, TypeOK
<1> QED  BY <1>7, <1>9

\* An erase has found a record ...
LEMMA CallEraseType ==
  ASSUME TypeInv, NEW th \in Threads, NEW tk \in Tokens, CallEraseToken(th, tk)
  PROVE  TypeInv'
<1> USE DEF TypeInv
<1>1. tk \in DOMAIN m_record /\ found' = [found EXCEPT ![th] = m_record[tk]]
  BY DEF CallEraseToken, Get, Contains
<1>2. m_record[tk] \in DOMAIN heap /\ m_record[tk] \in Nat  BY <1>1 DEF TypeOK
<1>3. call' = [call EXCEPT ![th] = [token |-> tk, pos |-> 0]]  BY DEF CallEraseToken
<1>4. call' \in [Threads -> [token : Tokens, pos : Nat]]  BY <1>3 DEF TypeOK
<1>5. shpc' = [shpc EXCEPT ![th] = "drop"] /\ shpc[th] = "idle" /\ ~Owes(th)
  BY DEF CallEraseToken, AtRest
<1>6. UNCHANGED <<mapVars, traceVars, m_record, heap, todo, inserts, surplus, crossed>>
  BY DEF CallEraseToken
<1>7. TypeOK'
  BY <1>1, <1>2, <1>4, <1>5, <1>6 DEF TypeOK, DocTypeOK, SizesOK, mapVars, traceVars
<1>8. CallsTyped'
  BY <1>1, <1>2, <1>3, <1>5, <1>6 DEF CallsTyped, TypeOK, Owes, mapVars, traceVars
<1> QED  BY <1>7, <1>8

\* ... takes the token away ...
LEMMA EraseRecordType ==
  ASSUME TypeInv, NEW th \in Threads, EraseRecord(th)
  PROVE  TypeInv'
<1> USE DEF TypeInv
<1>1. found[th] \in DOMAIN heap /\ dpc[th] = "idle"  BY DEF EraseRecord, CallsTyped
<1>2. heap[found[th]] \in SUBSET Entries  BY <1>1 DEF TypeOK
<1>3. /\ DOMAIN m_record' \subseteq DOMAIN m_record
      /\ \A k \in DOMAIN m_record' : m_record'[k] = m_record[k]
      /\ todo' \in [Threads -> SUBSET Entries]
  <2>1. CASE Contains(m_record, call[th].token)
    <3>1. /\ m_record' = Erased(m_record, call[th].token)
          /\ todo' = [todo EXCEPT ![th] = heap[found[th]]]
      BY <2>1 DEF EraseRecord
    <3> QED  BY <3>1, <1>2 DEF Erased, Restrict, TypeOK
  <2>2. CASE ~Contains(m_record, call[th].token)
    BY <2>2 DEF EraseRecord, TypeOK
  <2> QED  BY <2>1, <2>2
<1>4. SizesOK(Maps)'
  <2>1. EraseDiff(m_record, call[th].token) \in {-1, 0, 1}  BY DEF EraseDiff
  <2>2. Owe(th, "record", EraseDiff(m_record, call[th].token))  BY DEF EraseRecord
  <2> QED  BY <2>1, <2>2, OweType DEF TypeOK, DocTypeOK, Maps
<1>5. UNCHANGED <<traceVars, heap, call, found, inserts, surplus>>  BY DEF EraseRecord
<1>6. /\ shpc' = [shpc EXCEPT ![th] = "iterate"] \/ shpc' = [shpc EXCEPT ![th] = "idle"]
      /\ crossed' \in BOOLEAN
  BY DEF EraseRecord, TypeOK
<1>7. TypeOK'  BY <1>3, <1>4, <1>5, <1>6 DEF TypeOK, DocTypeOK, traceVars
<1>8. \A t \in Threads : t # th => diff'[t] = diff[t]
  BY DEF EraseRecord, Owe, TypeOK, DocTypeOK, SizesOK
<1>9. CallsTyped'  BY <1>1, <1>5, <1>6, <1>8 DEF CallsTyped, traceVars, Owes, TypeOK
<1> QED  BY <1>7, <1>9

\* ... and goes through its entries.
LEMMA EraseEntryType ==
  ASSUME TypeInv, NEW th \in Threads, NEW entry, EraseEntry(th, entry)
  PROVE  TypeInv'
<1> USE DEF TypeInv
<1>1. ReadAs(entry[1]) \subseteq Views  BY DEF EraseEntry, TypeOK, Entries, ReadAs
<1>2. todo' \in [Threads -> SUBSET Entries]  BY DEF EraseEntry, RestOf, TypeOK
<1>3. /\ dpc' = [dpc EXCEPT ![th] = "dec"]
      /\ \E p \in ReadAs(entry[1]) : dpath' = [dpath EXCEPT ![th] = p]
      /\ UNCHANGED <<mapVars, m_trace, statVars, hook, fateVars>>
      /\ UNCHANGED <<m_record, heap, shpc, call, found, inserts, surplus, crossed>>
      /\ shpc[th] = "iterate"
  BY DEF EraseEntry, CallErase
<1>4. TypeOK'
  BY <1>1, <1>2, <1>3 DEF TypeOK, DocTypeOK, SizesOK, mapVars, DocPlaces
<1>5. CallsTyped'  BY <1>3 DEF CallsTyped, TypeOK, DocTypeOK, Owes, mapVars
<1> QED  BY <1>4, <1>5

LEMMA EraseEndType ==
  ASSUME TypeInv, NEW th \in Threads, EraseEnd(th)
  PROVE  TypeInv'
<1> USE DEF TypeInv
<1>1. TypeOK'  BY DEF EraseEnd, TypeOK, DocTypeOK, SizesOK, mapVars, traceVars
<1>2. CallsTyped'  BY DEF EraseEnd, CallsTyped, TypeOK, Owes, mapVars, traceVars
<1> QED  BY <1>1, <1>2

LEMMA ThreadStepType ==
  ASSUME TypeInv, NEW th \in Threads, ThreadStep(th)
  PROVE  TypeInv'
BY DocStepType, SizeStepType, InsertRecordType, EraseRecordType, EraseEntryType, EraseEndType
   DEF ThreadStep

LEMMA NextType == TypeInv /\ [Next]_vars => TypeInv'
<1> SUFFICES ASSUME TypeInv, [Next]_vars PROVE TypeInv'  OBVIOUS
<1>1. CASE \E th \in Threads : ThreadStep(th)  BY <1>1, ThreadStepType
<1>2. ASSUME NEW th \in Threads, NEW i \in Inserts, CallInsert(th, i)  PROVE TypeInv'
  <2>1. /\ i.token \in Tokens /\ i.doc \in Paths /\ i.pos \in Nat
        /\ i.pos \in Positions
    BY InsertsAssumption DEF Positions
  <2>2. BeginInsert(th, i) /\ inserts' \in 0 .. MaxCalls
    BY <1>2, MaxCallsAssumption DEF CallInsert, TypeInv, TypeOK
  <2> QED  BY <2>1, <2>2, BeginInsertType
<1>3. ASSUME NEW th \in Threads, NEW tk \in Erasable, CallEraseToken(th, tk)  PROVE TypeInv'
  BY <1>3, CallEraseType, ErasableAssumption
<1>4. CASE UNCHANGED vars
  BY <1>4 DEF vars, mapVars, traceVars, shardVars, TypeInv, TypeOK, DocTypeOK, SizesOK,
              CallsTyped, Owes
<1> QED  BY <1>1, <1>2, <1>3, <1>4 DEF Next

\* The variables of Shard and DocTrace keep their types: what counts wraps around within its
\* width, a record the index has is in the heap, and erase goes through the record it found
\* although the token may have another by then.
THEOREM TypeCorrect == Spec => []TypeOK
<1>1. Spec => []TypeInv  BY InitType, NextType, PTL DEF Spec
<1>2. TypeInv => TypeOK  BY DEF TypeInv
<1> QED  BY <1>1, <1>2, PTL

-----------------------------------------------------------------------------
(* Arithmetic of the counts                                                 *)

\* A remainder is the only one.
LEMMA Remainder ==
  ASSUME NEW M \in Nat \ {0}, NEW q \in Int, NEW r \in 0 .. M - 1
  PROVE  (M * q + r) % M = r
OBVIOUS

\* One more or less may be added before or after wrapping.
LEMMA WrapOne ==
  ASSUME NEW M \in Nat \ {0}, NEW a \in Int, NEW d \in {-1, 1}
  PROVE  ((a % M) + d) % M = (a + d) % M
<1>1. PICK q \in Int, r \in 0 .. M - 1 : a = M * q + r /\ a % M = r
  <2>1. /\ a = M * (a \div M) + (a % M)
        /\ a \div M \in Int /\ a % M \in 0 .. M - 1
    OBVIOUS
  <2> QED  BY <2>1
<1>2. CASE r + d \in 0 .. M - 1
  <2>1. (M * q + (r + d)) % M = r + d  BY <1>2, Remainder
  <2>2. (M * 0 + (r + d)) % M = r + d  BY <1>2, Remainder
  <2> QED  BY <2>1, <2>2, <1>1
<1>3. CASE r + d = M
  <2>1. (M * (q + 1) + 0) % M = 0  BY Remainder
  <2>2. (M * 1 + 0) % M = 0  BY Remainder
  <2>3. a + d = M * (q + 1)  BY <1>1, <1>3
  <2> QED  BY <2>1, <2>2, <2>3, <1>1, <1>3
<1>4. CASE r + d = -1
  <2>1. (M * (q - 1) + (M - 1)) % M = M - 1  BY Remainder
  <2>2. (M * (-1) + (M - 1)) % M = M - 1  BY Remainder
  <2>3. a + d = M * (q - 1) + (M - 1)  BY <1>1, <1>4
  <2> QED  BY <2>1, <2>2, <2>3, <1>1, <1>4
<1> QED  BY <1>2, <1>3, <1>4

\* m_size settles a difference.
LEMMA SizeWrapOne ==
  ASSUME NEW n \in Int, NEW d \in {-1, 1}
  PROVE  SizeWrap(SizeWrap(n) + d) = SizeWrap(n + d)
<1> DEFINE M == 2 ^ SizeWidth
<1>1. M \in Nat \ {0}  BY SizeWidthAssumption
<1> HIDE DEF M
<1>2. ((n % M) + d) % M = (n + d) % M  BY <1>1, WrapOne
<1> QED  BY <1>2 DEF SizeWrap, M

-----------------------------------------------------------------------------
(* What is owed                                                             *)

\* The threads that owe x when the debts are d, and what a map is owed then.
Owing(d, x) == {th \in Threads : d[th] = x}
Owed(d, map) == Cardinality(Owing(d, <<map, 1>>)) - Cardinality(Owing(d, <<map, -1>>))

\* The debts d and e are the same but for th's.
DebtOfOne(d, e, th) == \A t \in Threads : t # th => e[t] = d[t]

LEMMA OwingFinite ==
  ASSUME NEW d, NEW x
  PROVE  IsFiniteSet(Owing(d, x)) /\ Cardinality(Owing(d, x)) \in Nat
<1>1. Owing(d, x) \subseteq Threads  BY DEF Owing
<1>2. IsFiniteSet(Owing(d, x))  BY <1>1, ThreadsAssumption, FS_Subset
<1> QED  BY <1>2, FS_CardinalityType

LEMMA OwedInt ==
  ASSUME NEW d, NEW map
  PROVE  Owed(d, map) \in Int
BY OwingFinite DEF Owed

\* One thread's debt changes: the set it was in has one less, the one it comes to one more.
LEMMA DebtMoves ==
  ASSUME NEW d, NEW e, NEW th \in Threads, DebtOfOne(d, e, th), NEW x
  PROVE  /\ ((e[th] = x) <=> (d[th] = x)) => Cardinality(Owing(e, x)) = Cardinality(Owing(d, x))
         /\ e[th] = x /\ d[th] # x => Cardinality(Owing(e, x)) = Cardinality(Owing(d, x)) + 1
         /\ e[th] # x /\ d[th] = x => Cardinality(Owing(e, x)) = Cardinality(Owing(d, x)) - 1
<1>1. CASE (e[th] = x) <=> (d[th] = x)
  <2>1. Owing(e, x) = Owing(d, x)  BY <1>1 DEF Owing, DebtOfOne
  <2> QED  BY <2>1, <1>1, OwingFinite
<1>2. CASE e[th] = x /\ d[th] # x
  <2>1. Owing(e, x) = Owing(d, x) \union {th} /\ th \notin Owing(d, x)  BY <1>2 DEF Owing, DebtOfOne
  <2>2. Cardinality(Owing(d, x) \union {th}) = Cardinality(Owing(d, x)) + 1
    BY <2>1, OwingFinite, FS_AddElement
  <2> QED  BY <2>1, <2>2, <1>2, OwingFinite
<1>3. CASE e[th] # x /\ d[th] = x
  <2>1. Owing(e, x) = Owing(d, x) \ {th} /\ th \in Owing(d, x)  BY <1>3 DEF Owing, DebtOfOne
  <2>2. Cardinality(Owing(d, x) \ {th}) = Cardinality(Owing(d, x)) - 1
    BY <2>1, OwingFinite, FS_RemoveElement
  <2> QED  BY <2>1, <2>2, <1>3, OwingFinite
<1> QED  BY <1>1, <1>2, <1>3

\* What a thread that owes a map n has in diff.
Debt(map, n) == IF n = 0 THEN <<>> ELSE <<map, n>>

\* What the maps are owed when one thread's debt of was becomes one of is.
LEMMA OwedChanges ==
  ASSUME NEW d, NEW e, NEW th \in Threads, DebtOfOne(d, e, th), NEW map, NEW was \in {-1, 0, 1}, NEW is \in {-1, 0, 1},
         d[th] = Debt(map, was), e[th] = Debt(map, is)
  PROVE  /\ Owed(e, map) = Owed(d, map) + is - was
         /\ \A m : m # map => Owed(e, m) = Owed(d, m)
<1>1. ASSUME NEW m
      PROVE  Owed(e, m) = Owed(d, m) + (IF m = map THEN is - was ELSE 0)
  <2>1. /\ d[th] = <<m, 1>> <=> (m = map /\ was = 1)
        /\ d[th] = <<m, -1>> <=> (m = map /\ was = -1)
        /\ e[th] = <<m, 1>> <=> (m = map /\ is = 1)
        /\ e[th] = <<m, -1>> <=> (m = map /\ is = -1)
    BY DEF Debt
  <2> DEFINE plus == Cardinality(Owing(d, <<m, 1>>))
             minus == Cardinality(Owing(d, <<m, -1>>))
             up(n) == IF m = map /\ is = n THEN 1 ELSE 0
             down(n) == IF m = map /\ was = n THEN 1 ELSE 0
  <2>2. plus \in Nat /\ minus \in Nat  BY OwingFinite
  <2>3. Cardinality(Owing(e, <<m, 1>>)) = plus + up(1) - down(1)
    BY <2>1, <2>2, DebtMoves
  <2>4. Cardinality(Owing(e, <<m, -1>>)) = minus + up(-1) - down(-1)
    BY <2>1, <2>2, DebtMoves
  <2>5. Owed(d, m) = plus - minus  BY DEF Owed
  <2>6. Owed(e, m) = (plus + up(1) - down(1)) - (minus + up(-1) - down(-1))
    BY <2>3, <2>4 DEF Owed
  <2> HIDE DEF plus, minus
  <2> QED  BY <2>2, <2>5, <2>6
<1>2. Owed(e, map) = Owed(d, map) + (is - was)  BY <1>1
<1>3. ASSUME NEW m, m # map  PROVE Owed(e, m) = Owed(d, m)
  <2>1. Owed(e, m) = Owed(d, m) + 0  BY <1>1, <1>3
  <2> QED  BY <2>1, OwedInt
<1> QED  BY <1>2, <1>3, OwedInt

-----------------------------------------------------------------------------
(* The counts                                                               *)

\* Only finitely many keys are there at a time, so they can be counted.
KeysFinite == IsFiniteSet(DOMAIN m_record) /\ IsFiniteSet(DOMAIN m_trace)

SizesInv == TypeInv /\ KeysFinite /\ SizesAddUp

\* A map whose keys become fewer or more by what its thread now owes still adds up, and so
\* do the others.
LEMMA OperationAddsUp ==
  ASSUME SizesOK(Maps), NEW th \in Threads, NEW map \in Maps, NEW by \in {-1, 0, 1},
         ~Owes(th), Owe(th, map, by), NEW before, NEW after,
         IsFiniteSet(before), IsFiniteSet(after),
         Cardinality(after) = Cardinality(before) + by, SizeAddsUp(map, before)
  PROVE  /\ m_size'[map] = SizeWrap(Cardinality(after) - Owed(diff', map))
         /\ \A m \in Maps \ {map} : m_size'[m] = m_size[m] /\ Owed(diff', m) = Owed(diff, m)
<1>1. m_size' = m_size  BY DEF Owe
<1>2. /\ Owed(diff', map) = Owed(diff, map) + by - 0
      /\ \A m : m # map => Owed(diff', m) = Owed(diff, m)
  <2>1. DebtOfOne(diff, diff', th)  BY DEF DebtOfOne, Owe, SizesOK
  <2>2. diff[th] = Debt(map, 0) /\ diff'[th] = Debt(map, by) /\ 0 \in {-1, 0, 1}
    BY DEF Owes, Owe, SizesOK, Debt
  <2> QED  BY <2>1, <2>2, OwedChanges
<1>3. /\ Cardinality(before) \in Nat /\ Cardinality(after) \in Nat
      /\ Owed(diff, map) \in Int /\ Owed(diff', map) \in Int
  BY FS_CardinalityType, OwedInt
<1>4. Cardinality(after) - Owed(diff', map) = Cardinality(before) - Owed(diff, map)  BY <1>2, <1>3
<1> QED  BY <1>1, <1>2, <1>4 DEF SizeAddsUp, OwedTo, Owed, Owing

\* A map that is paid adds up.
LEMMA PaymentAddsUp ==
  ASSUME SizesOK(Maps), NEW th \in Threads, CountDiff(th), NEW map \in Maps, NEW keys,
         IsFiniteSet(keys), SizeAddsUp(map, keys)
  PROVE  m_size'[map] = SizeWrap(Cardinality(keys) - Owed(diff', map))
<1>1. PICK m \in Maps, by \in {-1, 1} : diff[th] = <<m, by>>
  BY DEF CountDiff, Owes, SizesOK
<1>2. /\ diff' = [diff EXCEPT ![th] = <<>>]
      /\ m_size' = [m_size EXCEPT ![m] = SizeWrap(m_size[m] + by)]
  BY <1>1 DEF CountDiff
<1>3. DOMAIN m_size = Maps  BY DEF SizesOK
<1>4. /\ Owed(diff', m) = Owed(diff, m) + 0 - by
      /\ \A n : n # m => Owed(diff', n) = Owed(diff, n)
  <2>1. DebtOfOne(diff, diff', th)  BY <1>2 DEF DebtOfOne, SizesOK
  <2>2. diff[th] = Debt(m, by) /\ diff'[th] = Debt(m, 0) /\ {0, by} \subseteq {-1, 0, 1}
    BY <1>1, <1>2 DEF SizesOK, Debt
  <2> QED  BY <2>1, <2>2, OwedChanges
<1>5. Cardinality(keys) \in Nat /\ Owed(diff, map) \in Int  BY FS_CardinalityType, OwedInt
<1>6. CASE map = m
  <2> DEFINE owed == Owed(diff, map)
             n == Cardinality(keys)
  <2>1. m_size'[map] = SizeWrap(SizeWrap(n - owed) + by)
    BY <1>2, <1>3, <1>6 DEF SizeAddsUp, OwedTo, Owed, Owing
  <2>2. n - owed \in Int  BY <1>5
  <2>3. SizeWrap(SizeWrap(n - owed) + by) = SizeWrap((n - owed) + by)  BY <2>2, SizeWrapOne
  <2>4. (n - owed) + by = n - (owed - by)  BY <1>5
  <2>5. Owed(diff', map) = owed - by  BY <1>4, <1>5, <1>6
  <2> QED  BY <2>1, <2>3, <2>4, <2>5
<1>7. CASE map # m
  BY <1>2, <1>3, <1>4, <1>7 DEF SizeAddsUp, OwedTo, Owed, Owing
<1> QED  BY <1>6, <1>7

\* A push and an erase change the number of keys by what they report.
LEMMA PushCounts ==
  ASSUME NEW map, NEW key, NEW value, IsFiniteSet(DOMAIN map)
  PROVE  /\ DOMAIN Inserted(map, key, value) = DOMAIN map \union {key}
         /\ IsFiniteSet(DOMAIN map \union {key})
         /\ Cardinality(DOMAIN map \union {key}) = Cardinality(DOMAIN map) + PushDiff(map, key)
<1>1. DOMAIN Inserted(map, key, value) = DOMAIN map \union {key}  BY DEF Inserted
<1>2. Cardinality(DOMAIN map) \in Nat  BY FS_CardinalityType
<1>3. CASE key \in DOMAIN map
  <2>1. DOMAIN map \union {key} = DOMAIN map  BY <1>3
  <2> QED  BY <1>1, <1>2, <1>3, <2>1 DEF PushDiff, Contains
<1>4. CASE key \notin DOMAIN map
  BY <1>1, <1>2, <1>4, FS_AddElement DEF PushDiff, Contains
<1> QED  BY <1>3, <1>4

LEMMA EraseCounts ==
  ASSUME NEW map, NEW key, IsFiniteSet(DOMAIN map)
  PROVE  /\ DOMAIN Erased(map, key) = DOMAIN map \ {key}
         /\ IsFiniteSet(DOMAIN map \ {key})
         /\ Cardinality(DOMAIN map \ {key}) = Cardinality(DOMAIN map) + EraseDiff(map, key)
<1>1. DOMAIN Erased(map, key) = DOMAIN map \ {key}  BY DEF Erased, Restrict
<1>2. Cardinality(DOMAIN map) \in Nat  BY FS_CardinalityType
<1>3. CASE key \in DOMAIN map
  <2>1. EraseDiff(map, key) = -1  BY <1>3 DEF EraseDiff, Contains
  <2> QED  BY <1>1, <1>2, <1>3, <2>1, FS_RemoveElement
<1>4. CASE key \notin DOMAIN map
  <2>1. DOMAIN map \ {key} = DOMAIN map  BY <1>4
  <2> QED  BY <1>1, <1>2, <1>4, <2>1 DEF EraseDiff, Contains
<1> QED  BY <1>3, <1>4

\* So do the callbacks of DocTrace.
LEMMA IncrementCounts ==
  ASSUME KeysFinite, NEW p
  PROVE  /\ IsFiniteSet(DOMAIN Incremented(p))
         /\ Cardinality(DOMAIN Incremented(p)) =
              Cardinality(DOMAIN m_trace) + PushDiff(m_trace, p)
<1> USE DEF KeysFinite
<1>1. Cardinality(DOMAIN m_trace) \in Nat  BY FS_CardinalityType
<1>2. CASE Contains(m_trace, p)
  <2>1. DOMAIN Incremented(p) = DOMAIN m_trace  BY <1>2 DEF Incremented
  <2> QED  BY <1>1, <1>2, <2>1 DEF PushDiff
<1>3. CASE ~Contains(m_trace, p)
  <2>1. DOMAIN Incremented(p) = DOMAIN m_trace \union {p}  BY <1>3 DEF Incremented, Inserted
  <2> QED  BY <2>1, PushCounts
<1> QED  BY <1>2, <1>3

LEMMA DecrementCounts ==
  ASSUME KeysFinite, NEW p
  PROVE  /\ IsFiniteSet(DOMAIN Decremented(p))
         /\ Cardinality(DOMAIN Decremented(p)) = Cardinality(DOMAIN m_trace) + DecrementDiff(p)
<1> USE DEF KeysFinite
<1>1. Cardinality(DOMAIN m_trace) \in Nat  BY FS_CardinalityType
<1>2. CASE ~Contains(m_trace, p)
  <2>1. DOMAIN Decremented(p) = DOMAIN m_trace \union {p}  BY <1>2 DEF Decremented, Inserted
  <2>2. DecrementDiff(p) = 1 /\ PushDiff(m_trace, p) = 1  BY <1>2 DEF DecrementDiff, PushDiff
  <2> QED  BY <2>1, <2>2, PushCounts
<1>3. CASE Contains(m_trace, p) /\ m_trace[p] = 1
  <2>1. Decremented(p) = Erased(m_trace, p)  BY <1>3 DEF Decremented
  <2>2. DecrementDiff(p) = -1 /\ EraseDiff(m_trace, p) = -1
    BY <1>3 DEF DecrementDiff, EraseDiff
  <2> QED  BY <2>1, <2>2, EraseCounts
<1>4. CASE Contains(m_trace, p) /\ m_trace[p] # 1
  <2>1. DOMAIN Decremented(p) = DOMAIN m_trace  BY <1>4 DEF Decremented
  <2>2. DecrementDiff(p) = 0  BY <1>4 DEF DecrementDiff
  <2> QED  BY <1>1, <2>1, <2>2
<1> QED  BY <1>2, <1>3, <1>4

\* An operation on m_trace, and one on m_record.
LEMMA TraceOperation ==
  ASSUME SizesInv, NEW th \in Threads, NEW by \in {-1, 0, 1}, ~Owes(th),
         Owe(th, "trace", by), m_record' = m_record,
         IsFiniteSet(DOMAIN m_trace'), Cardinality(DOMAIN m_trace') = Cardinality(DOMAIN m_trace) + by
  PROVE  KeysFinite' /\ SizesAddUp'
<1>1. /\ m_size'["trace"] = SizeWrap(Cardinality(DOMAIN m_trace') - Owed(diff', "trace"))
      /\ m_size'["record"] = m_size["record"] /\ Owed(diff', "record") = Owed(diff, "record")
  BY OperationAddsUp DEF SizesInv, TypeInv, TypeOK, DocTypeOK, KeysFinite, SizesAddUp, Maps
<1>2. m_size["record"] = SizeWrap(Cardinality(DOMAIN m_record) - Owed(diff, "record"))
  BY DEF SizesInv, SizesAddUp, SizeAddsUp, OwedTo, Owed, Owing
<1>3. KeysFinite'  BY DEF SizesInv, KeysFinite
<1>4. SizesAddUp'  BY <1>1, <1>2 DEF SizesAddUp, SizeAddsUp, OwedTo, Owed, Owing
<1> QED  BY <1>3, <1>4

LEMMA RecordOperation ==
  ASSUME SizesInv, NEW th \in Threads, NEW by \in {-1, 0, 1}, ~Owes(th),
         Owe(th, "record", by), m_trace' = m_trace,
         IsFiniteSet(DOMAIN m_record'),
         Cardinality(DOMAIN m_record') = Cardinality(DOMAIN m_record) + by
  PROVE  KeysFinite' /\ SizesAddUp'
<1>1. /\ m_size'["record"] = SizeWrap(Cardinality(DOMAIN m_record') - Owed(diff', "record"))
      /\ m_size'["trace"] = m_size["trace"] /\ Owed(diff', "trace") = Owed(diff, "trace")
  BY OperationAddsUp DEF SizesInv, TypeInv, TypeOK, DocTypeOK, KeysFinite, SizesAddUp, Maps
<1>2. m_size["trace"] = SizeWrap(Cardinality(DOMAIN m_trace) - Owed(diff, "trace"))
  BY DEF SizesInv, SizesAddUp, SizeAddsUp, OwedTo, Owed, Owing
<1>3. KeysFinite'  BY DEF SizesInv, KeysFinite
<1>4. SizesAddUp'  BY <1>1, <1>2 DEF SizesAddUp, SizeAddsUp, OwedTo, Owed, Owing
<1> QED  BY <1>3, <1>4

\* Nothing the counts depend on.
LEMMA SizesUntouched ==
  ASSUME SizesInv, UNCHANGED <<mapVars, m_trace, m_record>>
  PROVE  KeysFinite' /\ SizesAddUp'
BY DEF SizesInv, KeysFinite, SizesAddUp, SizeAddsUp, OwedTo, mapVars

LEMMA ThreadStepSizes ==
  ASSUME SizesInv, NEW th \in Threads, ThreadStep(th)
  PROVE  SizesInv'
<1> USE DEF SizesInv
<1>1. TypeInv'  BY ThreadStepType
<1>2. dpath[th] \in Views /\ KeysFinite  BY DEF TypeInv, TypeOK, DocTypeOK
<1>3. CASE TraceStep(th)
  <2>1. ~Owes(th) /\ m_record' = m_record  BY <1>3 DEF TraceStep, DocStep, shardVars
  <2>2. CASE AddFirst(th) \/ AddSecond(th)
    <3>1. /\ m_trace' = Incremented(dpath[th])
          /\ Owe(th, "trace", PushDiff(m_trace, dpath[th]))
      BY <2>2 DEF AddFirst, AddSecond
    <3>2. PushDiff(m_trace, dpath[th]) \in {-1, 0, 1}  BY DEF PushDiff
    <3> QED  BY <1>1, <1>2, <2>1, <3>1, <3>2, IncrementCounts, TraceOperation
  <2>3. CASE EraseDecrement(th)
    <3>1. /\ m_trace' = Decremented(dpath[th])
          /\ Owe(th, "trace", DecrementDiff(dpath[th]))
      BY <2>3 DEF EraseDecrement
    <3>2. DecrementDiff(dpath[th]) \in {-1, 0, 1}  BY DEF DecrementDiff
    <3> QED  BY <1>1, <1>2, <2>1, <3>1, <3>2, DecrementCounts, TraceOperation
  <2>4. CASE AddStat(th) \/ EraseCheck(th) \/ EraseStat(th)
    BY <1>1, <2>1, <2>4, SizesUntouched DEF AddStat, EraseCheck, EraseStat
  <2> QED  BY <1>3, <2>2, <2>3, <2>4 DEF TraceStep, DocStep
<1>4. CASE SizeStep(th)
  <2>1. CountDiff(th) /\ m_trace' = m_trace /\ m_record' = m_record
    BY <1>4 DEF SizeStep, traceVars, shardVars
  <2>2. /\ m_size'["record"] = SizeWrap(Cardinality(DOMAIN m_record) - Owed(diff', "record"))
        /\ m_size'["trace"] = SizeWrap(Cardinality(DOMAIN m_trace) - Owed(diff', "trace"))
    BY <2>1, PaymentAddsUp DEF TypeInv, TypeOK, DocTypeOK, KeysFinite, SizesAddUp, Maps
  <2>3. KeysFinite'  BY <2>1 DEF KeysFinite
  <2>4. SizesAddUp'  BY <2>1, <2>2 DEF SizesAddUp, SizeAddsUp, OwedTo, Owed, Owing
  <2> QED  BY <1>1, <2>3, <2>4
<1>5. CASE InsertRecord(th)
  <2> DEFINE tk == call[th].token
  <2>1. /\ ~Owes(th) /\ m_trace' = m_trace
        /\ Owe(th, "record", PushDiff(m_record, tk))
    BY <1>5 DEF InsertRecord, traceVars
  <2>2. DOMAIN m_record' = DOMAIN m_record \union {tk}
    BY <1>5 DEF InsertRecord, Contains, Inserted
  <2>3. PushDiff(m_record, tk) \in {-1, 0, 1}  BY DEF PushDiff
  <2>4. /\ IsFiniteSet(DOMAIN m_record')
        /\ Cardinality(DOMAIN m_record') = Cardinality(DOMAIN m_record) + PushDiff(m_record, tk)
    BY <2>2, <1>2, PushCounts DEF KeysFinite
  <2> QED  BY <1>1, <2>1, <2>3, <2>4, RecordOperation
<1>6. CASE EraseRecord(th)
  <2> DEFINE tk == call[th].token
  <2>1. ~Owes(th)  BY <1>6 DEF EraseRecord, TypeInv, CallsTyped
  <2>2. m_trace' = m_trace /\ Owe(th, "record", EraseDiff(m_record, tk))
    BY <1>6 DEF EraseRecord, traceVars
  <2>3. DOMAIN m_record' = DOMAIN m_record \ {tk}
    BY <1>6 DEF EraseRecord, Contains, Erased, Restrict
  <2>4. EraseDiff(m_record, tk) \in {-1, 0, 1}  BY DEF EraseDiff
  <2>5. /\ IsFiniteSet(DOMAIN m_record')
        /\ Cardinality(DOMAIN m_record') = Cardinality(DOMAIN m_record) + EraseDiff(m_record, tk)
    BY <2>3, <1>2, EraseCounts DEF KeysFinite
  <2> QED  BY <1>1, <2>1, <2>2, <2>4, <2>5, RecordOperation
<1>7. CASE EraseEnd(th)
  BY <1>1, <1>7, SizesUntouched DEF EraseEnd, traceVars
<1>8. ASSUME NEW entry, EraseEntry(th, entry)  PROVE SizesInv'
  BY <1>1, <1>8, SizesUntouched DEF EraseEntry, CallErase
<1> QED  BY <1>3, <1>4, <1>5, <1>6, <1>7, <1>8 DEF ThreadStep

LEMMA InitSizes == Init => SizesInv
<1> SUFFICES ASSUME Init PROVE SizesInv  OBVIOUS
<1>1. TypeInv  BY InitType
<1>2. DOMAIN m_record = {} /\ DOMAIN m_trace = {}  BY DEF Init, DocInit
<1>3. KeysFinite  BY <1>2, FS_EmptySet DEF KeysFinite
<1>4. ASSUME NEW map \in Maps, NEW keys, keys = {}  PROVE SizeAddsUp(map, keys)
  <2>1. m_size[map] = 0 /\ diff = [th \in Threads |-> <<>>]
    BY <1>4 DEF Init, DocInit, SizesInit
  <2>2. Owing(diff, <<map, 1>>) = {} /\ Owing(diff, <<map, -1>>) = {}
    BY <2>1 DEF Owing
  <2>3. OwedTo(map) = 0 /\ Cardinality(keys) = 0
    BY <2>2, <1>4, FS_EmptySet DEF OwedTo, Owing
  <2>4. SizeWrap(0) = 0
    <3> DEFINE M == 2 ^ SizeWidth
    <3>1. M \in Nat \ {0}  BY SizeWidthAssumption
    <3> HIDE DEF M
    <3>2. 0 % M = 0  BY <3>1
    <3> QED  BY <3>2 DEF SizeWrap, M
  <2> QED  BY <2>1, <2>3, <2>4 DEF SizeAddsUp
<1>5. SizesAddUp  BY <1>2, <1>4 DEF SizesAddUp, Maps
<1> QED  BY <1>1, <1>3, <1>5 DEF SizesInv

LEMMA NextSizes == SizesInv /\ [Next]_vars => SizesInv'
<1> SUFFICES ASSUME SizesInv, [Next]_vars PROVE SizesInv'  OBVIOUS
<1>1. TypeInv'  BY NextType DEF SizesInv
<1>2. CASE \E th \in Threads : ThreadStep(th)  BY <1>2, ThreadStepSizes
<1>3. ASSUME NEW th \in Threads, NEW i \in Inserts, CallInsert(th, i)  PROVE SizesInv'
  BY <1>1, <1>3, SizesUntouched DEF CallInsert, BeginInsert, CallAdd, SizesInv
<1>4. ASSUME NEW th \in Threads, NEW tk \in Erasable, CallEraseToken(th, tk)  PROVE SizesInv'
  BY <1>1, <1>4, SizesUntouched DEF CallEraseToken, traceVars, SizesInv
<1>5. CASE UNCHANGED vars
  BY <1>1, <1>5, SizesUntouched DEF vars, traceVars, shardVars, SizesInv
<1> QED  BY <1>2, <1>3, <1>4, <1>5 DEF Next

\* What tokenCount, docCount and loadFactor read is off by what the threads have still to add
\* and by nothing else, with any number of threads in the middle of a push or an erase.
THEOREM CountsAddUp == Spec => []SizesAddUp
<1>1. Spec => []SizesInv  BY InitSizes, NextSizes, PTL DEF Spec
<1>2. SizesInv => SizesAddUp  BY DEF SizesInv
<1> QED  BY <1>1, <1>2, PTL

-----------------------------------------------------------------------------
(* References                                                               *)

\* The references to a document: the entries that name it, in a record of the index or in
\* the hands of an erase ...
Indexed(record, e) == e \in heap[record] /\ \E tk \in DOMAIN m_record : m_record[tk] = record
Taken(record, e) ==
    \E th \in Threads : shpc[th] = "iterate" /\ found[th] = record /\ e \in todo[th]
Holds(record, e) == Indexed(record, e) \/ Taken(record, e)
Held == [p \in Paths |-> {r \in (DOMAIN heap) \X Positions : Holds(r[1], <<p, r[2]>>)}]

\* ... the threads between its count and its entry, by the view they got, or between its
\* entry and its count ...
Going ==
    [p \in Paths |-> {th \in Threads :
       \/ dpc[th] = "dec" /\ dpath[th] = p
       \/ shpc[th] = "trace" /\ dpc[th] \in {"stat", "idle"} /\ hook[th] = p}]

\* ... and those that have still to count it.
Coming == [p \in Paths |-> {th \in Threads : dpath[th] = p /\ dpc[th] \in {"add1", "add2"}}]

Count == [p \in Paths |-> Cardinality(Held[p]) + surplus[p] + Cardinality(Going[p])]
Due == [p \in Paths |-> Count[p] + Cardinality(Coming[p])]

\* The threads that have put a document into the trace and not counted it yet.
Making == [p \in Paths |-> {th \in Threads : dpath[th] = p /\ dpc[th] = "add2"}]

\* No two tokens share a record.
RecordsApart ==
    \A t1, t2 \in DOMAIN m_record : m_record[t1] = m_record[t2] => t1 = t2

\* The record an erase goes through is nobody else's: neither the index nor another erase
\* has it.
IteratedApart ==
    \A th \in Threads : shpc[th] = "iterate" =>
      /\ found[th] \in DOMAIN heap
      /\ \A tk \in DOMAIN m_record : m_record[tk] # found[th]
      /\ \A o \in Threads \ {th} : shpc[o] = "iterate" => found[o] # found[th]

\* Where in a call to DocTrace a call of insert or erase is, and what it knows there: insert
\* has a view of its document, or none if the document was erased meanwhile.
CallsPlaced ==
    \A th \in Threads :
      /\ shpc[th] = "iterate" => dpc[th] \in {"idle", "dec", "check", "unstat"}
      /\ shpc[th] = "trace" => dpath[th] \in Paths /\ dpc[th] \in {"add1", "add2", "stat", "idle"}
      /\ shpc[th] = "trace" /\ dpc[th] \in {"stat", "idle"} =>
           hook[th] = dpath[th] \/ (hook[th] = NoView /\ dpath[th] \in lost)

\* No entry names the empty path unless a document was erased while it was added.
NamesKnown ==
    lost = {} => \A r \in DOMAIN heap : \A e \in heap[r] : e[1] # NoView

\* A document is in the trace with the number of its references; with 0 while a thread that
\* put it there has still to count it, or if it was erased meanwhile.
CountRight(p, trace, count, making, gone) ==
    /\ p \in DOMAIN trace => trace[p] = count /\ (count # 0 \/ making # {} \/ gone)
    /\ p \notin DOMAIN trace => count = 0 /\ (making = {} \/ gone)

CountsRight ==
    \A p \in Paths : IsFiniteSet(Held[p]) /\ CountRight(p, m_trace, Count[p], Making[p], p \in lost)

\* What holds until two erases cross.
Straight == IteratedApart /\ CallsPlaced /\ NamesKnown /\ CountsRight

\* No count wraps.
CountsFit == MaxCalls < 2 ^ CountWidth

StraightInv == TypeInv /\ RecordsApart /\ Straight

-----------------------------------------------------------------------------
(* Statistics                                                               *)

\* A call names a document that DocTrace holds, from the moment it has put it there or found
\* it in an entry.
NamesHeld(th) ==
    /\ dpc[th] # "unstat"
    /\ dpc[th] \in {"add1", "add2", "stat"} => shpc[th] = "trace"
    /\ dpc[th] \in {"dec", "check"} => shpc[th] = "iterate"
    /\ dpc[th] \in {"add2", "stat", "dec", "check"} => dpath[th] \in DOMAIN m_trace
    /\ dpc[th] = "stat" => hook[th] = dpath[th]
    /\ shpc[th] = "trace" => dpath[th] \in Paths
    /\ shpc[th] = "trace" /\ dpc[th] = "idle" => hook[th] \in DOMAIN m_trace

\* Who will give a document its statistics.
Stating(p) == \E th \in Threads : dpath[th] = p /\ dpc[th] \in {"add2", "stat"}

\* As long as no document has gone, statistics are as good as documents are held.
NothingGone ==
    /\ dangling = 0
    /\ m_stats \subseteq DOMAIN m_trace
    /\ \A p \in DOMAIN m_trace \ m_stats : Stating(p)
    /\ \A th \in Threads : NamesHeld(th) /\ \A e \in todo[th] : e[1] \in DOMAIN m_trace
    /\ \A r \in DOMAIN heap : \A e \in heap[r] : e[1] \in DOMAIN m_trace

StatsInv == TypeInv /\ (~freed => NothingGone)

\* Who takes a step leaves the other threads as they are.
LEMMA OthersUntouched ==
  ASSUME TypeInv, NEW th \in Threads, ThreadStep(th)
  PROVE  \A o \in Threads \ {th} :
           /\ dpc'[o] = dpc[o] /\ dpath'[o] = dpath[o] /\ hook'[o] = hook[o] /\ diff'[o] = diff[o]
           /\ shpc'[o] = shpc[o] /\ call'[o] = call[o] /\ found'[o] = found[o] /\ todo'[o] = todo[o]
<1> USE DEF TypeInv, TypeOK, DocTypeOK, SizesOK
<1>1. CASE TraceStep(th)
  BY <1>1 DEF TraceStep, DocStep, AddFirst, AddSecond, AddStat, EraseDecrement, EraseCheck,
              EraseStat, Owe, mapVars, shardVars
<1>2. CASE SizeStep(th)  BY <1>2 DEF SizeStep, CountDiff, traceVars, shardVars
<1>3. CASE InsertRecord(th)  BY <1>3 DEF InsertRecord, Owe, traceVars
<1>4. CASE EraseRecord(th)  BY <1>4 DEF EraseRecord, Owe, traceVars
<1>5. CASE EraseEnd(th)  BY <1>5 DEF EraseEnd, mapVars, traceVars
<1>6. ASSUME NEW entry, EraseEntry(th, entry)
      PROVE  \A o \in Threads \ {th} :
               /\ dpc'[o] = dpc[o] /\ dpath'[o] = dpath[o] /\ hook'[o] = hook[o]
               /\ diff'[o] = diff[o] /\ shpc'[o] = shpc[o] /\ call'[o] = call[o]
               /\ found'[o] = found[o] /\ todo'[o] = todo[o]
  BY <1>6 DEF EraseEntry, CallErase, mapVars
<1> QED  BY <1>1, <1>2, <1>3, <1>4, <1>5, <1>6 DEF ThreadStep

\* A step of DocTrace that takes no document away.
LEMMA TraceStepStats ==
  ASSUME TypeInv, NothingGone, ~freed', NEW th \in Threads, TraceStep(th)
  PROVE  NothingGone'
<1> USE DEF NothingGone, TypeInv
<1>1. /\ UNCHANGED <<shpc, heap, todo, dpath>> /\ dpath[th] \in Views
      /\ \A o \in Threads \ {th} : dpc'[o] = dpc[o] /\ hook'[o] = hook[o]
  BY OthersUntouched
     DEF ThreadStep, TraceStep, shardVars, DocStep, AddFirst, AddSecond, AddStat, EraseDecrement,
         EraseCheck, EraseStat, TypeOK, DocTypeOK
<1>2. NamesHeld(th) /\ dpc[th] # "unstat"  BY DEF NamesHeld
\* What is left to show: the documents held and those with statistics, and the thread's call.
<1>3. ASSUME DOMAIN m_trace \subseteq DOMAIN m_trace', NamesHeld(th)'
      PROVE  /\ \A o \in Threads : NamesHeld(o)' /\ \A e \in todo'[o] : e[1] \in DOMAIN m_trace'
             /\ \A r \in DOMAIN heap' : \A e \in heap'[r] : e[1] \in DOMAIN m_trace'
  <2>1. ASSUME NEW o \in Threads \ {th}  PROVE NamesHeld(o)'
    <3>1. NamesHeld(o)  OBVIOUS
    <3> QED  BY <3>1, <1>1, <1>3 DEF NamesHeld
  <2> QED  BY <1>1, <1>3, <2>1
<1>4. CASE AddFirst(th)
  <2>1. /\ dpc[th] = "add1" /\ m_trace' = Incremented(dpath[th]) /\ UNCHANGED statVars
        /\ hook'[th] = HookFor(dpath[th])
        /\ dpc'[th] = IF HookFor(dpath[th]) = NoView THEN "add2" ELSE "idle"
    BY <1>4 DEF AddFirst, TypeOK, DocTypeOK
  <2>2. DOMAIN m_trace' = DOMAIN m_trace \union {dpath[th]}
    BY <2>1 DEF Incremented, Inserted, Contains
  <2>3. shpc[th] = "trace" /\ dpath[th] \in Paths  BY <1>2, <2>1 DEF NamesHeld
  <2>4. dpath[th] # NoView  BY <2>3, PathsAssumption
  <2>5. NamesHeld(th)'
    BY <1>1, <2>1, <2>2, <2>3, <2>4 DEF NamesHeld, HookFor, Contains
  <2>6. ASSUME NEW p \in DOMAIN m_trace' \ m_stats'  PROVE Stating(p)'
    <3>1. CASE p \in DOMAIN m_trace
      <4>1. PICK o \in Threads : dpath[o] = p /\ dpc[o] \in {"add2", "stat"}
        BY <2>1, <2>6, <3>1 DEF Stating
      <4> QED  BY <1>1, <2>1, <4>1 DEF Stating
    <3>2. CASE p \notin DOMAIN m_trace
      BY <1>1, <2>1, <2>2, <2>6, <3>2 DEF Stating, HookFor, Contains
    <3> QED  BY <3>1, <3>2
  <2> QED  BY <1>3, <2>1, <2>2, <2>5, <2>6
<1>5. CASE AddSecond(th)
  <2>1. /\ dpc[th] = "add2" /\ m_trace' = Incremented(dpath[th]) /\ UNCHANGED statVars
        /\ hook'[th] = HookFor(dpath[th]) /\ dpc'[th] = "stat"
    BY <1>5 DEF AddSecond, TypeOK, DocTypeOK
  <2>2. shpc[th] = "trace" /\ dpath[th] \in Paths /\ dpath[th] \in DOMAIN m_trace
    BY <1>2, <2>1 DEF NamesHeld
  <2>3. DOMAIN m_trace' = DOMAIN m_trace /\ hook'[th] = dpath[th]
    BY <2>1, <2>2 DEF Incremented, HookFor, Contains
  <2>4. NamesHeld(th)'  BY <1>1, <2>1, <2>2, <2>3 DEF NamesHeld
  <2>5. ASSUME NEW p \in DOMAIN m_trace' \ m_stats'  PROVE Stating(p)'
    <3>1. PICK o \in Threads : dpath[o] = p /\ dpc[o] \in {"add2", "stat"}
      BY <2>1, <2>3, <2>5 DEF Stating
    <3> QED  BY <1>1, <2>1, <3>1 DEF Stating
  <2> QED  BY <1>3, <2>1, <2>3, <2>4, <2>5
<1>6. CASE AddStat(th)
  <2>1. dpc[th] = "stat" /\ m_trace' = m_trace /\ dpc'[th] = "idle" /\ hook' = hook
    BY <1>6 DEF AddStat, TypeOK, DocTypeOK
  <2>2. hook[th] = dpath[th] /\ dpath[th] \in DOMAIN m_trace /\ shpc[th] = "trace"
        /\ dpath[th] \in Paths
    BY <1>2, <2>1 DEF NamesHeld
  <2>3. m_stats' = m_stats \union {dpath[th]} /\ dangling' = 0
    BY <1>6, <2>2 DEF AddStat, MayReadAs, Valid, Contains
  <2>4. NamesHeld(th)'  BY <1>1, <2>1, <2>2 DEF NamesHeld
  <2>5. ASSUME NEW p \in DOMAIN m_trace' \ m_stats'  PROVE Stating(p)'
    <3>1. PICK o \in Threads : dpath[o] = p /\ dpc[o] \in {"add2", "stat"}
      BY <2>1, <2>3, <2>5 DEF Stating
    <3> QED  BY <1>1, <2>3, <2>5, <3>1 DEF Stating
  <2> QED  BY <1>3, <2>1, <2>2, <2>3, <2>4, <2>5
<1>7. CASE EraseDecrement(th)
  <2>1. /\ dpc[th] = "dec" /\ m_trace' = Decremented(dpath[th]) /\ dpc'[th] = "check"
        /\ hook' = hook
    BY <1>7 DEF EraseDecrement, TypeOK, DocTypeOK
  <2>2. dpath[th] \in DOMAIN m_trace  BY <1>2, <2>1 DEF NamesHeld
  <2>3. ~KeyGoes(dpath[th])  BY <1>7 DEF EraseDecrement
  <2>4. m_trace[dpath[th]] # 1  BY <2>2, <2>3 DEF KeyGoes, DecrementDiff, Contains
  <2>5. DOMAIN m_trace' = DOMAIN m_trace  BY <2>1, <2>2, <2>4 DEF Decremented, Contains
  <2>6. UNCHANGED statVars  BY <1>7, <2>3 DEF EraseDecrement
  <2>7. NamesHeld(th)'
    BY <1>1, <1>2, <2>1, <2>2, <2>5 DEF NamesHeld
  <2>8. ASSUME NEW p \in DOMAIN m_trace' \ m_stats'  PROVE Stating(p)'
    <3>1. PICK o \in Threads : dpath[o] = p /\ dpc[o] \in {"add2", "stat"}
      BY <2>5, <2>6, <2>8 DEF Stating
    <3> QED  BY <1>1, <2>1, <3>1 DEF Stating
  <2> QED  BY <1>3, <2>5, <2>6, <2>7, <2>8
<1>8. CASE EraseCheck(th)
  <2>1. /\ dpc[th] = "check" /\ UNCHANGED <<m_trace, statVars, hook>>
        /\ dpc'[th] = IF StillTraced(dpath[th]) THEN "idle" ELSE "unstat"
    BY <1>8 DEF EraseCheck, TypeOK, DocTypeOK
  <2>2. dpath[th] \in DOMAIN m_trace  BY <1>2, <2>1 DEF NamesHeld
  <2>3. dpc'[th] = "idle" /\ shpc[th] # "trace"
    BY <1>2, <2>1, <2>2 DEF StillTraced, Contains, NamesHeld
  <2>4. NamesHeld(th)'  BY <1>1, <1>2, <2>1, <2>3 DEF NamesHeld
  <2>5. ASSUME NEW p \in DOMAIN m_trace' \ m_stats'  PROVE Stating(p)'
    <3>1. PICK o \in Threads : dpath[o] = p /\ dpc[o] \in {"add2", "stat"}
      BY <2>1, <2>5 DEF Stating
    <3> QED  BY <1>1, <2>1, <3>1 DEF Stating
  <2> QED  BY <1>3, <2>1, <2>4, <2>5
<1>9. CASE EraseStat(th)
  BY <1>2, <1>9 DEF EraseStat
<1> QED  BY <1>4, <1>5, <1>6, <1>7, <1>8, <1>9 DEF TraceStep, DocStep

\* The calls that give DocTrace back its answer, or ask it, touch neither documents nor
\* statistics.
LEMMA StatsElsewhere ==
  ASSUME TypeInv, NothingGone, NEW th \in Threads,
         UNCHANGED <<m_trace, statVars>>, dpc[th] \notin {"add2", "stat"} \/ UNCHANGED <<dpc, dpath>>,
         \A o \in Threads \ {th} : /\ dpc'[o] = dpc[o] /\ dpath'[o] = dpath[o] /\ hook'[o] = hook[o]
                                   /\ shpc'[o] = shpc[o] /\ todo'[o] = todo[o],
         NamesHeld(th)', \A e \in todo'[th] : e[1] \in DOMAIN m_trace,
         \A r \in DOMAIN heap' : \A e \in heap'[r] : e[1] \in DOMAIN m_trace
  PROVE  NothingGone'
<1> USE DEF NothingGone
<1>1. ASSUME NEW p \in DOMAIN m_trace' \ m_stats'  PROVE Stating(p)'
  <2>1. PICK o \in Threads : dpath[o] = p /\ dpc[o] \in {"add2", "stat"}
    BY <1>1 DEF Stating
  <2>2. o # th \/ UNCHANGED <<dpc, dpath>>  BY <2>1
  <2>3. dpc'[o] = dpc[o] /\ dpath'[o] = dpath[o]  BY <2>2
  <2> QED  BY <2>1, <2>3 DEF Stating
<1>2. ASSUME NEW o \in Threads \ {th}  PROVE NamesHeld(o)'
  <2>1. NamesHeld(o)  OBVIOUS
  <2> QED  BY <2>1 DEF NamesHeld
<1>3. ASSUME NEW o \in Threads  PROVE \A e \in todo'[o] : e[1] \in DOMAIN m_trace'
  BY <1>3
<1> QED  BY <1>1, <1>2, <1>3

LEMMA ThreadStepStats ==
  ASSUME StatsInv, NEW th \in Threads, ThreadStep(th)
  PROVE  StatsInv'
<1> USE DEF StatsInv
<1>1. TypeInv /\ TypeInv'  BY ThreadStepType
<1>2. SUFFICES ASSUME ~freed'  PROVE NothingGone'
  BY <1>1
<1>3. ~freed
  BY <1>2 DEF ThreadStep, TraceStep, SizeStep, InsertRecord, EraseRecord, EraseEntry, EraseEnd,
              DocStep, AddFirst, AddSecond, AddStat, EraseDecrement, EraseCheck, EraseStat,
              CallErase, traceVars
<1>4. NothingGone  BY <1>3
<1>5. /\ NamesHeld(th) /\ \A e \in todo[th] : e[1] \in DOMAIN m_trace
      /\ \A r \in DOMAIN heap : \A e \in heap[r] : e[1] \in DOMAIN m_trace
  BY <1>4 DEF NothingGone
<1>6. \A o \in Threads \ {th} : /\ dpc'[o] = dpc[o] /\ dpath'[o] = dpath[o] /\ hook'[o] = hook[o]
                                /\ shpc'[o] = shpc[o] /\ todo'[o] = todo[o]
  BY <1>1, OthersUntouched
<1>7. CASE TraceStep(th)  BY <1>1, <1>2, <1>4, <1>7, TraceStepStats
<1>8. CASE SizeStep(th)
  <2>1. UNCHANGED <<traceVars, shpc, todo, heap>>  BY <1>8 DEF SizeStep, shardVars
  <2>2. NamesHeld(th)'  BY <1>5, <2>1 DEF NamesHeld, traceVars
  <2> QED  BY <1>1, <1>4, <1>5, <1>6, <2>1, <2>2, StatsElsewhere DEF traceVars
<1>9. CASE InsertRecord(th)
  <2> DEFINE entry == <<hook[th], call[th].pos>>
             tk == call[th].token
  <2>1. /\ UNCHANGED <<traceVars, todo>> /\ shpc[th] = "trace" /\ dpc[th] = "idle"
        /\ shpc'[th] = "idle"
    BY <1>9 DEF InsertRecord, TypeInv, TypeOK
  <2>2. hook[th] \in DOMAIN m_trace  BY <1>5, <2>1 DEF NamesHeld
  <2>3. NamesHeld(th)'  BY <2>1 DEF NamesHeld, traceVars
  <2>4. ASSUME NEW r \in DOMAIN heap', NEW e \in heap'[r]  PROVE e[1] \in DOMAIN m_trace
    <3>1. CASE heap' = [heap EXCEPT ![m_record[tk]] = @ \union {entry}]
      BY <1>5, <2>2, <2>4, <3>1
    <3>2. CASE heap' = Append(heap, {entry})
      <4>1. heap \in Seq(SUBSET Entries)  BY DEF TypeInv, TypeOK
      <4>2. (r \in DOMAIN heap /\ heap'[r] = heap[r]) \/ heap'[r] = {entry}
        BY <2>4, <3>2, <4>1
      <4> QED  BY <1>5, <2>2, <2>4, <4>2
    <3> QED  BY <1>9, <3>1, <3>2 DEF InsertRecord
  <2> QED  BY <1>1, <1>4, <1>5, <1>6, <2>1, <2>3, <2>4, StatsElsewhere DEF traceVars
<1>10. CASE EraseRecord(th)
  <2>1. UNCHANGED <<traceVars, heap>> /\ shpc[th] = "drop" /\ found[th] \in DOMAIN heap
    BY <1>10 DEF EraseRecord, TypeInv, CallsTyped
  <2>2. shpc'[th] \in {"idle", "iterate"} /\ dpc[th] = "idle"
    BY <1>10, <2>1 DEF EraseRecord, TypeInv, TypeOK, CallsTyped
  <2>3. todo'[th] = todo[th] \/ todo'[th] = heap[found[th]]
    BY <1>10 DEF EraseRecord, TypeInv, TypeOK
  <2>4. NamesHeld(th)'  BY <2>1, <2>2 DEF NamesHeld, traceVars
  <2>5. \A e \in todo'[th] : e[1] \in DOMAIN m_trace  BY <1>5, <2>1, <2>3
  <2> QED  BY <1>1, <1>4, <1>5, <1>6, <2>1, <2>4, <2>5, StatsElsewhere DEF traceVars
<1>11. CASE EraseEnd(th)
  <2>1. UNCHANGED <<traceVars, heap, todo>> /\ shpc'[th] = "idle" /\ dpc[th] = "idle"
    BY <1>11 DEF EraseEnd, TypeInv, TypeOK
  <2>2. NamesHeld(th)'  BY <2>1 DEF NamesHeld, traceVars
  <2> QED  BY <1>1, <1>4, <1>5, <1>6, <2>1, <2>2, StatsElsewhere DEF traceVars
<1>12. ASSUME NEW entry \in todo[th], EraseEntry(th, entry)  PROVE NothingGone'
  <2>1. ReadAs(entry[1]) = {entry[1]}  BY <1>3 DEF ReadAs, Astray
  <2>2. CallErase(th, entry[1])  BY <1>12, <2>1 DEF EraseEntry
  <2>3. /\ UNCHANGED <<m_trace, statVars, heap>> /\ dpc[th] = "idle" /\ shpc[th] = "iterate"
        /\ dpc'[th] = "dec" /\ dpath'[th] = entry[1] /\ shpc' = shpc
    BY <1>12, <2>2 DEF EraseEntry, CallErase, TypeInv, TypeOK, DocTypeOK
  <2>4. NamesHeld(th)'  BY <1>5, <1>12, <2>3 DEF NamesHeld
  <2>5. todo'[th] \subseteq todo[th]  BY <1>12 DEF EraseEntry, RestOf, TypeInv, TypeOK
  <2> QED  BY <1>1, <1>4, <1>5, <1>6, <2>3, <2>4, <2>5, StatsElsewhere
<1> QED  BY <1>7, <1>8, <1>9, <1>10, <1>11, <1>12 DEF ThreadStep

\* The calls.
LEMMA BeginInsertStats ==
  ASSUME StatsInv, NEW th \in Threads, NEW i, BeginInsert(th, i), i.doc \in Paths, TypeInv'
  PROVE  StatsInv'
<1> USE DEF StatsInv
<1>1. SUFFICES ASSUME ~freed'  PROVE NothingGone'
  OBVIOUS
<1>2. /\ UNCHANGED <<m_trace, statVars, fateVars, heap, todo>> /\ dpc[th] = "idle"
      /\ dpc'[th] = "add1" /\ dpath'[th] = i.doc /\ shpc'[th] = "trace"
      /\ \A o \in Threads \ {th} : /\ dpc'[o] = dpc[o] /\ dpath'[o] = dpath[o]
                                   /\ hook'[o] = hook[o] /\ shpc'[o] = shpc[o]
  BY DEF BeginInsert, CallAdd, TypeInv, TypeOK, DocTypeOK
<1>3. NothingGone  BY <1>1, <1>2
<1>4. NamesHeld(th)'  BY <1>2 DEF NamesHeld
<1> QED  BY <1>2, <1>3, <1>4, StatsElsewhere DEF NothingGone

LEMMA CallEraseStats ==
  ASSUME StatsInv, NEW th \in Threads, NEW tk, CallEraseToken(th, tk), TypeInv'
  PROVE  StatsInv'
<1> USE DEF StatsInv
<1>1. SUFFICES ASSUME ~freed'  PROVE NothingGone'
  OBVIOUS
<1>2. /\ UNCHANGED <<traceVars, heap, todo>> /\ shpc[th] = "idle" /\ shpc'[th] = "drop"
      /\ \A o \in Threads \ {th} : shpc'[o] = shpc[o]
  BY DEF CallEraseToken, AtRest, TypeInv, TypeOK
<1>3. NothingGone /\ dpc[th] = "idle"
  BY <1>1, <1>2 DEF traceVars, TypeInv, CallsTyped
<1>4. NamesHeld(th)'  BY <1>2, <1>3 DEF NamesHeld, traceVars
<1> QED  BY <1>2, <1>3, <1>4, StatsElsewhere DEF NothingGone, traceVars

\* With nothing in memory nothing is missing.
Blank ==
    /\ m_trace = <<>> /\ m_stats = {} /\ dangling = 0 /\ m_record = <<>> /\ heap = <<>>
    /\ dpc = [th \in Threads |-> "idle"] /\ shpc = [th \in Threads |-> "idle"]
    /\ todo = [th \in Threads |-> {}]
    /\ surplus = [p \in Views |-> 0]
    /\ freed = FALSE /\ lost = {} /\ crossed = FALSE

LEMMA BlankStats ==
  ASSUME TypeInv, Blank
  PROVE  StatsInv
BY DEF Blank, StatsInv, NothingGone, NamesHeld

LEMMA StatsAtRest ==
  ASSUME StatsInv
  PROVE  IndexedHaveStats
<1> SUFFICES ASSUME Quiet, ~freed  PROVE m_stats = DOMAIN m_trace /\ dangling = 0
  BY DEF IndexedHaveStats
<1>1. NothingGone /\ \A p \in Views : ~Stating(p)
  BY DEF StatsInv, Quiet, DocQuiet, Stating
<1>2. DOMAIN m_trace \subseteq Views  BY DEF StatsInv, TypeInv, TypeOK, DocTypeOK
<1> QED  BY <1>1, <1>2 DEF NothingGone

LEMMA NextStats == StatsInv /\ [Next]_vars => StatsInv'
<1> SUFFICES ASSUME StatsInv, [Next]_vars PROVE StatsInv'  OBVIOUS
<1>1. TypeInv'  BY NextType DEF StatsInv
<1>2. CASE \E th \in Threads : ThreadStep(th)  BY <1>2, ThreadStepStats
<1>3. ASSUME NEW th \in Threads, NEW i \in Inserts, CallInsert(th, i)  PROVE StatsInv'
  BY <1>1, <1>3, InsertsAssumption, BeginInsertStats DEF CallInsert
<1>4. ASSUME NEW th \in Threads, NEW tk \in Erasable, CallEraseToken(th, tk)  PROVE StatsInv'
  BY <1>1, <1>4, CallEraseStats
<1>5. CASE UNCHANGED vars
  BY <1>1, <1>5 DEF vars, traceVars, shardVars, StatsInv, NothingGone, NamesHeld, Stating
<1> QED  BY <1>2, <1>3, <1>4, <1>5 DEF Next

\* At rest, as long as no document has left the index, the documents with statistics are
\* those with a count: with any number of threads that insert and erase side by side, and
\* whatever their counts wrap around at.
THEOREM StatsOfIndexed == Spec => []IndexedHaveStats
<1>1. Init => StatsInv
  BY InitType, BlankStats DEF Init, DocInit, Blank
<1>2. StatsInv => IndexedHaveStats  BY StatsAtRest
<1> QED  BY <1>1, <1>2, NextStats, PTL DEF Spec

-----------------------------------------------------------------------------
(* References: what a step leaves                                           *)

\* A set in which at most x changes has one more or less, or as many as before.
LEMMA OneMember ==
  ASSUME NEW S, NEW T, NEW x, IsFiniteSet(S), S \ {x} = T \ {x}
  PROVE  /\ IsFiniteSet(T) /\ Cardinality(S) \in Nat /\ Cardinality(T) \in Nat
         /\ (x \in S <=> x \in T) => T = S
         /\ x \in T /\ x \notin S => Cardinality(T) = Cardinality(S) + 1
         /\ x \notin T /\ x \in S => Cardinality(T) = Cardinality(S) - 1
<1>1. CASE x \in S <=> x \in T
  <2>1. T = S  BY <1>1
  <2> QED  BY <1>1, <2>1, FS_CardinalityType
<1>2. CASE x \in T /\ x \notin S
  <2>1. T = S \union {x}  BY <1>2
  <2>2. IsFiniteSet(T) /\ Cardinality(T) = Cardinality(S) + 1  BY <1>2, <2>1, FS_AddElement
  <2> QED  BY <1>2, <2>2, FS_CardinalityType
<1>3. CASE x \notin T /\ x \in S
  <2>1. T = S \ {x}  BY <1>3
  <2>2. IsFiniteSet(T) /\ Cardinality(T) = Cardinality(S) - 1  BY <1>3, <2>1, FS_RemoveElement
  <2> QED  BY <1>3, <2>2, FS_CardinalityType
<1> QED  BY <1>1, <1>2, <1>3

LEMMA SameSet ==
  ASSUME NEW S, NEW T, NEW x, T \ {x} = S \ {x}, x \in S <=> x \in T
  PROVE  T = S
OBVIOUS

LEMMA ThreadsCounted ==
  ASSUME NEW p \in Paths
  PROVE  /\ IsFiniteSet(Going[p]) /\ Cardinality(Going[p]) \in Nat
         /\ IsFiniteSet(Coming[p]) /\ Cardinality(Coming[p]) \in Nat
<1>1. Going[p] \in SUBSET Threads /\ Coming[p] \in SUBSET Threads  BY DEF Going, Coming
<1>2. IsFiniteSet(Going[p]) /\ IsFiniteSet(Coming[p])  BY <1>1, ThreadsAssumption, FS_Subset
<1> QED  BY <1>2, FS_CardinalityType

LEMMA CountNat ==
  ASSUME TypeInv, CountsRight, NEW p \in Paths
  PROVE  /\ Count[p] \in Nat /\ Due[p] \in Nat /\ surplus[p] \in Nat
         /\ Cardinality(Held[p]) \in Nat /\ Cardinality(Going[p]) \in Nat
         /\ Cardinality(Coming[p]) \in Nat
         /\ Count[p] = Cardinality(Held[p]) + surplus[p] + Cardinality(Going[p])
         /\ Due[p] = Count[p] + Cardinality(Coming[p])
<1>1. Cardinality(Held[p]) \in Nat  BY FS_CardinalityType DEF CountsRight
<1>2. surplus[p] \in Nat  BY DEF TypeInv, TypeOK, Views
<1>3. /\ Count[p] = Cardinality(Held[p]) + surplus[p] + Cardinality(Going[p])
      /\ Due[p] = Count[p] + Cardinality(Coming[p])
  BY DEF Count, Due
<1> QED  BY <1>1, <1>2, <1>3, ThreadsCounted

\* A step of one thread moves at most that thread.
OnlyMoves(th) ==
    \A o \in Threads \ {th} :
      dpc'[o] = dpc[o] /\ dpath'[o] = dpath[o] /\ shpc'[o] = shpc[o] /\ hook'[o] = hook[o]

LEMMA OneThreadMoves ==
  ASSUME NEW th \in Threads, NEW p \in Paths, OnlyMoves(th)
  PROVE  /\ Going'[p] \ {th} = Going[p] \ {th} /\ Coming'[p] \ {th} = Coming[p] \ {th}
         /\ Making'[p] \ {th} = Making[p] \ {th}
<1>1. Going'[p] \ {th} = Going[p] \ {th}  BY DEF OnlyMoves, Going
<1>2. Coming'[p] \ {th} = Coming[p] \ {th}  BY DEF OnlyMoves, Coming
<1>3. Making'[p] \ {th} = Making[p] \ {th}  BY DEF OnlyMoves, Making
<1> QED  BY <1>1, <1>2, <1>3

LEMMA RecordsStayApart ==
  ASSUME TypeInv, RecordsApart, NEW th \in Threads, ThreadStep(th)
  PROVE  RecordsApart'
<1>1. CASE InsertRecord(th)
  <2>1. \A k \in DOMAIN m_record : m_record[k] \in 1 .. Len(heap)  BY DEF TypeInv, TypeOK
  <2>2. Len(heap) \in Nat  BY DEF TypeInv, TypeOK
  <2>3. CASE m_record' = m_record  BY <2>3 DEF RecordsApart
  <2>4. CASE m_record' = Inserted(m_record, call[th].token, Len(heap) + 1)
    BY <2>1, <2>2, <2>4 DEF RecordsApart, Inserted
  <2> QED  BY <1>1, <2>3, <2>4 DEF InsertRecord, NextRecord
<1>2. CASE EraseRecord(th)
  BY <1>2 DEF EraseRecord, Erased, Restrict, RecordsApart
<1>3. CASE m_record' = m_record  BY <1>3 DEF RecordsApart
<1> QED
  BY <1>1, <1>2, <1>3 DEF ThreadStep, TraceStep, SizeStep, EraseEnd, EraseEntry, shardVars

\* What an insert does to the records: the entry is in the token's record, which may be a new
\* one, and all others are as they were.
PutIn(th, record) ==
    /\ DOMAIN heap' = DOMAIN heap \union {record}
    /\ \A r \in DOMAIN heap \ {record} :
         /\ heap'[r] = heap[r]
         /\ \A tk : (tk \in DOMAIN m_record' /\ m_record'[tk] = r)
                      <=> (tk \in DOMAIN m_record /\ m_record[tk] = r)
    /\ \E tk \in DOMAIN m_record' : m_record'[tk] = record
    /\ \/ /\ record \in DOMAIN heap /\ \E tk \in DOMAIN m_record : m_record[tk] = record
          /\ m_record' = m_record
          /\ heap'[record] = heap[record] \union {<<hook[th], call[th].pos>>}
          /\ surplus' = IF <<hook[th], call[th].pos>> \in heap[record]
                        THEN [surplus EXCEPT ![hook[th]] = @ + 1] ELSE surplus
       \/ /\ record \notin DOMAIN heap
          /\ heap'[record] = {<<hook[th], call[th].pos>>}
          /\ surplus' = surplus

LEMMA InsertRecordHeap ==
  ASSUME TypeInv, RecordsApart, NEW th \in Threads, InsertRecord(th)
  PROVE  \E record : PutIn(th, record)
<1> DEFINE tk == call[th].token
           entry == <<hook[th], call[th].pos>>
<1>1. /\ heap \in Seq(SUBSET Entries) /\ Len(heap) \in Nat /\ DOMAIN heap = 1 .. Len(heap)
      /\ \A k \in DOMAIN m_record : m_record[k] \in DOMAIN heap
  BY DEF TypeInv, TypeOK
<1>2. CASE Contains(m_record, tk)
  <2> DEFINE record == m_record[tk]
  <2>1. /\ m_record' = m_record /\ tk \in DOMAIN m_record /\ record \in DOMAIN heap
        /\ heap' = [heap EXCEPT ![record] = @ \union {entry}]
        /\ surplus' = IF entry \in heap[record]
                      THEN [surplus EXCEPT ![hook[th]] = @ + 1] ELSE surplus
    BY <1>1, <1>2 DEF InsertRecord, Contains
  <2> HIDE DEF entry, record
  <2>2. /\ DOMAIN heap' = DOMAIN heap \union {record}
        /\ heap'[record] = heap[record] \union {entry}
        /\ \A r \in DOMAIN heap \ {record} : heap'[r] = heap[r]
    BY <2>1
  <2>3. \E k \in DOMAIN m_record : m_record[k] = record  BY <2>1 DEF record
  <2>4. PutIn(th, record)  BY <2>1, <2>2, <2>3 DEF PutIn, entry
  <2> QED  BY <2>4
<1>3. CASE ~Contains(m_record, tk)
  <2> DEFINE record == Len(heap) + 1
  <2>1. /\ m_record' = Inserted(m_record, tk, record) /\ tk \notin DOMAIN m_record
        /\ heap' = Append(heap, {entry})
        /\ surplus' = surplus
    BY <1>3 DEF InsertRecord, NextRecord, Contains
  <2>2. /\ record \notin DOMAIN heap /\ DOMAIN heap' = DOMAIN heap \union {record}
        /\ heap'[record] = {entry}
        /\ \A r \in DOMAIN heap : heap'[r] = heap[r]
    BY <1>1, <2>1
  <2>3. /\ DOMAIN m_record' = DOMAIN m_record \union {tk} /\ m_record'[tk] = record
        /\ \A k \in DOMAIN m_record : k # tk /\ m_record'[k] = m_record[k]
    BY <2>1 DEF Inserted
  <2> HIDE DEF entry, record, tk
  <2>4. \A r \in DOMAIN heap : \A k :
          (k \in DOMAIN m_record' /\ m_record'[k] = r) <=> (k \in DOMAIN m_record /\ m_record[k] = r)
    BY <2>2, <2>3
  <2>5. PutIn(th, record)  BY <2>1, <2>2, <2>3, <2>4 DEF PutIn, entry
  <2> QED  BY <2>5
<1> QED  BY <1>2, <1>3

LEMMA IteratedStayApart ==
  ASSUME StraightInv, NEW th \in Threads, ThreadStep(th), ~crossed'
  PROVE  IteratedApart'
<1> USE DEF StraightInv, Straight
<1>1. \A o \in Threads \ {th} : shpc'[o] = shpc[o] /\ found'[o] = found[o]
  BY OthersUntouched
<1>2. CASE InsertRecord(th)
  <2>1. PICK record : PutIn(th, record)  BY <1>2, InsertRecordHeap
  <2>2. found' = found /\ shpc'[th] = "idle"  BY <1>2 DEF InsertRecord, TypeInv, TypeOK
  <2>3. ASSUME NEW o \in Threads, shpc'[o] = "iterate"
        PROVE  /\ found'[o] \in DOMAIN heap'
               /\ \A tk \in DOMAIN m_record' : m_record'[tk] # found'[o]
    <3>1. o # th /\ shpc[o] = "iterate"  BY <1>1, <2>2, <2>3
    <3>2. found[o] \in DOMAIN heap /\ \A tk \in DOMAIN m_record : m_record[tk] # found[o]
      BY <3>1 DEF IteratedApart
    <3> QED  BY <2>1, <2>2, <3>2 DEF PutIn
  <2> QED  BY <1>1, <2>2, <2>3 DEF IteratedApart
<1>3. CASE EraseRecord(th)
  <2> DEFINE tk == call[th].token
  <2>1. heap' = heap /\ found' = found /\ shpc[th] = "drop" /\ found[th] \in DOMAIN heap
    BY <1>3 DEF EraseRecord, TypeInv, CallsTyped
  <2>2. CASE Contains(m_record, tk)
    <3>1. m_record' = Erased(m_record, tk) /\ m_record[tk] = found[th] /\ tk \in DOMAIN m_record
      BY <1>3, <2>2 DEF EraseRecord, Contains
    <3>2. /\ DOMAIN m_record' = DOMAIN m_record \ {tk}
          /\ \A k \in DOMAIN m_record' : m_record'[k] = m_record[k]
      BY <3>1 DEF Erased, Restrict
    <3>3. \A k \in DOMAIN m_record' : m_record'[k] # found[th]
      BY <3>1, <3>2 DEF RecordsApart
    <3>4. \A o \in Threads \ {th} : shpc[o] = "iterate" =>
            /\ found[o] \in DOMAIN heap /\ found[o] # found[th]
            /\ \A k \in DOMAIN m_record : m_record[k] # found[o]
            /\ \A u \in Threads \ {o} : shpc[u] = "iterate" => found[u] # found[o]
      BY <3>1 DEF IteratedApart
    <3> QED  BY <1>1, <2>1, <3>2, <3>3, <3>4 DEF IteratedApart
  <2>3. CASE ~Contains(m_record, tk)
    <3>1. m_record' = m_record /\ shpc'[th] = "idle"
      BY <1>3, <2>3 DEF EraseRecord, TypeInv, TypeOK
    <3> QED  BY <1>1, <2>1, <3>1 DEF IteratedApart
  <2> QED  BY <2>2, <2>3
<1>4. CASE UNCHANGED <<m_record, heap, found, shpc>>
  BY <1>4 DEF IteratedApart
<1>5. CASE EraseEnd(th)
  <2>1. UNCHANGED <<m_record, heap, found>> /\ shpc'[th] = "idle"
    BY <1>5 DEF EraseEnd, TypeInv, TypeOK
  <2> QED  BY <1>1, <2>1 DEF IteratedApart
<1> QED
  BY <1>2, <1>3, <1>4, <1>5 DEF ThreadStep, TraceStep, SizeStep, EraseEntry, shardVars

LEMMA NamesStayKnown ==
  ASSUME StraightInv, NEW th \in Threads, ThreadStep(th)
  PROVE  NamesKnown'
<1> USE DEF StraightInv, Straight
<1>1. lost \subseteq lost'
  BY DEF ThreadStep, TraceStep, SizeStep, InsertRecord, EraseRecord, EraseEntry, EraseEnd,
         DocStep, AddFirst, AddSecond, AddStat, EraseDecrement, EraseCheck, EraseStat,
         CallErase, traceVars
<1>2. CASE heap' = heap  BY <1>1, <1>2 DEF NamesKnown
<1>3. CASE InsertRecord(th)
  <2> SUFFICES ASSUME lost' = {}, NEW r \in DOMAIN heap', NEW e \in heap'[r]
               PROVE  e[1] # NoView
    BY DEF NamesKnown
  <2>1. lost = {}  BY <1>1
  <2>2. hook[th] # NoView
    BY <1>3, <2>1, PathsAssumption DEF InsertRecord, CallsPlaced
  <2>3. PICK record : PutIn(th, record)  BY <1>3, InsertRecordHeap
  <2>4. \/ r \in DOMAIN heap /\ e \in heap[r]
        \/ e = <<hook[th], call[th].pos>>
    BY <2>3 DEF PutIn
  <2> QED  BY <2>1, <2>2, <2>4 DEF NamesKnown
<1> QED
  BY <1>2, <1>3 DEF ThreadStep, TraceStep, SizeStep, EraseRecord, EraseEntry, EraseEnd, shardVars

LEMMA CallsStayPlaced ==
  ASSUME StraightInv, NEW th \in Threads, ThreadStep(th)
  PROVE  CallsPlaced'
<1> USE DEF StraightInv, Straight
<1> DEFINE Placed(t) ==
      /\ shpc[t] = "iterate" => dpc[t] \in {"idle", "dec", "check", "unstat"}
      /\ shpc[t] = "trace" => dpath[t] \in Paths /\ dpc[t] \in {"add1", "add2", "stat", "idle"}
      /\ shpc[t] = "trace" /\ dpc[t] \in {"stat", "idle"} =>
           hook[t] = dpath[t] \/ (hook[t] = NoView /\ dpath[t] \in lost)
<1>1. lost \subseteq lost'
  BY DEF ThreadStep, TraceStep, SizeStep, InsertRecord, EraseRecord, EraseEntry, EraseEnd,
         DocStep, AddFirst, AddSecond, AddStat, EraseDecrement, EraseCheck, EraseStat,
         CallErase, traceVars
<1>2. ASSUME NEW o \in Threads \ {th}  PROVE Placed(o)'
  <2>1. Placed(o)  BY DEF CallsPlaced
  <2>2. dpc'[o] = dpc[o] /\ dpath'[o] = dpath[o] /\ shpc'[o] = shpc[o] /\ hook'[o] = hook[o]
    BY OthersUntouched
  <2> QED  BY <1>1, <2>1, <2>2
<1>3. Placed(th)'
  <2>1. CASE shpc[th] = "trace"
    <3>1. /\ dpath[th] \in Paths /\ dpath[th] # NoView /\ dpc[th] \in {"add1", "add2", "stat", "idle"}
          /\ dpc[th] \in {"stat", "idle"} =>
               hook[th] = dpath[th] \/ (hook[th] = NoView /\ dpath[th] \in lost)
      BY <2>1, PathsAssumption DEF CallsPlaced
    <3>2. dpc[th] = "add2" => dpath[th] \in DOMAIN m_trace \/ dpath[th] \in lost
      BY <3>1 DEF CountsRight, CountRight, Making
    <3>3. CASE TraceStep(th)
      <4>1. shpc' = shpc /\ dpath' = dpath
        BY <3>3 DEF TraceStep, DocStep, AddFirst, AddSecond, AddStat, EraseDecrement, EraseCheck,
                    EraseStat, shardVars
      <4>2. /\ dpc'[th] \in {"add2", "stat", "idle"}
            /\ dpc'[th] \in {"stat", "idle"} =>
                 hook'[th] = dpath[th] \/ (hook'[th] = NoView /\ dpath[th] \in lost)
        BY <3>1, <3>2, <3>3
           DEF TraceStep, DocStep, AddFirst, AddSecond, AddStat, EraseDecrement, EraseCheck,
               EraseStat, HookFor, Contains, TypeInv, TypeOK, DocTypeOK
      <4> QED  BY <1>1, <2>1, <3>1, <4>1, <4>2
    <3>4. CASE SizeStep(th)
      BY <2>1, <3>1, <3>4 DEF SizeStep, traceVars, shardVars
    <3>5. CASE InsertRecord(th)
      BY <3>1, <3>5 DEF InsertRecord, traceVars, TypeInv, TypeOK
    <3> QED  BY <2>1, <3>3, <3>4, <3>5 DEF ThreadStep, EraseRecord, EraseEnd, EraseEntry
  <2>2. CASE shpc[th] = "drop"
    <3>1. dpc[th] = "idle" /\ ~Owes(th)  BY <2>2 DEF TypeInv, CallsTyped
    <3>2. EraseRecord(th)
      BY <2>2, <3>1 DEF ThreadStep, TraceStep, DocStep, AddFirst, AddSecond, AddStat, EraseDecrement,
                        EraseCheck, EraseStat, SizeStep, CountDiff, InsertRecord, EraseEnd, EraseEntry
    <3>3. dpc' = dpc /\ shpc'[th] \in {"idle", "iterate"}
      BY <3>2 DEF EraseRecord, traceVars, TypeInv, TypeOK
    <3> QED  BY <3>1, <3>3
  <2>3. CASE shpc[th] = "iterate"
    <3>1. dpc[th] \in {"idle", "dec", "check", "unstat"}
      BY <2>3 DEF CallsPlaced
    <3>2. CASE TraceStep(th)
      BY <2>3, <3>1, <3>2
         DEF TraceStep, DocStep, AddFirst, AddSecond, AddStat, EraseDecrement, EraseCheck, EraseStat,
             shardVars, TypeInv, TypeOK, DocTypeOK
    <3>3. CASE SizeStep(th)
      BY <2>3, <3>1, <3>3 DEF SizeStep, traceVars, shardVars, CallsPlaced
    <3>4. CASE EraseEnd(th)
      BY <3>4 DEF EraseEnd, traceVars, TypeInv, TypeOK
    <3>5. ASSUME NEW entry, EraseEntry(th, entry)  PROVE Placed(th)'
      BY <2>3, <3>1, <3>5 DEF EraseEntry, CallErase, TypeInv, TypeOK, DocTypeOK
    <3> QED  BY <2>3, <3>2, <3>3, <3>4, <3>5 DEF ThreadStep, InsertRecord, EraseRecord
  <2>4. CASE shpc[th] = "idle"
    <3>1. dpc[th] = "idle"  BY <2>4 DEF TypeInv, CallsTyped
    <3>2. SizeStep(th)
      BY <2>4, <3>1 DEF ThreadStep, TraceStep, DocStep, AddFirst, AddSecond, AddStat, EraseDecrement,
                        EraseCheck, EraseStat, InsertRecord, EraseRecord, EraseEnd, EraseEntry
    <3> QED  BY <2>4, <3>1, <3>2 DEF SizeStep, traceVars, shardVars
  <2> QED
    BY <2>1, <2>2, <2>3, <2>4 DEF TypeInv, TypeOK
<1> QED  BY <1>2, <1>3 DEF CallsPlaced

\* A count that is due does not wrap.
LEMMA CountFits ==
  ASSUME CountsFit, NEW n \in Nat, n <= MaxCalls
  PROVE  Wrap(n) = n
<1> DEFINE C == 2 ^ CountWidth
<1>1. C \in Nat \ {0} /\ MaxCalls < C  BY WidthAssumption DEF CountsFit
<1> HIDE DEF C
<1>2. n % C = n  BY <1>1, MaxCallsAssumption
<1> QED  BY <1>2 DEF Wrap, C

\* So the number of threads on their way to a document changes with that thread only.
LEMMA OneThreadCounts ==
  ASSUME NEW th \in Threads, NEW p \in Paths, OnlyMoves(th)
  PROVE  /\ Cardinality(Going'[p]) \in Nat /\ Cardinality(Coming'[p]) \in Nat
         /\ (th \in Going[p] <=> th \in Going'[p]) => Cardinality(Going'[p]) = Cardinality(Going[p])
         /\ th \notin Going[p] /\ th \in Going'[p] =>
              Cardinality(Going'[p]) = Cardinality(Going[p]) + 1
         /\ th \in Going[p] /\ th \notin Going'[p] =>
              Cardinality(Going'[p]) = Cardinality(Going[p]) - 1
         /\ (th \in Coming[p] <=> th \in Coming'[p]) =>
              Cardinality(Coming'[p]) = Cardinality(Coming[p])
         /\ th \notin Coming[p] /\ th \in Coming'[p] =>
              Cardinality(Coming'[p]) = Cardinality(Coming[p]) + 1
         /\ th \in Coming[p] /\ th \notin Coming'[p] =>
              Cardinality(Coming'[p]) = Cardinality(Coming[p]) - 1
<1>1. Going'[p] \ {th} = Going[p] \ {th} /\ Coming'[p] \ {th} = Coming[p] \ {th}
  BY OneThreadMoves
<1>2. IsFiniteSet(Going[p]) /\ IsFiniteSet(Coming[p])  BY ThreadsCounted
<1> DEFINE going == Going[p]
           goingNow == Going'[p]
           coming == Coming[p]
           comingNow == Coming'[p]
<1>3. /\ goingNow \ {th} = going \ {th} /\ IsFiniteSet(going)
      /\ comingNow \ {th} = coming \ {th} /\ IsFiniteSet(coming)
  BY <1>1, <1>2
<1> HIDE DEF going, goingNow, coming, comingNow
<1>4. /\ Cardinality(goingNow) \in Nat
      /\ (th \in going <=> th \in goingNow) => Cardinality(goingNow) = Cardinality(going)
      /\ th \notin going /\ th \in goingNow => Cardinality(goingNow) = Cardinality(going) + 1
      /\ th \in going /\ th \notin goingNow => Cardinality(goingNow) = Cardinality(going) - 1
  BY <1>3, OneMember
<1>5. /\ Cardinality(comingNow) \in Nat
      /\ (th \in coming <=> th \in comingNow) => Cardinality(comingNow) = Cardinality(coming)
      /\ th \notin coming /\ th \in comingNow => Cardinality(comingNow) = Cardinality(coming) + 1
      /\ th \in coming /\ th \notin comingNow => Cardinality(comingNow) = Cardinality(coming) - 1
  BY <1>3, OneMember
<1> QED  BY <1>4, <1>5 DEF going, goingNow, coming, comingNow

\* What a step does for a document.
Kept(p) ==
    /\ IsFiniteSet(Held'[p])
    /\ CountRight(p, m_trace', Count'[p], Making'[p], p \in lost')
    /\ Due'[p] \in Nat /\ Due'[p] <= Due[p]

LEMMA KeptForAll ==
  ASSUME \A p \in Paths : Kept(p)
  PROVE  CountsRight' /\ \A p \in Paths : Due'[p] \in Nat /\ Due'[p] <= Due[p]
<1>1. CountsRight'
  <2> SUFFICES ASSUME NEW p \in Paths
               PROVE  /\ IsFiniteSet(Held'[p])
                      /\ CountRight(p, m_trace', Count'[p], Making'[p], p \in lost')
    BY DEF CountsRight, CountRight
  <2> QED  BY DEF Kept
<1> QED  BY <1>1 DEF Kept

\* The sum that is due to a document, after a step of th, in numbers.
LEMMA DueNow ==
  ASSUME NEW p \in Paths
  PROVE  /\ Count'[p] = Cardinality(Held'[p]) + surplus'[p] + Cardinality(Going'[p])
         /\ Due'[p] = Count'[p] + Cardinality(Coming'[p])
BY DEF Count, Due

\* A document the step has nothing to do with.
LEMMA KeptAsItWas ==
  ASSUME TypeInv, CountsRight, NEW th \in Threads, NEW p \in Paths, OnlyMoves(th),
         th \in Going[p] <=> th \in Going'[p], th \in Coming[p] <=> th \in Coming'[p],
         th \in Making[p] <=> th \in Making'[p],
         Held'[p] = Held[p], surplus'[p] = surplus[p], p \in lost => p \in lost',
         p \in DOMAIN m_trace' <=> p \in DOMAIN m_trace,
         p \in DOMAIN m_trace => m_trace'[p] = m_trace[p]
  PROVE  Kept(p) /\ Due'[p] = Due[p]
<1>1. Making'[p] = Making[p]
  BY OneThreadMoves, SameSet
<1>2. Count'[p] = Count[p] /\ Due'[p] = Due[p]
  BY OneThreadCounts, CountNat, DueNow
<1>3. Due[p] \in Nat  BY CountNat
<1>4. IsFiniteSet(Held[p]) /\ CountRight(p, m_trace, Count[p], Making[p], p \in lost)
  BY DEF CountsRight
<1>5. CountRight(p, m_trace', Count'[p], Making'[p], p \in lost')
  BY <1>1, <1>2, <1>4 DEF CountRight
<1> QED
  BY <1>2, <1>3, <1>4, <1>5 DEF Kept

LEMMA KeptElsewhere ==
  ASSUME TypeInv, CallsPlaced, CallsPlaced', CountsRight,
         NEW th \in Threads, NEW p \in Paths, OnlyMoves(th),
         dpath[th] # p \/ (dpc[th] = "idle" /\ shpc[th] # "trace"),
         dpath'[th] # p \/ (dpc'[th] = "idle" /\ shpc'[th] # "trace"),
         Held'[p] = Held[p], surplus'[p] = surplus[p], p \in lost => p \in lost',
         p \in DOMAIN m_trace' <=> p \in DOMAIN m_trace,
         p \in DOMAIN m_trace => m_trace'[p] = m_trace[p]
  PROVE  Kept(p) /\ Due'[p] = Due[p]
<1>1. th \notin Going[p] /\ th \notin Coming[p] /\ th \notin Making[p]
  BY PathsAssumption DEF Going, Coming, Making, CallsPlaced
<1>2. th \notin Going'[p] /\ th \notin Coming'[p] /\ th \notin Making'[p]
  BY PathsAssumption DEF Going, Coming, Making, CallsPlaced
<1> QED  BY <1>1, <1>2, KeptAsItWas

\* Where a thread that takes a step of DocTrace is, and that it has nothing to do with other
\* documents.
LEMMA TraceStepAt ==
  ASSUME StraightInv, NEW th \in Threads, TraceStep(th)
  PROVE  /\ OnlyMoves(th) /\ dpath' = dpath /\ dpath[th] \in Views /\ UNCHANGED shardVars
         /\ Held' = Held /\ CallsPlaced'
         /\ dpc[th] \in {"add1", "add2", "stat"} => shpc[th] = "trace" /\ dpath[th] # NoView
         /\ dpc[th] \in {"dec", "check", "unstat"} => shpc[th] = "iterate"
<1> USE DEF StraightInv, Straight
<1>1. ThreadStep(th)  BY DEF ThreadStep
<1>2. OnlyMoves(th)  BY <1>1, OthersUntouched DEF OnlyMoves
<1>3. UNCHANGED shardVars  BY DEF TraceStep
<1>4. Held' = Held  BY <1>3 DEF Held, Holds, Indexed, Taken, shardVars
<1>5. dpath' = dpath
  BY DEF TraceStep, DocStep, AddFirst, AddSecond, AddStat, EraseDecrement, EraseCheck, EraseStat
<1>6. dpath[th] \in Views /\ shpc[th] \in {"idle", "trace", "drop", "iterate"}
  BY DEF TypeInv, TypeOK, DocTypeOK
<1>7. /\ shpc[th] \in {"idle", "drop"} => dpc[th] = "idle"
      /\ shpc[th] = "iterate" => dpc[th] \in {"idle", "dec", "check", "unstat"}
      /\ shpc[th] = "trace" => dpath[th] \in Paths /\ dpc[th] \in {"add1", "add2", "stat", "idle"}
  BY DEF CallsPlaced, TypeInv, CallsTyped
<1>8. CallsPlaced'  BY <1>1, CallsStayPlaced
<1> QED  BY <1>2, <1>3, <1>4, <1>5, <1>6, <1>7, <1>8, PathsAssumption

\* The counts of its own document, before and after.
LEMMA OwnCounts ==
  ASSUME StraightInv, NEW th \in Threads, TraceStep(th), NEW p \in Paths
  PROVE  /\ Due[p] \in Nat /\ Count[p] \in Nat /\ Count'[p] \in Nat
         /\ Due[p] = Count[p] + Cardinality(Coming[p])
         /\ Due'[p] = Count'[p] + Cardinality(Coming'[p])
         /\ Count'[p] - Cardinality(Going'[p]) = Count[p] - Cardinality(Going[p])
         /\ Cardinality(Going[p]) \in Nat /\ Cardinality(Coming[p]) \in Nat
         /\ Cardinality(Going'[p]) \in Nat /\ Cardinality(Coming'[p]) \in Nat
         /\ th \in Going[p] => Count[p] # 0
         /\ th \in Coming[p] => Count[p] + 1 <= Due[p]
         /\ IsFiniteSet(Held'[p])
<1>1. OnlyMoves(th) /\ Held' = Held /\ surplus' = surplus  BY TraceStepAt DEF shardVars
<1>2. /\ Due[p] \in Nat /\ Count[p] \in Nat /\ surplus[p] \in Nat
      /\ Cardinality(Held[p]) \in Nat /\ Cardinality(Going[p]) \in Nat
      /\ Cardinality(Coming[p]) \in Nat
      /\ Count[p] = Cardinality(Held[p]) + surplus[p] + Cardinality(Going[p])
      /\ Due[p] = Count[p] + Cardinality(Coming[p])
  BY CountNat DEF StraightInv, Straight
<1>3. Cardinality(Going'[p]) \in Nat /\ Cardinality(Coming'[p]) \in Nat
  BY <1>1, OneThreadCounts
<1>4. /\ Count'[p] = Cardinality(Held[p]) + surplus[p] + Cardinality(Going'[p])
      /\ Due'[p] = Count'[p] + Cardinality(Coming'[p])
  BY <1>1, DueNow
<1>5. th \in Going[p] => Cardinality(Going[p]) # 0
  BY ThreadsCounted, FS_EmptySet
<1>6. th \in Coming[p] => Cardinality(Coming[p]) # 0
  BY ThreadsCounted, FS_EmptySet
<1>7. IsFiniteSet(Held'[p])  BY <1>1 DEF StraightInv, Straight, CountsRight
<1>8. /\ Count'[p] \in Nat
      /\ Count'[p] - Cardinality(Going'[p]) = Count[p] - Cardinality(Going[p])
  BY <1>2, <1>3, <1>4
<1>9. th \in Going[p] => Count[p] # 0  BY <1>2, <1>5
<1>10. th \in Coming[p] => Count[p] + 1 <= Due[p]  BY <1>2, <1>6
<1> QED  BY <1>2, <1>3, <1>4, <1>7, <1>8, <1>9, <1>10

\* No document is due more than MaxCalls.
DueFits == \A p \in Paths : Due[p] <= MaxCalls

\* One more of a count that fits.
LEMMA IncrementFits ==
  ASSUME CountsFit, DueFits, NEW p \in Paths, Count[p] \in Nat, Due[p] \in Nat,
         Count[p] + 1 <= Due[p]
  PROVE  Wrap(Count[p] + 1) = Count[p] + 1
<1>1. Due[p] <= MaxCalls  BY DEF DueFits
<1>2. Count[p] + 1 \in Nat /\ Count[p] + 1 <= MaxCalls  BY <1>1, MaxCallsAssumption
<1> QED  BY <1>2, CountFits

\* addOrIncrement, the first mutate ...
LEMMA AddFirstRefs ==
  ASSUME StraightInv, CountsFit, DueFits,
         NEW th \in Threads, TraceStep(th), AddFirst(th), NEW p \in Paths
  PROVE  Kept(p) /\ Due'[p] = Due[p]
<1> USE DEF StraightInv, Straight
<1>1. /\ OnlyMoves(th) /\ dpath' = dpath /\ shpc' = shpc /\ Held' = Held /\ surplus' = surplus
      /\ shpc[th] = "trace" /\ dpath[th] # NoView /\ dpc[th] = "add1" /\ lost' = lost
      /\ m_trace' = Incremented(dpath[th]) /\ hook'[th] = HookFor(dpath[th])
      /\ dpc'[th] = IF HookFor(dpath[th]) = NoView THEN "add2" ELSE "idle"
      /\ CallsPlaced'
  BY TraceStepAt DEF AddFirst, shardVars, TypeInv, TypeOK, DocTypeOK
<1>2. CASE p # dpath[th]
  <2>1. /\ p \in DOMAIN m_trace' <=> p \in DOMAIN m_trace
        /\ p \in DOMAIN m_trace => m_trace'[p] = m_trace[p]
    BY <1>1, <1>2 DEF Incremented, Inserted
  <2>2. dpath[th] # p /\ dpath'[th] # p /\ Held'[p] = Held[p] /\ surplus'[p] = surplus[p]
    BY <1>1, <1>2
  <2> QED  BY <1>1, <2>1, <2>2, KeptElsewhere
<1>3. CASE p = dpath[th]
  <2>1. th \in Coming[p] /\ th \notin Going[p] /\ th \notin Making[p]
    BY <1>1, <1>3 DEF Coming, Going, Making
  <2>2. CASE p \in DOMAIN m_trace
    <3>1. /\ dpc'[th] = "idle" /\ hook'[th] = p
          /\ m_trace' = [m_trace EXCEPT ![p] = Wrap(m_trace[p] + 1)]
      BY <1>1, <1>3, <2>2 DEF HookFor, Incremented, Contains
    <3>2. th \notin Coming'[p] /\ th \in Going'[p] /\ th \notin Making'[p]
      BY <1>1, <1>3, <3>1 DEF Coming, Going, Making
    <3>3. Count'[p] = Count[p] + 1 /\ Due'[p] = Due[p] /\ Count[p] + 1 <= Due[p]
      BY <1>1, <2>1, <3>2, OneThreadCounts, OwnCounts
    <3>4. m_trace'[p] = Count'[p]
      <4>1. m_trace[p] = Count[p]  BY <2>2 DEF CountsRight, CountRight
      <4>2. Wrap(Count[p] + 1) = Count[p] + 1  BY <3>3, OwnCounts, IncrementFits
      <4> QED  BY <2>2, <3>1, <3>3, <4>1, <4>2
    <3>5. Count'[p] # 0 /\ DOMAIN m_trace' = DOMAIN m_trace  BY <3>1, <3>3, OwnCounts
    <3>6. CountRight(p, m_trace', Count'[p], Making'[p], p \in lost')
      BY <2>2, <3>4, <3>5 DEF CountRight
    <3> QED  BY <3>3, <3>6, OwnCounts DEF Kept
  <2>3. CASE p \notin DOMAIN m_trace
    <3>1. dpc'[th] = "add2" /\ m_trace' = Inserted(m_trace, p, 0)
      BY <1>1, <1>3, <2>3 DEF HookFor, Incremented, Contains
    <3>2. th \in Coming'[p] /\ th \notin Going'[p] /\ th \in Making'[p]
      BY <1>1, <1>3, <3>1 DEF Coming, Going, Making
    <3>3. Count'[p] = Count[p] /\ Due'[p] = Due[p] /\ Count[p] = 0
      BY <1>1, <2>1, <2>3, <3>2, OneThreadCounts, OwnCounts DEF CountsRight, CountRight
    <3>4. p \in DOMAIN m_trace' /\ m_trace'[p] = 0  BY <3>1 DEF Inserted
    <3>5. CountRight(p, m_trace', Count'[p], Making'[p], p \in lost')
      BY <3>2, <3>3, <3>4 DEF CountRight
    <3> QED  BY <3>3, <3>5, OwnCounts DEF Kept
  <2> QED  BY <2>2, <2>3
<1> QED  BY <1>2, <1>3

\* ... the second, which finds what the first has put there, if no erase came in between ...
LEMMA AddSecondRefs ==
  ASSUME StraightInv, CountsFit, DueFits,
         NEW th \in Threads, TraceStep(th), AddSecond(th), NEW p \in Paths
  PROVE  Kept(p)
<1> USE DEF StraightInv, Straight
<1>1. /\ OnlyMoves(th) /\ dpath' = dpath /\ shpc' = shpc /\ Held' = Held /\ surplus' = surplus
      /\ shpc[th] = "trace" /\ dpath[th] # NoView /\ dpc[th] = "add2" /\ lost' = lost
      /\ m_trace' = Incremented(dpath[th]) /\ hook'[th] = HookFor(dpath[th])
      /\ dpc'[th] = "stat" /\ CallsPlaced'
  BY TraceStepAt DEF AddSecond, shardVars, TypeInv, TypeOK, DocTypeOK
<1>2. CASE p # dpath[th]
  <2>1. /\ p \in DOMAIN m_trace' <=> p \in DOMAIN m_trace
        /\ p \in DOMAIN m_trace => m_trace'[p] = m_trace[p]
    BY <1>1, <1>2 DEF Incremented, Inserted
  <2>2. dpath[th] # p /\ dpath'[th] # p /\ Held'[p] = Held[p] /\ surplus'[p] = surplus[p]
    BY <1>1, <1>2
  <2> QED  BY <1>1, <2>1, <2>2, KeptElsewhere
<1>3. CASE p = dpath[th]
  <2>1. th \in Coming[p] /\ th \notin Going[p] /\ th \in Making[p] /\ th \notin Coming'[p]
    BY <1>1, <1>3 DEF Coming, Going, Making
  <2>2. CountRight(p, m_trace, Count[p], Making[p], p \in lost)  BY DEF CountsRight
  <2>3. CASE p \in DOMAIN m_trace
    <3>1. hook'[th] = p /\ m_trace' = [m_trace EXCEPT ![p] = Wrap(m_trace[p] + 1)]
      BY <1>1, <1>3, <2>3 DEF HookFor, Incremented, Contains
    <3>2. th \in Going'[p]  BY <1>1, <3>1 DEF Going
    <3>3. Count'[p] = Count[p] + 1 /\ Due'[p] = Due[p] /\ Count[p] + 1 <= Due[p]
      <4>1. /\ Cardinality(Going'[p]) = Cardinality(Going[p]) + 1
            /\ Cardinality(Coming'[p]) = Cardinality(Coming[p]) - 1
        BY <1>1, <2>1, <3>2, OneThreadCounts
      <4>2. /\ Due[p] \in Nat /\ Count[p] \in Nat /\ Count'[p] \in Nat
            /\ Due[p] = Count[p] + Cardinality(Coming[p])
            /\ Due'[p] = Count'[p] + Cardinality(Coming'[p])
            /\ Count'[p] - Cardinality(Going'[p]) = Count[p] - Cardinality(Going[p])
            /\ Cardinality(Going[p]) \in Nat /\ Cardinality(Coming[p]) \in Nat
            /\ Count[p] + 1 <= Due[p]
        BY <2>1, OwnCounts
      <4> QED  BY <4>1, <4>2
    <3>4. m_trace'[p] = Count'[p]
      <4>1. m_trace[p] = Count[p]  BY <2>2, <2>3 DEF CountRight
      <4>2. Wrap(Count[p] + 1) = Count[p] + 1  BY <3>3, OwnCounts, IncrementFits
      <4> QED  BY <2>3, <3>1, <3>3, <4>1, <4>2
    <3>5. Count'[p] # 0 /\ DOMAIN m_trace' = DOMAIN m_trace  BY <3>1, <3>3, OwnCounts
    <3>6. CountRight(p, m_trace', Count'[p], Making'[p], p \in lost')
      BY <2>3, <3>4, <3>5 DEF CountRight
    <3> QED  BY <3>3, <3>6, OwnCounts DEF Kept
  <2>4. CASE p \notin DOMAIN m_trace
    <3>1. hook'[th] = NoView /\ m_trace' = Inserted(m_trace, p, 0)
      BY <1>1, <1>3, <2>4 DEF HookFor, Incremented, Contains
    <3>2. th \notin Going'[p]  BY <1>1, <3>1, PathsAssumption DEF Going
    <3>3. Count'[p] = Count[p] /\ Due'[p] <= Due[p] /\ Due'[p] \in Nat
      <4>1. /\ Cardinality(Going'[p]) = Cardinality(Going[p])
            /\ Cardinality(Coming'[p]) = Cardinality(Coming[p]) - 1
        BY <1>1, <2>1, <3>2, OneThreadCounts
      <4> QED  BY <2>1, <4>1, OwnCounts
    <3>4. Count[p] = 0 /\ p \in lost  BY <2>1, <2>2, <2>4 DEF CountRight
    <3>5. p \in DOMAIN m_trace' /\ m_trace'[p] = 0  BY <3>1 DEF Inserted
    <3>6. CountRight(p, m_trace', Count'[p], Making'[p], p \in lost')
      BY <1>1, <3>3, <3>4, <3>5 DEF CountRight
    <3> QED  BY <3>3, <3>6, OwnCounts DEF Kept
  <2> QED  BY <2>3, <2>4
<1> QED  BY <1>2, <1>3

\* ... and the statistics, which the counts have nothing to do with, neither here nor when
\* they are taken away.
LEMMA StatRefs ==
  ASSUME StraightInv, NEW th \in Threads, TraceStep(th),
         AddStat(th) \/ EraseCheck(th) \/ EraseStat(th), NEW p \in Paths
  PROVE  Kept(p) /\ Due'[p] = Due[p]
<1> USE DEF StraightInv, Straight
<1>1. /\ OnlyMoves(th) /\ dpath' = dpath /\ shpc' = shpc /\ Held' = Held /\ surplus' = surplus
      /\ m_trace' = m_trace /\ hook' = hook /\ lost' = lost
  BY TraceStepAt DEF AddStat, EraseCheck, EraseStat, shardVars
<1>2. \/ shpc[th] = "trace" /\ dpc[th] = "stat" /\ dpc'[th] = "idle"
      \/ shpc[th] = "iterate" /\ dpc[th] \in {"check", "unstat"} /\ dpc'[th] \in {"idle", "unstat"}
  BY TraceStepAt DEF AddStat, EraseCheck, EraseStat, TypeInv, TypeOK, DocTypeOK
<1>3. /\ th \in Going[p] <=> th \in Going'[p]
      /\ th \in Coming[p] <=> th \in Coming'[p]
      /\ th \in Making[p] <=> th \in Making'[p]
  BY <1>1, <1>2 DEF Going, Coming, Making
<1> QED  BY <1>1, <1>3, KeptAsItWas

\* eraseOrDecrement.
LEMMA EraseDecrementRefs ==
  ASSUME StraightInv, NEW th \in Threads, TraceStep(th), EraseDecrement(th), NEW p \in Paths
  PROVE  Kept(p)
<1> USE DEF StraightInv, Straight
<1>1. /\ OnlyMoves(th) /\ dpath' = dpath /\ shpc' = shpc /\ Held' = Held /\ surplus' = surplus
      /\ shpc[th] = "iterate" /\ dpc[th] = "dec" /\ hook' = hook
      /\ m_trace' = Decremented(dpath[th]) /\ dpc'[th] = "check"
      /\ lost \subseteq lost' /\ CallsPlaced'
  BY TraceStepAt DEF EraseDecrement, shardVars, TypeInv, TypeOK, DocTypeOK
<1>2. CASE p # dpath[th]
  <2>1. /\ p \in DOMAIN m_trace' <=> p \in DOMAIN m_trace
        /\ p \in DOMAIN m_trace => m_trace'[p] = m_trace[p]
    BY <1>1, <1>2 DEF Decremented, Inserted, Erased, Restrict
  <2>2. dpath[th] # p /\ dpath'[th] # p /\ Held'[p] = Held[p] /\ surplus'[p] = surplus[p]
    BY <1>1, <1>2
  <2> QED  BY <1>1, <2>1, <2>2, KeptElsewhere
<1>3. CASE p = dpath[th]
  <2>1. /\ th \in Going[p] /\ th \notin Going'[p] /\ th \notin Coming[p] /\ th \notin Coming'[p]
        /\ th \notin Making[p] /\ th \notin Making'[p]
    BY <1>1, <1>3 DEF Coming, Going, Making
  <2>2. Making'[p] = Making[p]
    BY <1>1, <2>1, OneThreadMoves, SameSet
  <2>3. /\ Count'[p] = Count[p] - 1 /\ Count[p] # 0 /\ Due'[p] <= Due[p]
        /\ Count[p] \in Nat /\ Count'[p] \in Nat /\ Due'[p] \in Nat
    BY <1>1, <2>1, OneThreadCounts, OwnCounts
  <2>4. p \in DOMAIN m_trace /\ m_trace[p] = Count[p]
    BY <2>3 DEF CountsRight, CountRight
  <2>5. CASE Count[p] = 1
    <3>1. m_trace' = Erased(m_trace, p) /\ KeyGoes(p)
      BY <1>1, <1>3, <2>4, <2>5 DEF Decremented, KeyGoes, DecrementDiff, Contains
    <3>2. p \notin DOMAIN m_trace' /\ Count'[p] = 0  BY <2>3, <2>5, <3>1 DEF Erased, Restrict
    <3>3. Making[p] = {} \/ HalfAdded(p)  BY DEF Making, HalfAdded
    <3>4. HalfAdded(p) => p \in lost'  BY <1>3, <3>1 DEF EraseDecrement
    <3>5. CountRight(p, m_trace', Count'[p], Making'[p], p \in lost')
      BY <2>2, <3>2, <3>3, <3>4 DEF CountRight
    <3> QED  BY <2>3, <3>5, OwnCounts DEF Kept
  <2>6. CASE Count[p] # 1
    <3>1. m_trace' = [m_trace EXCEPT ![p] = Wrap(m_trace[p] - 1)]
      BY <1>1, <1>3, <2>4, <2>6 DEF Decremented, Contains
    <3>2. Wrap(m_trace[p] - 1) = m_trace[p] - 1
      <4> DEFINE C == 2 ^ CountWidth
      <4>1. C \in Nat \ {0} /\ m_trace[p] \in 0 .. C - 1
        BY <2>4, WidthAssumption DEF TypeInv, TypeOK, DocTypeOK
      <4> HIDE DEF C
      <4>2. m_trace[p] - 1 \in 0 .. C - 1  BY <2>3, <2>4, <4>1
      <4>3. (m_trace[p] - 1) % C = m_trace[p] - 1  BY <4>1, <4>2
      <4> QED  BY <4>3 DEF Wrap, C
    <3>3. DOMAIN m_trace' = DOMAIN m_trace /\ m_trace'[p] = Count'[p] /\ Count'[p] # 0
      BY <2>3, <2>4, <2>6, <3>1, <3>2
    <3>4. CountRight(p, m_trace', Count'[p], Making'[p], p \in lost')
      BY <2>4, <3>3 DEF CountRight
    <3> QED  BY <2>3, <3>4, OwnCounts DEF Kept
  <2> QED  BY <2>5, <2>6
<1> QED  BY <1>2, <1>3

LEMMA TraceStepRefs ==
  ASSUME StraightInv, CountsFit, DueFits, NEW th \in Threads, TraceStep(th), NEW p \in Paths
  PROVE  Kept(p)
BY AddFirstRefs, AddSecondRefs, StatRefs, EraseDecrementRefs DEF TraceStep, DocStep

\* The steps that only touch m_size, and the end of an erase that has gone through all or
\* has found nothing to take away.
LEMMA SizeStepRefs ==
  ASSUME StraightInv, NEW th \in Threads, SizeStep(th) \/ EraseEnd(th), NEW p \in Paths
  PROVE  Kept(p) /\ Due'[p] = Due[p]
<1> USE DEF StraightInv, Straight
<1>1. UNCHANGED <<traceVars, m_record, heap, found, todo, surplus>>
  BY DEF SizeStep, EraseEnd, shardVars
<1>2. OnlyMoves(th)
  BY OthersUntouched DEF ThreadStep, OnlyMoves
<1>3. shpc'[th] = shpc[th] \/ (shpc[th] = "iterate" /\ dpc[th] = "idle" /\ todo[th] = {}
                               /\ shpc'[th] = "idle")
  BY DEF SizeStep, EraseEnd, shardVars, TypeInv, TypeOK
<1>4. Held'[p] = Held[p]
  <2>1. \A r, e : Taken(r, e)' <=> Taken(r, e)
    BY <1>1, <1>2, <1>3 DEF Taken, OnlyMoves
  <2>2. \A r, e : Indexed(r, e)' <=> Indexed(r, e)
    BY <1>1 DEF Indexed
  <2> QED  BY <1>1, <2>1, <2>2 DEF Held, Holds
<1>5. /\ th \in Going[p] <=> th \in Going'[p]
      /\ th \in Coming[p] <=> th \in Coming'[p]
      /\ th \in Making[p] <=> th \in Making'[p]
  BY <1>1, <1>3 DEF Going, Coming, Making, traceVars
<1> QED  BY <1>1, <1>2, <1>4, <1>5, KeptAsItWas DEF traceVars

\* What th had counted is an entry now, or one more that was there already.
LEMMA InsertRecordHeld ==
  ASSUME StraightInv, NEW th \in Threads, InsertRecord(th), NEW p \in Paths
  PROVE  /\ p # hook[th] => Held'[p] = Held[p] /\ surplus'[p] = surplus[p]
         /\ p = hook[th] =>
              \/ Held'[p] = Held[p] /\ surplus'[p] = surplus[p] + 1
              \/ \E r : /\ r \notin Held[p] /\ Held'[p] = Held[p] \union {r}
                        /\ surplus'[p] = surplus[p]
<1> USE DEF StraightInv, Straight
<1> DEFINE entry == <<hook[th], call[th].pos>>
<1>1. PICK record : PutIn(th, record)  BY InsertRecordHeap
<1> DEFINE new == <<record, call[th].pos>>
<1>2. hook[th] \in Views /\ call[th].pos \in Positions /\ surplus \in [Views -> Nat]
  BY DEF TypeInv, TypeOK, DocTypeOK, CallsTyped, InsertRecord
<1>3. \A r, e : Taken(r, e)' <=> Taken(r, e)
  <2>1. \A o \in Threads \ {th} : shpc'[o] = shpc[o]  BY OthersUntouched DEF ThreadStep
  <2>2. shpc[th] = "trace" /\ shpc'[th] = "idle" /\ UNCHANGED <<found, todo>>
    BY DEF InsertRecord, TypeInv, TypeOK
  <2> QED  BY <2>1, <2>2 DEF Taken
<1>4. \A e : ~Taken(record, e)
  BY <1>1 DEF PutIn, Taken, IteratedApart
<1>5. ASSUME NEW r \in DOMAIN heap \ {record}, NEW e  PROVE Holds(r, e)' <=> Holds(r, e)
  BY <1>1, <1>3 DEF PutIn, Holds, Indexed
<1>6. \A e : Holds(record, e)' <=> e \in heap'[record]
  BY <1>1, <1>3, <1>4 DEF PutIn, Holds, Indexed
<1>7. record \in DOMAIN heap => \A e : Holds(record, e) <=> e \in heap[record]
  BY <1>1, <1>4 DEF PutIn, Holds, Indexed
<1>8. heap'[record] = IF record \in DOMAIN heap THEN heap[record] \union {entry} ELSE {entry}
  BY <1>1 DEF PutIn
<1>9. DOMAIN heap' = DOMAIN heap \union {record}  BY <1>1 DEF PutIn
<1>10. /\ Held[p] = {r \in (DOMAIN heap) \X Positions : Holds(r[1], <<p, r[2]>>)}
       /\ Held'[p] = {r \in (DOMAIN heap') \X Positions : Holds(r[1], <<p, r[2]>>)'}
  BY DEF Held
<1>11. \A n \in Positions : <<p, n>> = entry <=> p = hook[th] /\ n = call[th].pos
  OBVIOUS
<1>12. new \in Held'[p] <=> p = hook[th] \/ new \in Held[p]
  <2>1. new \in (DOMAIN heap') \X Positions  BY <1>2, <1>9
  <2>2. new \in Held'[p] <=> <<p, call[th].pos>> \in heap'[record]  BY <1>6, <1>10, <2>1
  <2>3. new \in Held[p] <=> record \in DOMAIN heap /\ <<p, call[th].pos>> \in heap[record]
    BY <1>2, <1>7, <1>10
  <2>4. <<p, call[th].pos>> = entry <=> p = hook[th]  BY <1>2, <1>11
  <2> HIDE DEF entry, new
  <2> QED  BY <1>8, <2>2, <2>3, <2>4
<1>13. ASSUME NEW r \in ((DOMAIN heap') \X Positions) \ {new}
       PROVE  r \in Held'[p] <=> r \in Held[p]
  <2>1. r = <<r[1], r[2]>> /\ r[1] \in DOMAIN heap' /\ r[2] \in Positions  OBVIOUS
  <2>2. CASE r[1] # record
    <3>1. r[1] \in DOMAIN heap \ {record}  BY <1>9, <2>1, <2>2
    <3>2. Holds(r[1], <<p, r[2]>>)' <=> Holds(r[1], <<p, r[2]>>)  BY <1>5, <3>1
    <3> QED  BY <1>10, <2>1, <3>1, <3>2
  <2>3. CASE r[1] = record
    <3>1. r[2] # call[th].pos  BY <1>13, <2>1, <2>3
    <3>2. <<p, r[2]>> # entry  BY <3>1
    <3>3. r \in Held'[p] <=> <<p, r[2]>> \in heap'[record]  BY <1>6, <1>10, <2>1, <2>3
    <3>4. r \in Held[p] <=> record \in DOMAIN heap /\ <<p, r[2]>> \in heap[record]
      BY <1>7, <1>10, <2>1, <2>3
    <3> HIDE DEF entry
    <3> QED  BY <1>8, <3>2, <3>3, <3>4
  <2> QED  BY <2>2, <2>3
<1>14. Held[p] \subseteq (DOMAIN heap') \X Positions /\ Held'[p] \subseteq (DOMAIN heap') \X Positions
  BY <1>9, <1>10
<1>15. CASE p # hook[th]
  <2>1. Held'[p] = Held[p]
    <3> HIDE DEF new, entry
    <3>1. new \in Held'[p] <=> new \in Held[p]  BY <1>12, <1>15
    <3>2. \A r \in (DOMAIN heap') \X Positions : r \in Held'[p] <=> r \in Held[p]
      BY <1>13, <3>1
    <3> QED  BY <1>14, <3>2
  <2>2. surplus'[p] = surplus[p]  BY <1>1, <1>2, <1>15 DEF PutIn, Views
  <2> QED  BY <1>15, <2>1, <2>2
<1>16. CASE p = hook[th]
  <2>1. Held'[p] = Held[p] \union {new}
    <3> HIDE DEF new
    <3> QED  BY <1>12, <1>13, <1>14, <1>16
  <2>2. new \in Held[p] <=> record \in DOMAIN heap /\ entry \in heap[record]
    BY <1>2, <1>7, <1>10, <1>16
  <2>3. surplus' = IF record \in DOMAIN heap /\ entry \in heap[record]
                   THEN [surplus EXCEPT ![hook[th]] = @ + 1] ELSE surplus
    BY <1>1 DEF PutIn
  <2> HIDE DEF new, entry
  <2>4. CASE new \in Held[p]
    <3>1. Held'[p] = Held[p]  BY <2>1, <2>4
    <3>2. surplus'[p] = surplus[p] + 1  BY <1>2, <1>16, <2>2, <2>3, <2>4 DEF Views
    <3> QED  BY <1>16, <3>1, <3>2
  <2>5. CASE new \notin Held[p]
    <3>1. surplus'[p] = surplus[p]  BY <2>2, <2>3, <2>5
    <3> QED  BY <1>16, <2>1, <2>5, <3>1
  <2> QED  BY <2>4, <2>5
<1> QED  BY <1>15, <1>16

LEMMA InsertRecordRefs ==
  ASSUME StraightInv, NEW th \in Threads, InsertRecord(th), NEW p \in Paths
  PROVE  Kept(p)
<1> USE DEF StraightInv, Straight
<1>1. OnlyMoves(th) /\ CallsPlaced'
  BY OthersUntouched, CallsStayPlaced DEF ThreadStep, OnlyMoves
<1>2. /\ shpc[th] = "trace" /\ dpc[th] = "idle" /\ shpc'[th] = "idle"
      /\ UNCHANGED <<m_trace, lost, dpc, dpath, hook>>
  BY DEF InsertRecord, traceVars, TypeInv, TypeOK
<1>3. th \notin Coming[p] /\ th \notin Coming'[p] /\ th \notin Making[p] /\ th \notin Making'[p]
  BY <1>2 DEF Coming, Making
<1>4. th \notin Going'[p] /\ (th \in Going[p] <=> p = hook[th])
  BY <1>2 DEF Going
<1>5. CASE p # hook[th]
  <2>1. Held'[p] = Held[p] /\ surplus'[p] = surplus[p]
    BY <1>5, InsertRecordHeld
  <2> QED  BY <1>1, <1>2, <1>3, <1>4, <1>5, <2>1, KeptAsItWas
<1>6. CASE p = hook[th]
  <2>1. Making'[p] = Making[p]  BY <1>1, <1>3, OneThreadMoves, SameSet
  <2>2. /\ Cardinality(Going'[p]) = Cardinality(Going[p]) - 1
        /\ Cardinality(Coming'[p]) = Cardinality(Coming[p])
    BY <1>1, <1>3, <1>4, <1>6, OneThreadCounts
  <2>3. IsFiniteSet(Held[p])  BY DEF CountsRight
  <2>4. /\ Cardinality(Held'[p]) + surplus'[p] = Cardinality(Held[p]) + surplus[p] + 1
        /\ IsFiniteSet(Held'[p])
    <3>1. surplus[p] \in Nat /\ Cardinality(Held[p]) \in Nat  BY CountNat
    <3>2. CASE Held'[p] = Held[p] /\ surplus'[p] = surplus[p] + 1  BY <2>3, <3>1, <3>2
    <3>3. ASSUME NEW r, r \notin Held[p], Held'[p] = Held[p] \union {r}, surplus'[p] = surplus[p]
          PROVE  /\ Cardinality(Held'[p]) + surplus'[p] = Cardinality(Held[p]) + surplus[p] + 1
                 /\ IsFiniteSet(Held'[p])
      <4>1. Cardinality(Held'[p]) = Cardinality(Held[p]) + 1 /\ IsFiniteSet(Held'[p])
        BY <2>3, <3>3, FS_AddElement
      <4> QED  BY <3>1, <3>3, <4>1
    <3> QED  BY <1>6, <3>2, <3>3, InsertRecordHeld
  <2>5. Count'[p] = Count[p] /\ Due'[p] = Due[p] /\ Due[p] \in Nat
    <3>1. /\ Count'[p] = Cardinality(Held'[p]) + surplus'[p] + Cardinality(Going'[p])
          /\ Due'[p] = Count'[p] + Cardinality(Coming'[p])
      BY DueNow
    <3>2. /\ Count[p] = Cardinality(Held[p]) + surplus[p] + Cardinality(Going[p])
          /\ Due[p] = Count[p] + Cardinality(Coming[p]) /\ Due[p] \in Nat
          /\ surplus[p] \in Nat /\ Cardinality(Held[p]) \in Nat
          /\ Cardinality(Going[p]) \in Nat
      BY CountNat
    <3> QED  BY <2>2, <2>4, <3>1, <3>2
  <2>6. CountRight(p, m_trace', Count'[p], Making'[p], p \in lost')
    BY <1>2, <2>1, <2>5 DEF CountsRight, CountRight
  <2> QED  BY <2>4, <2>5, <2>6 DEF Kept
<1> QED  BY <1>5, <1>6

\* The entries of the record pass from the index into the hands of the erase ...
LEMMA EraseRecordRefs ==
  ASSUME StraightInv, NEW th \in Threads, EraseRecord(th), ~crossed', NEW p \in Paths
  PROVE  Kept(p) /\ Due'[p] = Due[p]
<1> USE DEF StraightInv, Straight
<1> DEFINE tk == call[th].token
<1>1. OnlyMoves(th)  BY OthersUntouched DEF ThreadStep, OnlyMoves
<1>2. shpc[th] = "drop" /\ dpc[th] = "idle" /\ found[th] \in DOMAIN heap
  BY DEF EraseRecord, TypeInv, CallsTyped
<1>3. /\ UNCHANGED <<m_trace, lost, dpc, dpath, hook, heap, found, surplus>>
      /\ shpc'[th] \in {"idle", "iterate"}
  BY <1>2 DEF EraseRecord, traceVars, TypeInv, TypeOK
<1>4. \A o \in Threads \ {th} : todo'[o] = todo[o]  BY OthersUntouched DEF ThreadStep
<1>5. ASSUME NEW r \in DOMAIN heap, NEW e  PROVE Holds(r, e)' <=> Holds(r, e)
  <2>1. CASE Contains(m_record, tk)
    <3>1. /\ m_record' = Erased(m_record, tk) /\ m_record[tk] = found[th] /\ tk \in DOMAIN m_record
          /\ shpc'[th] = "iterate" /\ todo'[th] = heap[found[th]]
      BY <2>1 DEF EraseRecord, Contains, TypeInv, TypeOK
    <3>2. /\ DOMAIN m_record' = DOMAIN m_record \ {tk}
          /\ \A k \in DOMAIN m_record' : m_record'[k] = m_record[k]
      BY <3>1 DEF Erased, Restrict
    <3>3. Taken(r, e)' <=> Taken(r, e) \/ (r = found[th] /\ e \in heap[r])
      <4>1. Taken(r, e)' <=>
              \/ \E o \in Threads \ {th} : shpc[o] = "iterate" /\ found[o] = r /\ e \in todo[o]
              \/ found[th] = r /\ e \in heap[found[th]]
        BY <1>1, <1>3, <1>4, <3>1 DEF Taken, OnlyMoves
      <4>2. Taken(r, e) <=>
              \E o \in Threads \ {th} : shpc[o] = "iterate" /\ found[o] = r /\ e \in todo[o]
        BY <1>2 DEF Taken
      <4> QED  BY <4>1, <4>2
    <3>4. Indexed(r, e)' <=> Indexed(r, e) /\ r # found[th]
      BY <1>3, <3>1, <3>2 DEF Indexed, RecordsApart
    <3>5. r = found[th] => (Indexed(r, e) <=> e \in heap[r])  BY <3>1 DEF Indexed
    <3> QED  BY <3>3, <3>4, <3>5 DEF Holds
  <2>2. CASE ~Contains(m_record, tk)
    <3>1. UNCHANGED <<m_record, todo>> /\ shpc'[th] = "idle"
      BY <2>2 DEF EraseRecord, TypeInv, TypeOK
    <3>2. Taken(r, e)' <=> Taken(r, e)  BY <1>1, <1>2, <1>3, <3>1 DEF Taken, OnlyMoves
    <3> QED  BY <1>3, <3>1, <3>2 DEF Holds, Indexed
  <2> QED  BY <2>1, <2>2
<1>6. Held'[p] = Held[p]  BY <1>3, <1>5 DEF Held
<1>7. /\ th \notin Going[p] /\ th \notin Coming[p] /\ th \notin Making[p]
      /\ th \notin Going'[p] /\ th \notin Coming'[p] /\ th \notin Making'[p]
  BY <1>2, <1>3 DEF Going, Coming, Making
<1> QED  BY <1>1, <1>3, <1>6, <1>7, KeptAsItWas

\* ... and go from there to eraseOrDecrement, one by one.
LEMMA EraseEntryRefs ==
  ASSUME StraightInv, ~crossed, NEW th \in Threads, NEW e, EraseEntry(th, e), NEW p \in Paths
  PROVE  Kept(p) /\ Due'[p] = Due[p]
<1> USE DEF StraightInv, Straight
<1> DEFINE gone == <<found[th], e[2]>>
<1>1. OnlyMoves(th) /\ \A o \in Threads \ {th} : todo'[o] = todo[o]
  BY OthersUntouched DEF ThreadStep, OnlyMoves, EraseEntry
<1>2. ReadAs(e[1]) = {e[1]}  BY DEF ReadAs, Astray
<1>3. CallErase(th, e[1])  BY <1>2 DEF EraseEntry
<1>4. /\ shpc[th] = "iterate" /\ dpc[th] = "idle" /\ e \in todo[th]
      /\ dpc'[th] = "dec" /\ dpath'[th] = e[1] /\ todo'[th] = todo[th] \ {e}
      /\ UNCHANGED <<m_trace, lost, hook, m_record, heap, shpc, found, surplus>>
  BY <1>3 DEF EraseEntry, CallErase, RestOf, TypeInv, TypeOK, DocTypeOK
<1>5. e \in Views \X Positions /\ found[th] \in DOMAIN heap
  BY <1>4 DEF TypeInv, TypeOK, Entries, IteratedApart
<1>6. ASSUME NEW r \in DOMAIN heap, NEW x  PROVE Holds(r, x)' <=> Holds(r, x) /\ ~(r = found[th] /\ x = e)
  <2>1. Taken(r, x)' <=> Taken(r, x) /\ ~(r = found[th] /\ x = e)
    BY <1>1, <1>4 DEF Taken, IteratedApart
  <2>2. Indexed(r, x)' <=> Indexed(r, x)  BY <1>4 DEF Indexed
  <2>3. r = found[th] => ~Indexed(r, x)  BY <1>4 DEF Indexed, IteratedApart
  <2> QED  BY <2>1, <2>2, <2>3 DEF Holds
<1>7. /\ Held[p] = {r \in (DOMAIN heap) \X Positions : Holds(r[1], <<p, r[2]>>)}
      /\ Held'[p] = {r \in (DOMAIN heap) \X Positions : Holds(r[1], <<p, r[2]>>)'}
  BY <1>4 DEF Held
<1>8. th \notin Coming[p] /\ th \notin Coming'[p] /\ th \notin Making[p] /\ th \notin Making'[p]
  BY <1>4 DEF Coming, Making
<1>9. th \notin Going[p] /\ (th \in Going'[p] <=> p = e[1])
  BY <1>4 DEF Going
<1>10. CASE p # e[1]
  <2>1. \A n : <<p, n>> # e  BY <1>10
  <2>2. Held'[p] = Held[p]  BY <1>6, <1>7, <2>1
  <2> QED  BY <1>1, <1>4, <1>8, <1>9, <1>10, <2>2, KeptAsItWas
<1>11. CASE p = e[1]
  <2>1. \A r \in (DOMAIN heap) \X Positions :
          (r[1] = found[th] /\ <<p, r[2]>> = e) <=> r = gone
    BY <1>5, <1>11
  <2>2. gone \in (DOMAIN heap) \X Positions /\ <<p, e[2]>> = e  BY <1>5, <1>11
  <2>3. Holds(found[th], e)  BY <1>4 DEF Holds, Taken
  <2>4. gone \in Held[p] /\ Held'[p] = Held[p] \ {gone}
    <3>1. gone \in Held[p]  BY <1>7, <2>2, <2>3
    <3> HIDE DEF gone
    <3>2. \A r \in (DOMAIN heap) \X Positions :
            Holds(r[1], <<p, r[2]>>)' <=> Holds(r[1], <<p, r[2]>>) /\ r # gone
      BY <1>6, <2>1
    <3>3. Held'[p] = Held[p] \ {gone}  BY <1>7, <3>2
    <3> QED  BY <3>1, <3>3
  <2>5. IsFiniteSet(Held[p])  BY DEF CountsRight
  <2>6. IsFiniteSet(Held'[p]) /\ Cardinality(Held'[p]) = Cardinality(Held[p]) - 1
    <3> HIDE DEF gone
    <3> QED  BY <2>4, <2>5, FS_RemoveElement
  <2>7. Making'[p] = Making[p]  BY <1>1, <1>8, OneThreadMoves, SameSet
  <2>8. /\ Cardinality(Going'[p]) = Cardinality(Going[p]) + 1
        /\ Cardinality(Coming'[p]) = Cardinality(Coming[p])
    BY <1>1, <1>8, <1>9, <1>11, OneThreadCounts
  <2>9. Count'[p] = Count[p] /\ Due'[p] = Due[p] /\ Due[p] \in Nat
    <3>1. /\ Count'[p] = Cardinality(Held'[p]) + surplus'[p] + Cardinality(Going'[p])
          /\ Due'[p] = Count'[p] + Cardinality(Coming'[p])
      BY DueNow
    <3>2. /\ Count[p] = Cardinality(Held[p]) + surplus[p] + Cardinality(Going[p])
          /\ Due[p] = Count[p] + Cardinality(Coming[p]) /\ Due[p] \in Nat
          /\ surplus[p] \in Nat /\ Cardinality(Held[p]) \in Nat
          /\ Cardinality(Going[p]) \in Nat
      BY CountNat
    <3>3. surplus'[p] = surplus[p]  BY <1>4
    <3> QED  BY <2>6, <2>8, <3>1, <3>2, <3>3
  <2>10. CountRight(p, m_trace', Count'[p], Making'[p], p \in lost')
    BY <1>4, <2>7, <2>9 DEF CountsRight, CountRight
  <2> QED  BY <2>6, <2>9, <2>10 DEF Kept
<1> QED  BY <1>10, <1>11

-----------------------------------------------------------------------------
(* References: the invariant                                                *)

\* Until two erases cross.
RefsInv == TypeInv /\ RecordsApart /\ (~crossed => Straight)

\* No more is due to any document than was before.
NotMoreDue == \A p \in Paths : Due'[p] \in Nat /\ Due'[p] <= Due[p]

\* A step of a thread keeps the counts right, and nothing more is due.
LEMMA ThreadStepRefs ==
  ASSUME RefsInv, CountsFit, ~crossed => DueFits, NEW th \in Threads, ThreadStep(th)
  PROVE  RefsInv' /\ (~crossed' => ~crossed /\ NotMoreDue)
<1>1. TypeInv'  BY ThreadStepType DEF RefsInv
<1>2. RecordsApart'  BY RecordsStayApart DEF RefsInv
<1>3. ASSUME ~crossed'  PROVE ~crossed /\ Straight' /\ NotMoreDue
  <2>1. ~crossed
    BY <1>3 DEF ThreadStep, TraceStep, SizeStep, InsertRecord, EraseRecord, EraseEntry, EraseEnd,
                shardVars
  <2>2. StraightInv /\ DueFits  BY <2>1 DEF RefsInv, StraightInv
  <2>3. ASSUME NEW p \in Paths  PROVE Kept(p)
    BY <1>3, <2>1, <2>2, TraceStepRefs, SizeStepRefs, InsertRecordRefs, EraseRecordRefs,
       EraseEntryRefs DEF ThreadStep
  <2>4. CountsRight' /\ NotMoreDue  BY <2>3, KeptForAll DEF NotMoreDue
  <2>5. IteratedApart' /\ CallsPlaced' /\ NamesKnown'
    BY <1>3, <2>2, IteratedStayApart, CallsStayPlaced, NamesStayKnown
  <2> QED  BY <2>1, <2>4, <2>5 DEF Straight
<1> QED  BY <1>1, <1>2, <1>3 DEF RefsInv

\* What a call leaves of the records, its own place apart.
LEMMA HeldElsewhere ==
  ASSUME TypeInv, NEW th \in Threads, shpc[th] # "iterate", shpc'[th] # "iterate",
         UNCHANGED <<m_record, heap, todo>>,
         \A o \in Threads \ {th} : shpc'[o] = shpc[o] /\ found'[o] = found[o]
  PROVE  Held' = Held /\ (IteratedApart => IteratedApart')
<1>1. \A r, e : Taken(r, e)' <=> Taken(r, e)  BY DEF Taken
<1>2. \A r, e : Indexed(r, e)' <=> Indexed(r, e)  BY DEF Indexed
<1>3. Held' = Held  BY <1>1, <1>2 DEF Held, Holds
<1>4. IteratedApart => IteratedApart'  BY DEF IteratedApart
<1> QED  BY <1>3, <1>4

\* A call of insert makes one more due, to its document.
LEMMA BeginInsertRefs ==
  ASSUME RefsInv, NEW th \in Threads, NEW i, BeginInsert(th, i), i.doc \in Paths, TypeInv'
  PROVE  /\ RefsInv' /\ crossed' = crossed
         /\ ~crossed => \A p \in Paths :
              Due'[p] \in Nat /\ Due'[p] = IF p = i.doc THEN Due[p] + 1 ELSE Due[p]
<1> USE DEF RefsInv
<1>1. /\ shpc[th] = "idle" /\ dpc[th] = "idle" /\ crossed' = crossed
      /\ shpc'[th] = "trace" /\ dpc'[th] = "add1" /\ dpath'[th] = i.doc
      /\ UNCHANGED <<m_trace, fateVars, m_record, heap, found, todo, surplus>>
      /\ \A o \in Threads \ {th} :
           /\ dpc'[o] = dpc[o] /\ dpath'[o] = dpath[o] /\ shpc'[o] = shpc[o]
           /\ hook'[o] = hook[o]
  BY DEF BeginInsert, CallAdd, AtRest, TypeInv, TypeOK, DocTypeOK
<1>2. OnlyMoves(th)  BY <1>1 DEF OnlyMoves
<1>3. Held' = Held /\ (IteratedApart => IteratedApart')  BY <1>1, HeldElsewhere
<1>4. RecordsApart'  BY <1>1 DEF RecordsApart
<1>5. ASSUME ~crossed, NEW p \in Paths
      PROVE  /\ IsFiniteSet(Held'[p])
             /\ CountRight(p, m_trace', Count'[p], Making'[p], p \in lost')
             /\ Due'[p] \in Nat /\ Due'[p] = IF p = i.doc THEN Due[p] + 1 ELSE Due[p]
  <2>1. CountsRight  BY <1>5 DEF Straight
  <2>2. /\ th \notin Going[p] /\ th \notin Making[p] /\ th \notin Coming[p]
        /\ th \notin Going'[p] /\ th \notin Making'[p] /\ (th \in Coming'[p] <=> p = i.doc)
    BY <1>1 DEF Going, Coming, Making
  <2>3. Going'[p] = Going[p] /\ Making'[p] = Making[p]
    BY <1>2, <2>2, OneThreadMoves, SameSet
  <2>4. /\ Count[p] = Cardinality(Held[p]) + surplus[p] + Cardinality(Going[p])
        /\ Due[p] = Count[p] + Cardinality(Coming[p])
        /\ Count[p] \in Nat /\ Cardinality(Coming[p]) \in Nat
    BY <2>1, CountNat
  <2>5. Count'[p] = Count[p] /\ Due'[p] = Count[p] + Cardinality(Coming'[p])
    BY <1>1, <1>3, <2>3, <2>4, DueNow
  <2>6. Cardinality(Coming'[p]) = IF p = i.doc THEN Cardinality(Coming[p]) + 1
                                  ELSE Cardinality(Coming[p])
    BY <1>2, <2>2, OneThreadCounts
  <2>7. IsFiniteSet(Held'[p]) /\ CountRight(p, m_trace', Count'[p], Making'[p], p \in lost')
    BY <1>1, <1>3, <2>1, <2>3, <2>5 DEF CountsRight, CountRight
  <2> QED  BY <2>4, <2>5, <2>6, <2>7
<1>6. ASSUME ~crossed  PROVE Straight'
  <2>1. CountsRight'
    <3> SUFFICES ASSUME NEW p \in Paths
                 PROVE  /\ IsFiniteSet(Held'[p])
                        /\ CountRight(p, m_trace', Count'[p], Making'[p], p \in lost')
      BY DEF CountsRight, CountRight
    <3> QED  BY <1>5, <1>6
  <2>2. CallsPlaced'  BY <1>1, <1>6 DEF Straight, CallsPlaced
  <2>3. NamesKnown'  BY <1>1, <1>6 DEF Straight, NamesKnown
  <2> QED  BY <1>3, <1>6, <2>1, <2>2, <2>3 DEF Straight
<1> QED  BY <1>1, <1>4, <1>5, <1>6

\* A call of erase touches nothing yet.
LEMMA CallEraseRefs ==
  ASSUME RefsInv, NEW th \in Threads, NEW tk, CallEraseToken(th, tk), TypeInv'
  PROVE  RefsInv' /\ crossed' = crossed /\ (~crossed => NotMoreDue)
<1> USE DEF RefsInv
<1>1. /\ shpc[th] = "idle" /\ shpc'[th] = "drop" /\ crossed' = crossed
      /\ UNCHANGED <<traceVars, m_record, heap, todo, surplus>>
      /\ \A o \in Threads \ {th} : shpc'[o] = shpc[o] /\ found'[o] = found[o]
  BY DEF CallEraseToken, AtRest, TypeInv, TypeOK
<1>2. OnlyMoves(th)  BY <1>1 DEF OnlyMoves, traceVars
<1>3. Held' = Held /\ (IteratedApart => IteratedApart')  BY <1>1, HeldElsewhere
<1>4. RecordsApart'  BY <1>1 DEF RecordsApart
<1>5. ASSUME ~crossed  PROVE Straight' /\ NotMoreDue
  <2>1. ASSUME NEW p \in Paths  PROVE Kept(p)
    <3>1. dpc[th] = "idle"  BY <1>1 DEF TypeInv, CallsTyped
    <3>2. /\ th \notin Going[p] /\ th \notin Coming[p] /\ th \notin Making[p]
          /\ th \notin Going'[p] /\ th \notin Coming'[p] /\ th \notin Making'[p]
      BY <1>1, <3>1 DEF Going, Coming, Making, traceVars
    <3> QED  BY <1>1, <1>2, <1>3, <1>5, <3>2, KeptAsItWas DEF Straight, traceVars
  <2>2. CountsRight' /\ NotMoreDue  BY <2>1, KeptForAll DEF NotMoreDue
  <2>3. CallsPlaced'  BY <1>1, <1>5 DEF Straight, CallsPlaced, traceVars
  <2>4. NamesKnown'  BY <1>1, <1>5 DEF Straight, NamesKnown, traceVars
  <2> QED  BY <1>3, <1>5, <2>2, <2>3, <2>4 DEF Straight
<1> QED  BY <1>1, <1>4, <1>5

\* With nothing in memory nothing is due.
LEMMA BlankRefs ==
  ASSUME TypeInv, Blank
  PROVE  RefsInv /\ \A p \in Paths : Due[p] = 0
<1> USE DEF Blank
<1>1. ASSUME NEW p \in Paths
      PROVE  /\ Held[p] = {} /\ Going[p] = {} /\ Coming[p] = {} /\ Making[p] = {}
             /\ surplus[p] = 0
  BY <1>1 DEF Held, Going, Coming, Making, Views
<1>2. ASSUME NEW p \in Paths  PROVE IsFiniteSet(Held[p]) /\ Count[p] = 0 /\ Due[p] = 0
  <2>1. Cardinality({}) = 0 /\ IsFiniteSet({})  BY FS_EmptySet
  <2>2. /\ Count[p] = Cardinality(Held[p]) + surplus[p] + Cardinality(Going[p])
        /\ Due[p] = Count[p] + Cardinality(Coming[p])
    BY DEF Count, Due
  <2>3. /\ Cardinality(Held[p]) = 0 /\ Cardinality(Going[p]) = 0 /\ Cardinality(Coming[p]) = 0
        /\ IsFiniteSet(Held[p]) /\ surplus[p] = 0
    BY <1>1, <2>1
  <2> QED  BY <2>2, <2>3
<1>3. CountsRight  BY <1>1, <1>2 DEF CountsRight, CountRight
<1>4. IteratedApart /\ CallsPlaced /\ NamesKnown /\ RecordsApart
  BY DEF IteratedApart, CallsPlaced, NamesKnown, RecordsApart
<1> QED  BY <1>2, <1>3, <1>4 DEF RefsInv, Straight

LEMMA SameRefs ==
  ASSUME RefsInv, UNCHANGED vars
  PROVE  RefsInv' /\ Due' = Due
<1> USE DEF vars, mapVars, traceVars, shardVars
<1>1. Held' = Held /\ Going' = Going /\ Coming' = Coming /\ Making' = Making
  BY DEF Held, Holds, Indexed, Taken, Going, Coming, Making
<1>2. Count' = Count /\ Due' = Due  BY <1>1 DEF Count, Due
<1>3. TypeInv'  BY NextType DEF RefsInv
<1>4. CountsRight => CountsRight'  BY <1>1, <1>2 DEF CountsRight, CountRight
<1>5. RecordsApart /\ RecordsApart'  BY DEF RefsInv, RecordsApart
<1>6. /\ IteratedApart => IteratedApart'
      /\ CallsPlaced => CallsPlaced'
      /\ NamesKnown => NamesKnown'
  BY DEF IteratedApart, CallsPlaced, NamesKnown
<1> QED  BY <1>2, <1>3, <1>4, <1>5, <1>6 DEF RefsInv, Straight

\* Not more is due than was inserted.
DueOfInserts == \A p \in Paths : Due[p] <= inserts

ReferenceInv == RefsInv /\ (~crossed => DueOfInserts)

LEMMA DueBounded ==
  ASSUME ReferenceInv, ~crossed
  PROVE  DueFits /\ \A p \in Paths : Due[p] \in Nat
<1>1. inserts \in 0 .. MaxCalls  BY DEF ReferenceInv, RefsInv, TypeInv, TypeOK
<1>2. \A p \in Paths : Due[p] \in Nat  BY CountNat DEF ReferenceInv, RefsInv, Straight
<1> QED  BY <1>1, <1>2, MaxCallsAssumption DEF ReferenceInv, DueOfInserts, DueFits

LEMMA InitReferences == Init => ReferenceInv
<1> SUFFICES ASSUME Init PROVE ReferenceInv  OBVIOUS
<1>1. Blank  BY DEF Init, DocInit, Blank
<1>2. RefsInv /\ \A p \in Paths : Due[p] = 0  BY <1>1, InitType, BlankRefs
<1> QED  BY <1>2 DEF Init, ReferenceInv, DueOfInserts

LEMMA NextReferences ==
  ASSUME CountsFit, ReferenceInv, [Next]_vars
  PROVE  ReferenceInv'
<1> USE DEF ReferenceInv
<1>1. TypeInv'  BY NextType DEF RefsInv
<1>2. /\ ~crossed => DueFits /\ \A p \in Paths : Due[p] \in Nat
      /\ inserts \in Nat
  BY DueBounded DEF RefsInv, TypeInv, TypeOK
<1>3. ASSUME RefsInv', ~crossed' => ~crossed /\ NotMoreDue, inserts' = inserts
      PROVE  ReferenceInv'
  <2>1. ~crossed' => \A p \in Paths : Due'[p] <= inserts'
    BY <1>2, <1>3 DEF DueOfInserts, NotMoreDue
  <2> QED  BY <1>3, <2>1 DEF DueOfInserts
<1>4. ASSUME NEW th \in Threads, ThreadStep(th)  PROVE ReferenceInv'
  <2>1. inserts' = inserts
    BY <1>4 DEF ThreadStep, TraceStep, SizeStep, InsertRecord, EraseRecord, EraseEntry, EraseEnd,
                shardVars
  <2> QED  BY <1>2, <1>3, <1>4, <2>1, ThreadStepRefs
<1>5. ASSUME NEW th \in Threads, NEW i \in Inserts, CallInsert(th, i)  PROVE ReferenceInv'
  <2>1. BeginInsert(th, i) /\ inserts' = inserts + 1 /\ i.doc \in Paths
    BY <1>5, InsertsAssumption DEF CallInsert
  <2>2. /\ RefsInv' /\ crossed' = crossed
        /\ ~crossed => \A p \in Paths :
             Due'[p] \in Nat /\ Due'[p] = IF p = i.doc THEN Due[p] + 1 ELSE Due[p]
    BY <1>1, <2>1, BeginInsertRefs
  <2>3. ~crossed' => \A p \in Paths : Due'[p] <= inserts'  BY <1>2, <2>1, <2>2 DEF DueOfInserts
  <2> QED  BY <2>2, <2>3 DEF DueOfInserts
<1>6. ASSUME NEW th \in Threads, NEW tk \in Erasable, CallEraseToken(th, tk)  PROVE ReferenceInv'
  <2>1. inserts' = inserts  BY <1>6 DEF CallEraseToken
  <2> QED  BY <1>1, <1>3, <1>6, <2>1, CallEraseRefs
<1>7. CASE UNCHANGED vars
  BY <1>7, SameRefs DEF DueOfInserts, vars, shardVars
<1> QED  BY <1>4, <1>5, <1>6, <1>7 DEF Next

\* What that says of the index.
LEMMA ReferencesTraced ==
  ASSUME RefsInv
  PROVE  EntriesAreTraced
<1> SUFFICES ASSUME ~crossed, NEW tk \in DOMAIN m_record, NEW e \in heap[m_record[tk]],
                    ~(e[1] = NoView /\ lost # {})
             PROVE  e[1] \in DOMAIN m_trace
  BY DEF EntriesAreTraced
<1> DEFINE r == <<m_record[tk], e[2]>>
<1>1. m_record[tk] \in DOMAIN heap /\ heap[m_record[tk]] \in SUBSET Entries
  BY DEF RefsInv, TypeInv, TypeOK
<1>2. e[1] \in Views /\ e[2] \in Positions /\ e = <<e[1], e[2]>>  BY <1>1 DEF Entries
<1>3. e[1] \in Paths
  BY <1>1, <1>2 DEF RefsInv, Straight, NamesKnown, Views
<1>4. r \in Held[e[1]]
  <2>1. Holds(m_record[tk], e)  BY DEF Holds, Indexed
  <2>2. r \in (DOMAIN heap) \X Positions  BY <1>1, <1>2
  <2> QED  BY <1>2, <1>3, <2>1, <2>2 DEF Held
<1>5. Cardinality(Held[e[1]]) # 0
  BY <1>3, <1>4, FS_EmptySet DEF RefsInv, Straight, CountsRight
<1> DEFINE doc == e[1]
<1>6. Count[doc] # 0
  <2>1. TypeInv /\ CountsRight /\ doc \in Paths  BY <1>3 DEF RefsInv, Straight
  <2>2. /\ Count[doc] = Cardinality(Held[doc]) + surplus[doc] + Cardinality(Going[doc])
        /\ surplus[doc] \in Nat /\ Cardinality(Held[doc]) \in Nat
        /\ Cardinality(Going[doc]) \in Nat
    BY <2>1, CountNat
  <2>3. Cardinality(Held[doc]) # 0  BY <1>5
  <2>4. \A a, b, c \in Nat : a # 0 => a + b + c # 0  OBVIOUS
  <2> HIDE DEF doc
  <2> QED  BY <2>2, <2>3, <2>4
<1> QED  BY <1>3, <1>6 DEF RefsInv, Straight, CountsRight, CountRight

\* At rest the references are those of the index, and the tokens count them as well as their
\* records do.
LEMMA ReferencesHeld ==
  ASSUME RefsInv, ~crossed, Quiet, NEW p \in Paths
  PROVE  Cardinality(ReferencesOf(p)) = Cardinality(Held[p])
<1> DEFINE f == [r \in ReferencesOf(p) |-> <<m_record[r[1]], r[2]>>]
<1>1. \A tk \in DOMAIN m_record : m_record[tk] \in DOMAIN heap  BY DEF RefsInv, TypeInv, TypeOK
<1>2. \A th \in Threads : shpc[th] = "idle"  BY DEF Quiet
<1>3. Held[p] = {r \in (DOMAIN heap) \X Positions :
                   <<p, r[2]>> \in heap[r[1]] /\ \E tk \in DOMAIN m_record : m_record[tk] = r[1]}
  BY <1>2 DEF Held, Holds, Indexed, Taken
<1>4. ReferencesOf(p) = {r \in (DOMAIN m_record) \X Positions :
                           <<p, r[2]>> \in heap[m_record[r[1]]]}
  BY DEF ReferencesOf
<1>5. f \in [ReferencesOf(p) -> Held[p]]
  <2> SUFFICES ASSUME NEW r \in ReferencesOf(p)  PROVE <<m_record[r[1]], r[2]>> \in Held[p]
    OBVIOUS
  <2>1. /\ r[1] \in DOMAIN m_record /\ r[2] \in Positions
        /\ <<p, r[2]>> \in heap[m_record[r[1]]]
    BY <1>4
  <2> QED  BY <1>1, <1>3, <2>1
<1>6. \A r, s \in ReferencesOf(p) : f[r] = f[s] => r = s
  <2> SUFFICES ASSUME NEW r \in ReferencesOf(p), NEW s \in ReferencesOf(p),
                      m_record[r[1]] = m_record[s[1]], r[2] = s[2]
               PROVE  r = s
    OBVIOUS
  <2>1. r[1] = s[1]  BY <1>4 DEF RefsInv, RecordsApart
  <2> QED  BY <1>4, <2>1
<1>7. ASSUME NEW h \in Held[p]  PROVE \E r \in ReferencesOf(p) : f[r] = h
  <2>1. h = <<h[1], h[2]>> /\ h[2] \in Positions /\ <<p, h[2]>> \in heap[h[1]]
    BY <1>3
  <2>2. PICK tk \in DOMAIN m_record : m_record[tk] = h[1]  BY <1>3
  <2>3. <<tk, h[2]>> \in ReferencesOf(p)  BY <1>4, <2>1, <2>2
  <2>4. f[<<tk, h[2]>>] = h  BY <2>1, <2>2, <2>3
  <2> QED  BY <2>3, <2>4
<1> HIDE DEF f
<1>8. f \in Bijection(ReferencesOf(p), Held[p])
  BY <1>5, <1>6, <1>7 DEF Bijection, Injection, Surjection, IsInjective
<1>9. IsFiniteSet(Held[p])  BY DEF RefsInv, Straight, CountsRight
<1>10. ExistsBijection(Held[p], ReferencesOf(p))
  BY <1>8, Fun_ExistsBijSymmetric DEF ExistsBijection
<1> QED  BY <1>9, <1>10, FS_Bijection

LEMMA ReferencesCounted ==
  ASSUME RefsInv
  PROVE  RefCountIsEntryCount
<1> SUFFICES ASSUME ~crossed, Quiet, NEW p \in Paths
             PROVE  LET count == Cardinality(ReferencesOf(p)) + surplus[p] IN
                    IF p \in DOMAIN m_trace
                    THEN m_trace[p] = Wrap(count) /\ (count = 0 => p \in lost)
                    ELSE count = 0
  BY DEF RefCountIsEntryCount
<1> DEFINE count == Cardinality(ReferencesOf(p)) + surplus[p]
<1>1. Going[p] = {} /\ Making[p] = {}
  BY DEF Going, Making, Quiet, DocQuiet
<1>2. Cardinality(Going[p]) = 0  BY <1>1, FS_EmptySet
<1>3. Count[p] = count
  <2>1. Count[p] = Cardinality(Held[p]) + surplus[p] + Cardinality(Going[p]) /\ Count[p] \in Nat
    BY CountNat DEF RefsInv, Straight
  <2>2. surplus[p] \in Nat  BY DEF RefsInv, TypeInv, TypeOK, Views
  <2>3. Cardinality(ReferencesOf(p)) = Cardinality(Held[p])  BY ReferencesHeld
  <2>4. Cardinality(Held[p]) \in Nat
    BY FS_CardinalityType DEF RefsInv, Straight, CountsRight
  <2> QED  BY <1>2, <2>1, <2>2, <2>3, <2>4
<1>4. CountRight(p, m_trace, Count[p], Making[p], p \in lost)
  BY DEF RefsInv, Straight, CountsRight
<1>5. p \in DOMAIN m_trace => m_trace[p] \in 0 .. 2 ^ CountWidth - 1
  BY DEF RefsInv, TypeInv, TypeOK, DocTypeOK
<1> HIDE DEF count
<1>6. ASSUME p \in DOMAIN m_trace  PROVE Wrap(count) = count
  <2> DEFINE C == 2 ^ CountWidth
  <2>1. C \in Nat \ {0}  BY WidthAssumption
  <2>2. count \in 0 .. C - 1  BY <1>3, <1>4, <1>5, <1>6 DEF CountRight
  <2> HIDE DEF C
  <2>3. count % C = count  BY <2>1, <2>2
  <2> QED  BY <2>3 DEF Wrap, C
<1>7. IF p \in DOMAIN m_trace
      THEN m_trace[p] = Wrap(count) /\ (count = 0 => p \in lost)
      ELSE count = 0
  BY <1>1, <1>3, <1>4, <1>6 DEF CountRight
<1> QED  BY <1>7 DEF count

-----------------------------------------------------------------------------
(* References: the theorems                                                 *)

\* Every entry of the index names a document that DocTrace holds, but for two erases that
\* cross and a document that is erased while it is half added: for any number of threads
\* that insert and erase side by side (shard.cpp:24-68).
THEOREM EntriesTraced ==
  ASSUME CountsFit
  PROVE  Spec => []EntriesAreTraced
<1>1. Init => ReferenceInv  BY InitReferences
<1>2. ReferenceInv /\ [Next]_vars => ReferenceInv'  BY NextReferences
<1>3. ReferenceInv => EntriesAreTraced  BY ReferencesTraced DEF ReferenceInv
<1> QED  BY <1>1, <1>2, <1>3, PTL DEF Spec

\* At rest the count of a document is the number of its entries and of the repeated inserts,
\* as long as no two erases crossed on a token (doc_trace.cpp:16-72).
THEOREM RefCountsRight ==
  ASSUME CountsFit
  PROVE  Spec => []RefCountIsEntryCount
<1>1. Init => ReferenceInv  BY InitReferences
<1>2. ReferenceInv /\ [Next]_vars => ReferenceInv'  BY NextReferences
<1>3. ReferenceInv => RefCountIsEntryCount  BY ReferencesCounted DEF ReferenceInv
<1> QED  BY <1>1, <1>2, <1>3, PTL DEF Spec
=============================================================================

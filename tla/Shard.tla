-------------------------------- MODULE Shard --------------------------------
(***************************************************************************)
(* core::Shard: the inverted index m_record, from a token to the record of  *)
(* its <<document, position>> entries, kept in step with the DocTrace.      *)
(* Threads insert and erase; each call is a sequence of atomic operations   *)
(* on m_record and of the steps of DocTrace, the counts of the two maps      *)
(* following each operation in steps of their own.                          *)
(*                                                                          *)
(* Records are shared_ptrs: heap holds every record ever made, m_record the *)
(* index of the one a token has now, so that a thread may still hold a      *)
(* record the index no longer knows.  An entry holds a view of its path,    *)
(* which dangles once the path's key is gone; that takes two erases that    *)
(* cross on a token and a key that went.  From then on an erase and a dump  *)
(* may read entries as any path, and the properties say nothing of them.    *)
(***************************************************************************)
EXTENDS DocTrace, Sequences

CONSTANTS
    Tokens,
    Inserts,        \* the [token, doc, pos] the callers insert
    Erasable,       \* the tokens the callers erase
    MaxCalls        \* bound: how many inserts a behaviour has

ASSUME TokensAssumption == Tokens # {}
ASSUME InsertsAssumption == Inserts \subseteq [token : Tokens, doc : Paths, pos : Nat]
ASSUME ErasableAssumption == Erasable \subseteq Tokens
ASSUME MaxCallsAssumption == MaxCalls \in Nat

VARIABLES
    m_record,       \* token -> its record's place in heap, for the tokens it holds
    heap,           \* the records
    shpc,           \* thread -> where it is in insert or erase
    call,           \* thread -> the token and position of its insert, the token it erases
    found,          \* thread -> the record search gave its erase
    todo,           \* thread -> the entries its erase has still to go through
    inserts,        \* how many inserts were called (history)
    surplus,        \* document -> the inserts that found their entry there (history)
    crossed         \* did an erase take away a record it had not found? (history)

shardVars == <<m_record, heap, shpc, call, found, todo, inserts, surplus, crossed>>
vars == <<mapVars, traceVars, shardVars>>

Positions == {i.pos : i \in Inserts}
Entries == Views \X Positions
NoCall == [token |-> CHOOSE tk \in Tokens : TRUE, pos |-> 0]

TypeOK ==
    /\ DocTypeOK
    /\ heap \in Seq(SUBSET Entries)
    /\ DOMAIN m_record \subseteq Tokens
    /\ \A tk \in DOMAIN m_record : m_record[tk] \in DOMAIN heap
    /\ shpc \in [Threads -> {"idle", "trace", "drop", "iterate"}]
    /\ call \in [Threads -> [token : Tokens, pos : Nat]]
    /\ found \in [Threads -> Nat]
    /\ todo \in [Threads -> SUBSET Entries]
    /\ inserts \in 0 .. MaxCalls
    /\ surplus \in [Views -> Nat]
    /\ crossed \in BOOLEAN

Init ==
    /\ DocInit
    /\ m_record = <<>>
    /\ heap = <<>>
    /\ shpc = [th \in Threads |-> "idle"]
    /\ call = [th \in Threads |-> NoCall]
    /\ found = [th \in Threads |-> 0]
    /\ todo = [th \in Threads |-> {}]
    /\ inserts = 0
    /\ surplus = [p \in Views |-> 0]
    /\ crossed = FALSE

AtRest(th) == shpc[th] = "idle" /\ ~Owes(th)
Quiet == DocQuiet /\ \A th \in Threads : shpc[th] = "idle"

\* May entries of the index be read through views that dangle?
Astray == crossed /\ freed
ReadAs(p) == IF Astray THEN Views ELSE {p}

\* insert begins with addOrIncrement.
BeginInsert(th, i) ==
    /\ AtRest(th)
    /\ CallAdd(th, i.doc)
    /\ shpc' = [shpc EXCEPT ![th] = "trace"]
    /\ call' = [call EXCEPT ![th] = [token |-> i.token, pos |-> i.pos]]
    /\ UNCHANGED <<m_record, heap, found, todo, surplus, crossed>>

\* Bound: MaxCalls inserts.
CallInsert(th, i) ==
    /\ inserts < MaxCalls
    /\ inserts' = inserts + 1
    /\ BeginInsert(th, i)

\* Slip: a new token gets the record that was made last.
LastRecord == Len(heap)
NextRecord == Len(heap) + 1

\* m_record.mutate: addIfNotPresent to the token's record, or make one with the entry in
\* it.
InsertRecord(th) ==
    LET tk == call[th].token
        entry == <<hook[th], call[th].pos>>
    IN
    /\ shpc[th] = "trace"
    /\ dpc[th] = "idle" /\ ~Owes(th)
    /\ IF Contains(m_record, tk)
       THEN /\ heap' = [heap EXCEPT ![m_record[tk]] = @ \union {entry}]
            /\ surplus' = IF entry \in heap[m_record[tk]]
                          THEN [surplus EXCEPT ![hook[th]] = @ + 1]
                          ELSE surplus
            /\ UNCHANGED m_record
       ELSE /\ heap' = Append(heap, {entry})
            /\ m_record' = Inserted(m_record, tk, NextRecord)
            /\ UNCHANGED surplus
    /\ Owe(th, "record", PushDiff(m_record, tk))
    /\ shpc' = [shpc EXCEPT ![th] = "idle"]
    /\ UNCHANGED <<traceVars, call, found, todo, inserts, crossed>>

\* erase begins with search, which gets the record or, of a token that is not there, a
\* default that means there is nothing to erase.
CallEraseToken(th, tk) ==
    /\ AtRest(th)
    /\ Get(m_record, tk, 0) # 0
    /\ found' = [found EXCEPT ![th] = Get(m_record, tk, 0)]
    /\ call' = [call EXCEPT ![th] = [token |-> tk, pos |-> 0]]
    /\ shpc' = [shpc EXCEPT ![th] = "drop"]
    /\ UNCHANGED <<mapVars, traceVars, m_record, heap, todo, inserts, surplus, crossed>>

\* m_record.erase(token) takes away whatever record the token has by now; erase goes
\* through the one it found.
EraseRecord(th) ==
    LET tk == call[th].token IN
    /\ shpc[th] = "drop"
    /\ IF Contains(m_record, tk)
       THEN /\ m_record' = Erased(m_record, tk)
            /\ todo' = [todo EXCEPT ![th] = heap[found[th]]]
            /\ shpc' = [shpc EXCEPT ![th] = "iterate"]
            /\ crossed' = (crossed \/ m_record[tk] # found[th])
       ELSE /\ shpc' = [shpc EXCEPT ![th] = "idle"]
            /\ UNCHANGED <<m_record, todo, crossed>>
    /\ Owe(th, "record", EraseDiff(m_record, tk))
    /\ UNCHANGED <<traceVars, heap, call, found, inserts, surplus>>

RestOf(entries, entry) == entries \ {entry}

\* The next entry of the record: eraseOrDecrement of its document.
EraseEntry(th, entry) ==
    /\ shpc[th] = "iterate" /\ ~Owes(th)
    /\ entry \in todo[th]
    /\ \E p \in ReadAs(entry[1]) : CallErase(th, p)
    /\ todo' = [todo EXCEPT ![th] = RestOf(@, entry)]
    /\ UNCHANGED <<m_record, heap, shpc, call, found, inserts, surplus, crossed>>

EraseEnd(th) ==
    /\ shpc[th] = "iterate"
    /\ dpc[th] = "idle" /\ ~Owes(th)
    /\ todo[th] = {}
    /\ shpc' = [shpc EXCEPT ![th] = "idle"]
    /\ UNCHANGED <<mapVars, traceVars, m_record, heap, call, found, todo, inserts, surplus,
                   crossed>>

TraceStep(th) == DocStep(th) /\ UNCHANGED shardVars

SizeStep(th) == CountDiff(th) /\ UNCHANGED <<traceVars, shardVars>>

ThreadStep(th) ==
    \/ TraceStep(th) \/ SizeStep(th) \/ InsertRecord(th) \/ EraseRecord(th) \/ EraseEnd(th)
    \/ \E entry \in todo[th] : EraseEntry(th, entry)

Next ==
    \E th \in Threads :
          \/ ThreadStep(th)
          \/ \E i \in Inserts : CallInsert(th, i)
          \/ \E tk \in Erasable : CallEraseToken(th, tk)

Spec == Init /\ [][Next]_vars

-----------------------------------------------------------------------------
(* Properties                                                               *)

\* The entries of p in the records the index holds.
ReferencesOf(p) == {r \in (DOMAIN m_record) \X Positions :
                      <<p, r[2]>> \in heap[m_record[r[1]]]}

\* Whatever inserts and erases run side by side, every entry of the index names a document
\* that DocTrace holds, with two exceptions: two erases cross on a token, so that one takes
\* away a record and goes through another; or an erase takes the last reference of a
\* document between the two halves of an add, whose entry then names the empty path.
EntriesAreTraced ==
    ~crossed =>
      \A tk \in DOMAIN m_record : \A e \in heap[m_record[tk]] :
        e[1] \in DOMAIN m_trace \/ (e[1] = NoView /\ lost # {})

\* At rest, unless two erases have crossed on a token, the reference count of a document is
\* the number of its entries, over all tokens and positions, and one more for every insert
\* that was repeated; a document is gone from the trace with its last reference, but for
\* one that was erased between the two halves of an add, which stays with a count of 0.
RefCountIsEntryCount ==
    Quiet /\ ~crossed =>
      \A p \in Paths :
        LET count == Cardinality(ReferencesOf(p)) + surplus[p] IN
        IF p \in DOMAIN m_trace
        THEN m_trace[p] = Wrap(count) /\ (count = 0 => p \in lost)
        ELSE count = 0

\* At rest, as long as no document has left the index since the server started, the
\* documents with statistics are those with a count, whatever threads created and counted
\* them side by side, and whatever erases took away some of their entries. (One that is gone
\* leaves its statistics behind, under a key that dangles: mutate has freed the path's bytes
\* when m_stats.erase looks for them. So "those not in use are deleted", doc_trace.h:19-20,
\* is half true at best.)
IndexedHaveStats == Quiet /\ ~freed => m_stats = DOMAIN m_trace /\ dangling = 0

\* "every entry names a document that is held", without the exceptions.
EveryEntryTraced ==
    \A tk \in DOMAIN m_record : \A e \in heap[m_record[tk]] : e[1] \in DOMAIN m_trace

\* The counts that tokenCount, docCount and loadFactor read are off by what threads have
\* still to add and by nothing else: a token or a document that two threads push or take
\* away at once is counted once.
SizesAddUp == SizeAddsUp("record", DOMAIN m_record) /\ SizeAddsUp("trace", DOMAIN m_trace)
=============================================================================

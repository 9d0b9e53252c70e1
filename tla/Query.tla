------------------------------- MODULE Query -------------------------------
(***************************************************************************)
(* Reading the index while it grows: SearchEngine::searchQuery and its      *)
(* tasks in the thread pool, Anechka::RequestTokenSearch and                *)
(* RequestTokenSearchWithContext, against tasks that index files.  A record *)
(* is a USet of <<document, position>> entries, the ranks of a query are a  *)
(* SUMap.                                                                   *)
(*                                                                          *)
(* All tasks are submitted in the beginning; the pool runs them in any      *)
(* order and at any time (TaskPool).  tf * idf is a number, so a task adds  *)
(* the frequency it found; each token has a bucket of m_record to itself;   *)
(* and a record that was erased meanwhile is one nobody inserts into.       *)
(***************************************************************************)
EXTENDS IterableProxy, Functions, SequencesExt

CONSTANTS
    Searches,           \* the threads that search
    TokenOf,            \* search -> its token
    Tasks,              \* those of them that are the tasks of the query
    Listers,            \* and those that list the entries; the others want their contexts
    Entries,            \* what can be in a record
    Records,            \* token -> the entries of its record when the query begins
    Writers,            \* the tasks that index a file
    File,               \* writer -> the [token, entry] its file has, in order
    Unreadable,         \* documents that cannot be opened when their context is wanted
    EntryHash,          \* entry -> its hash
    RecordSize,         \* buckets of a record
    DocHash,            \* document -> its hash
    RanksSize,          \* buckets of ranks
    Listed,             \* how many entries RequestTokenSearch returns: 50
    Ranked              \* how many documents searchQuery returns: 20

Tokens == DOMAIN Records
Docs == DOMAIN DocHash

ASSUME SearchesAssumption ==
    /\ IsFiniteSet(Searches) /\ Tasks \subseteq Searches
    /\ Listers \subseteq Searches \ Tasks
    /\ TokenOf \in [Searches -> Tokens]
ASSUME EntriesAssumption ==
    /\ Entries \subseteq Docs \X Nat
    /\ Records \in [Tokens -> SUBSET Entries]
    /\ \A tk \in Tokens : IsFiniteSet(Records[tk])
    /\ File \in [Writers -> Seq([token : Tokens, entry : Entries])]
    /\ Unreadable \subseteq Docs
ASSUME HashAssumption == EntryHash \in [Entries -> Nat] /\ DocHash \in [Docs -> Nat]
ASSUME SizesAssumption == {RecordSize, RanksSize, Ranked} \subseteq Nat \ {0} /\ Listed \in Nat

VARIABLES
    record,             \* token -> the buckets of its record
    wpc,                \* writer -> where it is
    place,              \* writer -> which of its file's tokens is the next
    spc,                \* search -> where it is
    iter,               \* search -> its iterator, while it holds the record's lock
    hist,               \* task -> document -> how often it has seen it
    todo,               \* task -> the documents still to be ranked
    final,              \* search -> the entries it lists
    seen,               \* search -> the entries it has visited (history)
    ranks,              \* the buckets of the query's map, of <<document, rank>>
    result              \* what searchQuery returns, <<>> before

vars == <<record, wpc, place, spc, iter, hist, todo, final, seen, ranks, result>>

NoIterator == [bucketId |-> 0, crawl |-> End]
NoHits == [d \in Docs |-> 0]

InBuckets(buckets) == UNION {Range(buckets[b]) : b \in DOMAIN buckets}
RecordOf(s) == record[TokenOf[s]]

BucketIndex(entry) == EntryHash[entry] % RecordSize

WriterPlaces == {"open", "insert", "inside", "absent", "done"}
SearchPlaces == {"search", "lock", "iterate", "rank", "done"}

TypeOK ==
    /\ record \in [Tokens -> [0 .. RecordSize - 1 -> Seq(Entries)]]
    /\ wpc \in [Writers -> WriterPlaces]
    /\ \A w \in Writers : place[w] \in 1 .. Len(File[w]) + 1
    /\ spc \in [Searches -> SearchPlaces]
    /\ \A s \in Searches : spc[s] = "iterate" =>
         /\ iter[s].bucketId \in 0 .. RecordSize
         /\ iter[s].crawl \in Places(RecordOf(s))
    /\ hist \in [Searches -> [Docs -> Nat]]
    /\ todo \in [Searches -> SUBSET Docs]
    /\ final \in [Searches -> Seq(Entries)]
    /\ seen \in [Searches -> SUBSET Entries]
    /\ ranks \in [0 .. RanksSize - 1 -> Seq(Docs \X Nat)]
    /\ result \in Seq(Docs \X Nat)

Init ==
    /\ record = [tk \in Tokens |-> [b \in 0 .. RecordSize - 1 |->
                   SetToSeq({e \in Records[tk] : BucketIndex(e) = b})]]
    /\ wpc = [w \in Writers |-> "open"]
    /\ place = [w \in Writers |-> 1]
    /\ spc = [s \in Searches |-> "search"]
    /\ iter = [s \in Searches |-> NoIterator]
    /\ hist = [s \in Searches |-> NoHits]
    /\ todo = [s \in Searches |-> {}]
    /\ final = [s \in Searches |-> <<>>]
    /\ seen = [s \in Searches |-> {}]
    /\ ranks = [b \in 0 .. RanksSize - 1 |-> <<>>]
    /\ result = <<>>

-----------------------------------------------------------------------------
(* Indexing: SearchEngine::indexTxtFile, and Shard::insert for each token    *)

NextInsert(w) == File[w][place[w]]

\* No writer is in the token's bucket of m_record.
BucketFree(tk) == \A w \in Writers : wpc[w] = "inside" => NextInsert(w).token # tk

\* Not a text, not there, or not to be mapped.
SkipFile(w) ==
    /\ wpc[w] = "open"
    /\ wpc' = [wpc EXCEPT ![w] = "absent"]
    /\ UNCHANGED <<record, place, spc, iter, hist, todo, final, seen, ranks, result>>

OpenFile(w) ==
    /\ wpc[w] = "open"
    /\ wpc' = [wpc EXCEPT ![w] = IF File[w] = <<>> THEN "done" ELSE "insert"]
    /\ UNCHANGED <<record, place, spc, iter, hist, todo, final, seen, ranks, result>>

\* Takes the lock of m_record's bucket, which keeps other writers and searches out.
StartInsert(w) ==
    /\ wpc[w] = "insert"
    /\ BucketFree(NextInsert(w).token)
    /\ wpc' = [wpc EXCEPT ![w] = "inside"]
    /\ UNCHANGED <<record, place, spc, iter, hist, todo, final, seen, ranks, result>>

\* Slip: the loops do not hold the record's lock.
RecordUnlocked(tk) == TRUE
\* Slip: the proxy with the lock is never destroyed.
RecordKept(tk) == \A s \in Searches : TokenOf[s] = tk => spc[s] \in {"search", "lock"}
\* m_globalMtx of the record, which a loop holds alone, can be shared.
RecordFree(tk) == \A s \in Searches : TokenOf[s] = tk => spc[s] # "iterate"

\* Slip: every insert makes a new record.
EntryAlone(bucket, entry) == <<entry>>
EntryAdded(bucket, entry) ==
    IF entry \in Range(bucket) THEN bucket ELSE Append(bucket, entry)

AddIfNotPresent(w) ==
    LET tk == NextInsert(w).token
        entry == NextInsert(w).entry
    IN
    /\ wpc[w] = "inside"
    /\ RecordFree(tk)
    /\ record' = [record EXCEPT ![tk][BucketIndex(entry)] = EntryAdded(@, entry)]
    /\ place' = [place EXCEPT ![w] = @ + 1]
    /\ wpc' = [wpc EXCEPT ![w] = IF place[w] < Len(File[w]) THEN "insert" ELSE "done"]
    /\ UNCHANGED <<spc, iter, hist, todo, final, seen, ranks, result>>

WriterStep(w) == SkipFile(w) \/ OpenFile(w) \/ StartInsert(w) \/ AddIfNotPresent(w)

-----------------------------------------------------------------------------
(* Searching                                                                *)

\* Shard::search: a record exists once it has an entry.
Search(s) ==
    /\ spc[s] = "search"
    /\ BucketFree(TokenOf[s])
    /\ spc' = [spc EXCEPT ![s] = IF InBuckets(RecordOf(s)) = {} THEN "done" ELSE "lock"]
    /\ UNCHANGED <<record, wpc, place, iter, hist, todo, final, seen, ranks, result>>

\* The loop begins, with the record's lock to itself.
Iterate(s) ==
    /\ spc[s] = "lock"
    /\ RecordFree(TokenOf[s])
    /\ spc' = [spc EXCEPT ![s] = "iterate"]
    /\ iter' = [iter EXCEPT ![s] = Begin(RecordOf(s))]
    /\ UNCHANGED <<record, wpc, place, hist, todo, final, seen, ranks, result>>

\* RequestTokenSearch stops at its threshold.
Enough(s) == s \in Listers /\ Len(final[s]) = Listed

\* The body of the loop: hist[path]++ in a task, one more result in a handler, unless
\* the context of an entry cannot be read.
Visit(s) ==
    LET entry == Entry(RecordOf(s), iter[s]) IN
    /\ spc[s] = "iterate"
    /\ Differs(iter[s], EndOf(RecordOf(s)))
    /\ ~Enough(s)
    /\ IF s \in Tasks
       THEN hist' = [hist EXCEPT ![s][entry[1]] = @ + 1] /\ UNCHANGED final
       ELSE /\ final' = IF s \notin Listers /\ entry[1] \in Unreadable THEN final
                        ELSE [final EXCEPT ![s] = Append(@, entry)]
            /\ UNCHANGED hist
    /\ seen' = [seen EXCEPT ![s] = @ \union {entry}]
    /\ iter' = [iter EXCEPT ![s] = Incremented(RecordOf(s), @)]
    /\ UNCHANGED <<record, wpc, place, spc, todo, ranks, result>>

\* The loop ends and gives the lock back.
Leave(s) ==
    /\ spc[s] = "iterate"
    /\ Enough(s) \/ ~Differs(iter[s], EndOf(RecordOf(s)))
    /\ IF s \in Tasks
       THEN /\ spc' = [spc EXCEPT ![s] = "rank"]
            /\ todo' = [todo EXCEPT ![s] = {d \in Docs : hist[s][d] > 0}]
       ELSE /\ spc' = [spc EXCEPT ![s] = "done"]
            /\ UNCHANGED todo
    /\ iter' = [iter EXCEPT ![s] = NoIterator]
    /\ UNCHANGED <<record, wpc, place, hist, final, seen, ranks, result>>

\* Slip: a rank that is there is overwritten.
RankSet(bucket, doc, n) == Append(SelectSeq(bucket, LAMBDA r : r[1] # doc), <<doc, n>>)
\* SUMap::mutate with the callback of rankDocs, under the bucket's lock.
RankAdded(bucket, doc, n) ==
    IF \E i \in DOMAIN bucket : bucket[i][1] = doc
    THEN [i \in DOMAIN bucket |->
            IF bucket[i][1] = doc THEN <<doc, bucket[i][2] + n>> ELSE bucket[i]]
    ELSE Append(bucket, <<doc, n>>)

RankDocs(s, doc) ==
    LET b == DocHash[doc] % RanksSize IN
    /\ spc[s] = "rank"
    /\ doc \in todo[s]
    /\ ranks' = [ranks EXCEPT ![b] = RankAdded(@, doc, hist[s][doc])]
    /\ todo' = [todo EXCEPT ![s] = @ \ {doc}]
    /\ UNCHANGED <<record, wpc, place, spc, iter, hist, final, seen, result>>

EndTask(s) ==
    /\ spc[s] = "rank"
    /\ todo[s] = {}
    /\ spc' = [spc EXCEPT ![s] = "done"]
    /\ UNCHANGED <<record, wpc, place, iter, hist, todo, final, seen, ranks, result>>

SearchStep(s) ==
    \/ Search(s) \/ Iterate(s) \/ Visit(s) \/ Leave(s) \/ EndTask(s)
    \/ \E d \in todo[s] : RankDocs(s, d)

-----------------------------------------------------------------------------
(* The caller of searchQuery                                                *)

\* Bucket after bucket.
SnapshotDense == FlattenSeq([b \in 1 .. RanksSize |-> ranks[b - 1]])

\* docRankCompare
Before(first, second) == first[2] > second[2]

\* What std::partial_sort may leave in front: n of the ranks, none behind one it comes
\* before, and none left out that comes before one of them.
Sorted(s) == \A i, j \in DOMAIN s : i < j => ~Before(s[j], s[i])
PartialSorts(rest, n) ==
    {s \in {SubSeq(p, 1, n) : p \in SetToSeqs(Range(rest))} :
       /\ Sorted(s)
       /\ \A r \in Range(rest) \ Range(s) : \A i \in DOMAIN s : ~Before(r, s[i])}

TopX == IF Len(SnapshotDense) < Ranked THEN Len(SnapshotDense) ELSE Ranked

\* Slip: futures that are not waited for.
NotWaited == TRUE
\* The destructor of futures waits for every task.
AllReady == \A t \in Tasks : spc[t] = "done"

Rank ==
    /\ AllReady
    /\ result = <<>>
    /\ SnapshotDense # <<>>
    /\ result' \in PartialSorts(SnapshotDense, TopX)
    /\ UNCHANGED <<record, wpc, place, spc, iter, hist, todo, final, seen, ranks>>

Next ==
    \/ \E w \in Writers : WriterStep(w)
    \/ \E s \in Searches : SearchStep(s)
    \/ Rank

Fairness ==
    /\ \A w \in Writers : WF_vars(WriterStep(w))
    /\ \A s \in Searches : WF_vars(SearchStep(s))
    /\ WF_vars(Rank)

Spec == Init /\ [][Next]_vars /\ Fairness

-----------------------------------------------------------------------------
(* Properties                                                               *)

\* How often d is in a set of entries.
HitsOf(d, entries) == Cardinality({e \in entries : e[1] = d})

\* A loop that has come to its end has visited every entry the record has now, whatever
\* buckets are empty and whoever waits to insert, and each of them once.
LoopSeesAll ==
    \A s \in Searches :
      (spc[s] = "iterate" /\ ~Differs(iter[s], EndOf(RecordOf(s)))) =>
        /\ seen[s] = InBuckets(RecordOf(s))
        /\ IF s \in Tasks
           THEN hist[s] = [d \in Docs |-> HitsOf(d, seen[s])]
           ELSE /\ IsInjective(final[s])
                /\ Range(final[s]) = {e \in seen[s] :
                                        s \in Listers \/ e[1] \notin Unreadable}

\* What was indexed when the query began, and what a file's task has inserted since, is
\* in its record, however the tasks of several files take turns at one record.
IndexedStays ==
    /\ \A tk \in Tokens : Records[tk] \subseteq InBuckets(record[tk])
    /\ \A w \in Writers : \A i \in 1 .. place[w] - 1 :
         File[w][i].entry \in InBuckets(record[File[w][i].token])

\* The rank d should have: what all tasks found.
RankOf(d) == SumFunction([t \in Tasks |-> hist[t][d]])

\* When the tasks are through, the map has the documents they found, each once, and no
\* two tasks that ranked one at the same time lost a part of its rank; what was indexed
\* when the query began is in it.
RanksAddUp ==
    AllReady =>
      /\ Len(SnapshotDense) = Cardinality({d \in Docs : RankOf(d) > 0})
      /\ \A i \in DOMAIN SnapshotDense : SnapshotDense[i][2] = RankOf(SnapshotDense[i][1])
      /\ \A t \in Tasks, d \in Docs : hist[t][d] >= HitsOf(d, Records[TokenOf[t]])

\* searchQuery returns the best documents in order, with their whole rank: no task is
\* still at work on what it returns.
TopRanked ==
    result # <<>> =>
      /\ \A i \in DOMAIN result : result[i][2] = RankOf(result[i][1])
      /\ Sorted(result)
      /\ \A d \in Docs \ {r[1] : r \in Range(result)} :
           RankOf(d) > 0 => Len(result) = Ranked /\ RankOf(d) <= result[Ranked][2]

\* Every search and every task that indexes a file returns, although each loop keeps the writers out of
\* its record and each writer keeps the searches out of its bucket of m_record.
AllReturn ==
    <>(/\ \A s \in Searches : spc[s] = "done"
       /\ \A w \in Writers : wpc[w] \in {"absent", "done"})
=============================================================================

-------------------------------- MODULE Cache --------------------------------
(***************************************************************************)
(* cache::Cache between the searches that fill it and the writes that       *)
(* invalidate it.  A search looks into the cache, computes its result from  *)
(* the index when nothing is there, and caches it; SearchEngine::insert and *)
(* erase invalidate the cache and then change the index.  Nothing orders    *)
(* the steps of two threads but the locks of the maps inside.               *)
(*                                                                          *)
(* The index is the number of writes it has seen, a result is the index it  *)
(* was computed from.  An entry type is an SUMap, and each key here has a   *)
(* bucket of its own.                                                       *)
(***************************************************************************)
EXTENDS SUMap, Sequences

CONSTANTS
    AllTypes,           \* CacheType::All, in its order
    Keys,               \* the tokens and queries that are searched
    TypeOf,             \* key -> the entry type its handler uses
    KeepsEmpty,         \* the types whose handler caches an empty result too
    Capacity,           \* how many entries m_size may count before one is evicted
    MaxWrites,          \* bound: writes to the index
    MaxSearches         \* bound: searches

ASSUME TypesAssumption ==
    /\ AllTypes \in Seq({AllTypes[n] : n \in DOMAIN AllTypes})
    /\ TypeOf \in [Keys -> {AllTypes[n] : n \in DOMAIN AllTypes}]
ASSUME KeepsEmptyAssumption == KeepsEmpty \subseteq {AllTypes[n] : n \in DOMAIN AllTypes}
ASSUME BoundsAssumption ==
    Capacity \in Nat /\ MaxWrites \in Nat /\ MaxSearches \in Nat

VARIABLES
    index,              \* how many writes m_storage has seen
    entries,            \* key -> the result cached for it, for the keys that have one
    m_clear,
    pc,                 \* thread -> where it is in a search or a write
    key,                \* thread -> what it searches for
    result,             \* thread -> what its search has computed
    typeAt,             \* thread -> which type of All its invalidate has reached
    toDrop,             \* thread -> the buckets its drop has still to empty
    searches,           \* searches so far (history)
    mixed               \* the types of which a search ran beside a write, and none was
                        \* dropped as a whole since (history)

cacheVars == <<index, entries, m_clear, pc, key, result, typeAt, toDrop, searches, mixed>>
vars == <<mapVars, cacheVars>>

Types == {AllTypes[n] : n \in DOMAIN AllTypes}
KeysOf(ty) == {k \in Keys : TypeOf[k] = ty}
Searching == {"compute", "unclear", "evict", "insert"}
Writing == {"check", "type", "drop", "store"}
Places == {"idle"} \union Searching \union Writing

TypeOK ==
    /\ index \in 0 .. MaxWrites
    /\ DOMAIN entries \subseteq Keys
    /\ \A k \in DOMAIN entries : entries[k] \in 0 .. index
    /\ SizesOK(Types)
    /\ m_clear \in BOOLEAN
    /\ pc \in [Threads -> Places]
    /\ key \in [Threads -> Keys]
    /\ result \in [Threads -> 0 .. index]
    /\ typeAt \in [Threads -> 1 .. Len(AllTypes) + 1]
    /\ toDrop \in [Threads -> SUBSET Keys]
    /\ searches \in 0 .. MaxSearches
    /\ mixed \subseteq Types

Init ==
    /\ index = 0
    /\ entries = <<>>
    /\ SizesInit(Types)
    /\ m_clear = TRUE
    /\ pc = [th \in Threads |-> "idle"]
    /\ key \in {[th \in Threads |-> k] : k \in Keys}
    /\ result = [th \in Threads |-> 0]
    /\ typeAt = [th \in Threads |-> 1]
    /\ toDrop = [th \in Threads |-> {}]
    /\ searches = 0
    /\ mixed = {}

Goto(th, place) == pc' = [pc EXCEPT ![th] = place]

Quiet == \A th \in Threads : pc[th] = "idle" /\ ~Owes(th)
Writers == {th \in Threads : pc[th] \in Writing}

\* The searches of a type that are still to cache their result, or to count it.
Searchers(ty) ==
    {th \in Threads : TypeOf[key[th]] = ty /\ (pc[th] \in Searching \/ Owes(th))}

-----------------------------------------------------------------------------
(* A search: searchCache, the search itself, Cache::cache                   *)

\* A hit is answered at once.
SearchCache(th, k) ==
    /\ pc[th] = "idle"
    /\ searches < MaxSearches
    /\ searches' = searches + 1
    /\ key' = [key EXCEPT ![th] = k]
    /\ Goto(th, IF Contains(entries, k) THEN "idle" ELSE "compute")
    /\ mixed' = IF Writers = {} \/ Contains(entries, k) THEN mixed ELSE mixed \union {TypeOf[k]}
    /\ UNCHANGED <<index, entries, mapVars, m_clear, result, typeAt, toDrop>>

\* RequestTokenSearchWithContext reads its result off the index; a token that is not
\* found is answered without a word to the cache.
ContextResult(th) ==
    /\ pc[th] = "compute"
    /\ TypeOf[key[th]] \notin KeepsEmpty
    /\ result' = [result EXCEPT ![th] = index]
    /\ Goto(th, "unclear") \/ Goto(th, "idle")
    /\ UNCHANGED <<index, entries, mapVars, m_clear, key, typeAt, toDrop, searches, mixed>>

\* RequestQuerySearch keeps what searchQuery found, be it nothing.
QueryResult(th) ==
    /\ pc[th] = "compute"
    /\ TypeOf[key[th]] \in KeepsEmpty
    /\ result' = [result EXCEPT ![th] = index]
    /\ Goto(th, "unclear")
    /\ UNCHANGED <<index, entries, mapVars, m_clear, key, typeAt, toDrop, searches, mixed>>

\* loadFactor() > m_maxLF
Overloaded(ty) == m_size[ty] > Capacity

\* m_clear = false
Unclear(th) ==
    /\ pc[th] = "unclear"
    /\ m_clear' = FALSE
    /\ Goto(th, IF Overloaded(TypeOf[key[th]]) THEN "evict" ELSE "insert")
    /\ UNCHANGED <<index, entries, mapVars, key, result, typeAt, toDrop, searches, mixed>>

\* eraseRandom probes buckets at random, none of them with an entry perhaps; having
\* erased one it reads the key it returns from what is gone, and may go on.  It leaves
\* m_size as it is.
Evict(th) ==
    /\ pc[th] = "evict"
    /\ \E gone \in SUBSET (KeysOf(TypeOf[key[th]]) \intersect DOMAIN entries) :
         entries' = Restrict(entries, DOMAIN entries \ gone)
    /\ Goto(th, "insert")
    /\ UNCHANGED <<index, mapVars, m_clear, key, result, typeAt, toDrop, searches, mixed>>

\* SUMap::insert into the type's map.
InsertEntry(th) ==
    LET k == key[th] IN
    /\ pc[th] = "insert"
    /\ entries' = Inserted(entries, k, result[th])
    /\ Owe(th, TypeOf[k], PushDiff(entries, k))
    /\ Goto(th, "idle")
    /\ UNCHANGED <<index, m_clear, key, result, typeAt, toDrop, searches, mixed>>

-----------------------------------------------------------------------------
(* A write: Cache::invalidate, then m_storage->insert or erase              *)

Write(th) ==
    /\ pc[th] = "idle"
    /\ index + Cardinality(Writers) < MaxWrites
    /\ Goto(th, "check")
    /\ mixed' = mixed \union {ty \in Types : Searchers(ty) # {}}
    /\ UNCHANGED <<index, entries, mapVars, m_clear, key, result, typeAt, toDrop, searches>>

\* invalidate returns early when the cache counts as clear.
CheckClear(th) ==
    /\ pc[th] = "check"
    /\ typeAt' = [typeAt EXCEPT ![th] = 1]
    /\ Goto(th, IF m_clear THEN "store" ELSE "type")
    /\ UNCHANGED <<index, entries, mapVars, m_clear, key, result, toDrop, searches, mixed>>

\* Slip: drop goes through all buckets but the first.
BucketsButOne(ty) == KeysOf(ty) \ {CHOOSE k \in KeysOf(ty) : TRUE}
BucketsOf(ty) == KeysOf(ty)

\* drop of the next type: nothing to do if m_size is 0.
DropBegin(th) ==
    LET ty == AllTypes[typeAt[th]] IN
    /\ pc[th] = "type"
    /\ typeAt[th] <= Len(AllTypes)
    /\ IF m_size[ty] = 0
       THEN /\ typeAt' = [typeAt EXCEPT ![th] = @ + 1]
            /\ UNCHANGED <<pc, toDrop, mixed>>
       ELSE /\ toDrop' = [toDrop EXCEPT ![th] = BucketsOf(ty)]
            /\ mixed' = IF Searchers(ty) = {} THEN mixed \ {ty} ELSE mixed
            /\ Goto(th, "drop")
            /\ UNCHANGED typeAt
    /\ UNCHANGED <<index, entries, mapVars, m_clear, key, result, searches>>

DropBucket(th, k) ==
    /\ pc[th] = "drop"
    /\ k \in toDrop[th]
    /\ entries' = Erased(entries, k)
    /\ toDrop' = [toDrop EXCEPT ![th] = @ \ {k}]
    /\ UNCHANGED <<index, mapVars, m_clear, pc, key, result, typeAt, searches, mixed>>

\* Slip: drop subtracts the number of buckets it went through.
SizeAfterBuckets(ty) == m_size[ty] - Cardinality(KeysOf(ty))
SizeAfterDrop(ty) == 0

\* m_size = 0, whatever was inserted into the buckets already emptied.
DropEnd(th) ==
    /\ pc[th] = "drop"
    /\ toDrop[th] = {}
    /\ m_size' = [m_size EXCEPT ![AllTypes[typeAt[th]]] = SizeAfterDrop(AllTypes[typeAt[th]])]
    /\ UNCHANGED diff
    /\ typeAt' = [typeAt EXCEPT ![th] = @ + 1]
    /\ Goto(th, "type")
    /\ UNCHANGED <<index, entries, m_clear, key, result, toDrop, searches, mixed>>

\* m_clear = true
Cleared(th) ==
    /\ pc[th] = "type"
    /\ typeAt[th] > Len(AllTypes)
    /\ m_clear' = TRUE
    /\ Goto(th, "store")
    /\ UNCHANGED <<index, entries, mapVars, key, result, typeAt, toDrop, searches, mixed>>

\* m_storage changes after the cache was invalidated.
Store(th) ==
    /\ pc[th] = "store"
    /\ index' = index + 1
    /\ Goto(th, "idle")
    /\ UNCHANGED <<entries, mapVars, m_clear, key, result, typeAt, toDrop, searches, mixed>>

SizeStep(th) == CountDiff(th) /\ UNCHANGED cacheVars

\* A map's operation has settled its m_size before the thread goes on.
Next ==
    \E th \in Threads :
      \/ SizeStep(th)
      \/ /\ ~Owes(th)
         /\ \/ \E k \in Keys : SearchCache(th, k) \/ DropBucket(th, k)
            \/ ContextResult(th) \/ QueryResult(th)
            \/ Unclear(th) \/ Evict(th) \/ InsertEntry(th)
            \/ Write(th) \/ CheckClear(th) \/ DropBegin(th) \/ DropEnd(th) \/ Cleared(th)
            \/ Store(th)

Spec == Init /\ [][Next]_vars

-----------------------------------------------------------------------------
(* Properties                                                               *)

\* While no write is under way a search served from the cache gets what the index holds, if no
\* search of its type has run beside a write since the type was last dropped as a whole -
\* however many writes ran side by side, and whatever searches of other types did meanwhile.
FreshUnlessMixed ==
    Writers = {} =>
      \A k \in DOMAIN entries : TypeOf[k] \notin mixed => entries[k] = index

\* Of such a type m_size counts the entries that are there, but for those still to be counted,
\* so that drop's early return leaves nothing behind, though an eviction lowers the entries
\* and not m_size and drops of other writes set it to 0; and a cache that counts as clear
\* has no entries of it for invalidate to skip.
DropMissesNothing ==
    Writers = {} =>
      \A ty \in Types \ mixed :
        /\ Cardinality(KeysOf(ty) \intersect DOMAIN entries) <= m_size[ty] + OwedTo(ty)
        /\ m_clear => KeysOf(ty) \intersect DOMAIN entries = {}

\* "The engine will index the data and make it searchable": at rest a search served from the
\* cache gets what the index holds, whatever ran before.
FreshAtRest == Quiet => \A k \in DOMAIN entries : entries[k] = index
=============================================================================

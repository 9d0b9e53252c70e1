----------------------------- MODULE CacheProofs -----------------------------
(***************************************************************************)
(* What holds of the cache, for every number of threads, keys, types,       *)
(* searches and writes, any of them side by side.                           *)
(***************************************************************************)
EXTENDS Cache, FiniteSetTheorems, TLAPS

\* m_size does not wrap: it never counts more than the searches.  A size_t is wide enough for
\* every search a process can answer.
SearchesFit == MaxSearches < 2 ^ SizeWidth

-----------------------------------------------------------------------------
(* The inductive invariant                                                  *)

\* A search computes, caches and counts; a thread that owes a difference is done with it, and
\* owes one more to the type it searched.
Debts == \A th \in Threads : Owes(th) => pc[th] = "idle" /\ diff[th] = <<TypeOf[key[th]], 1>>

\* A write that is under way has still to count.
WritesBounded == index + Cardinality(Writers) <= MaxWrites

\* The searches of a type that is not mixed have no write beside them.
Apart == \A ty \in Types \ mixed : Writers = {} \/ Searchers(ty) = {}

\* A drop under way will empty this bucket.
Doomed(k) == \E th \in Threads : pc[th] = "drop" /\ k \in toDrop[th]

\* The entries of types that are not mixed that no drop under way will take.
Staying == {k \in DOMAIN entries : TypeOf[k] \notin mixed /\ ~Doomed(k)}

\* They, and those about to come, were computed from the index there is now.
Fresh ==
    /\ \A k \in Staying : entries[k] = index
    /\ \A th \in Threads :
         pc[th] \in {"unclear", "evict", "insert"} /\ TypeOf[key[th]] \notin mixed =>
           result[th] = index

\* A cache that counts as clear has none, and gets none until somebody says it is not.
ClearIsEmpty ==
    /\ m_clear => Staying = {}
    /\ \A th \in Threads :
         pc[th] \in {"evict", "insert"} /\ TypeOf[key[th]] \notin mixed => ~m_clear

\* A write has left none of the types it went through, which another's drop may still be
\* emptying; so there are none when it changes the index.
EmptiedBy(th) ==
    /\ pc[th] \in {"type", "drop"} =>
         \A n \in 1 .. Len(AllTypes) :
           n < typeAt[th] \/ (pc[th] = "drop" /\ n = typeAt[th]) =>
             KeysOf(AllTypes[n]) \intersect Staying = {}
    /\ pc[th] = "drop" => typeAt[th] <= Len(AllTypes)
    /\ pc[th] = "store" => Staying = {}

Emptied == \A th \in Threads : EmptiedBy(th)

\* For each type: the entries that stay, the threads that still have to count one, and those
\* that have or may yet.
EntriesOf == [ty \in Types |-> KeysOf(ty) \intersect Staying]
Uncounted == [ty \in Types |-> {th \in Threads : diff[th] = <<ty, 1>>}]
Claims == [ty \in Types |-> {th \in Threads : diff[th] = <<ty, 1>> \/ pc[th] \in Searching}]

\* No entry is without a count, and no count without a search.
Counted ==
    \A ty \in Types :
      /\ Cardinality(EntriesOf[ty]) <= m_size[ty] + Cardinality(Uncounted[ty])
      /\ m_size[ty] + Cardinality(Claims[ty]) <= searches

CacheInv ==
    /\ TypeOK
    /\ IsFiniteSet(DOMAIN entries)
    /\ Debts /\ WritesBounded /\ Apart /\ Fresh /\ ClearIsEmpty /\ Emptied /\ Counted

-----------------------------------------------------------------------------
(* Counting                                                                 *)

LEMMA TypesOfKeys ==
  /\ \A k \in Keys : TypeOf[k] \in Types
  /\ \A ty \in Types : \E n \in 1 .. Len(AllTypes) : ty = AllTypes[n]
  /\ \A n \in 1 .. Len(AllTypes) : AllTypes[n] \in Types
  /\ Len(AllTypes) \in Nat
BY TypesAssumption DEF Types

LEMMA SetsFinite ==
  ASSUME NEW ty \in Types
  PROVE  /\ IsFiniteSet(Uncounted[ty]) /\ Cardinality(Uncounted[ty]) \in Nat
         /\ IsFiniteSet(Claims[ty]) /\ Cardinality(Claims[ty]) \in Nat
         /\ IsFiniteSet(DOMAIN entries) =>
              IsFiniteSet(EntriesOf[ty]) /\ Cardinality(EntriesOf[ty]) \in Nat
<1>1. Uncounted[ty] \subseteq Threads /\ Claims[ty] \subseteq Threads
  BY DEF Uncounted, Claims
<1>2. EntriesOf[ty] \subseteq DOMAIN entries  BY DEF EntriesOf, Staying
<1> QED  BY <1>1, <1>2, ThreadsAssumption, FS_Subset, FS_CardinalityType

LEMMA SizesNat ==
  ASSUME TypeOK, NEW ty \in Types
  PROVE  m_size[ty] \in Nat /\ searches \in Nat
<1>1. 2 ^ SizeWidth \in Nat \ {0}  BY SizeWidthAssumption
<1> QED  BY <1>1, BoundsAssumption DEF TypeOK, SizesOK

\* A type's count while m_size and what is owed stay as they are.
LEMMA StillCounted ==
  ASSUME CacheInv, UNCHANGED <<m_size, diff>>, Staying' \subseteq Staying,
         DOMAIN entries' \subseteq DOMAIN entries, searches' = searches,
         \A th \in Threads : pc'[th] \in Searching => pc[th] \in Searching
  PROVE  IsFiniteSet(DOMAIN entries') /\ Counted'
<1>1. IsFiniteSet(DOMAIN entries')  BY FS_Subset DEF CacheInv
<1>2. ASSUME NEW ty \in Types
      PROVE  /\ Cardinality(EntriesOf'[ty]) <= m_size[ty] + Cardinality(Uncounted'[ty])
             /\ m_size[ty] + Cardinality(Claims'[ty]) <= searches
  <2>1. EntriesOf'[ty] \subseteq EntriesOf[ty]  BY DEF EntriesOf
  <2>2. Uncounted'[ty] = Uncounted[ty]  BY DEF Uncounted
  <2>3. Claims'[ty] \subseteq Claims[ty]  BY DEF Claims
  <2>4. /\ IsFiniteSet(EntriesOf[ty]) /\ IsFiniteSet(Claims[ty])
        /\ Cardinality(EntriesOf[ty]) \in Nat /\ Cardinality(Uncounted[ty]) \in Nat
        /\ Cardinality(Claims[ty]) \in Nat
    BY SetsFinite DEF CacheInv
  <2>5. /\ Cardinality(EntriesOf'[ty]) \in Nat /\ Cardinality(Claims'[ty]) \in Nat
        /\ Cardinality(EntriesOf'[ty]) <= Cardinality(EntriesOf[ty])
        /\ Cardinality(Claims'[ty]) <= Cardinality(Claims[ty])
    BY <2>1, <2>3, <2>4, FS_Subset, FS_CardinalityType
  <2>6. m_size[ty] \in Nat /\ searches \in Nat  BY SizesNat DEF CacheInv
  <2>7. /\ Cardinality(EntriesOf[ty]) <= m_size[ty] + Cardinality(Uncounted[ty])
        /\ m_size[ty] + Cardinality(Claims[ty]) <= searches
    BY DEF CacheInv, Counted
  <2> QED  BY <2>2, <2>4, <2>5, <2>6, <2>7
<1> QED  BY <1>1, <1>2 DEF Counted

-----------------------------------------------------------------------------
(* What a step leaves                                                       *)

\* The thread that takes a step, and the others.
LEMMA Others ==
  ASSUME CacheInv, NEW th \in Threads, NEW place \in Places, Goto(th, place)
  PROVE  /\ pc' \in [Threads -> Places] /\ pc'[th] = place
         /\ \A other \in Threads : other # th => pc'[other] = pc[other]
BY DEF Goto, CacheInv, TypeOK

LEMMA PlacesApart ==
  /\ {"check", "type", "drop", "store"} \subseteq Writing /\ "idle" \notin Writing
  /\ {"compute", "unclear", "evict", "insert"} \subseteq Searching /\ "idle" \notin Searching
  /\ Searching \intersect Writing = {} /\ "drop" \notin Searching
  /\ Writing \subseteq Places /\ Searching \subseteq Places /\ "idle" \in Places
BY DEF Writing, Searching, Places

\* The entries stay, if no drop begins or ends.
LEMMA SameStaying ==
  ASSUME UNCHANGED <<entries, mixed, toDrop>>,
         \A th \in Threads : pc'[th] = "drop" <=> pc[th] = "drop"
  PROVE  Staying' = Staying
BY DEF Staying, Doomed

\* What a thread has emptied stays empty, while no entry comes to stay.
LEMMA StillEmptied ==
  ASSUME CacheInv, NEW th \in Threads, Staying' \subseteq Staying,
         pc'[th] = pc[th], typeAt'[th] = typeAt[th]
  PROVE  EmptiedBy(th)'
BY DEF CacheInv, Emptied, EmptiedBy

\* The step of a search: it is no writer before or after.
LEMMA SearcherStep ==
  ASSUME CacheInv, NEW th \in Threads, NEW place, pc[th] \notin Writing, place \notin Writing,
         place \in Places, Goto(th, place)
  PROVE  /\ pc' \in [Threads -> Places] /\ pc'[th] = place
         /\ \A other \in Threads : other # th => pc'[other] = pc[other]
         /\ Writers' = Writers /\ \A o \in Threads : pc'[o] = "drop" <=> pc[o] = "drop"
         /\ index' = index => WritesBounded'
<1>1. /\ pc' \in [Threads -> Places] /\ pc'[th] = place
      /\ \A other \in Threads : other # th => pc'[other] = pc[other]
  BY Others
<1>2. Writers' = Writers  BY <1>1 DEF Writers
<1>3. \A o \in Threads : pc'[o] = "drop" <=> pc[o] = "drop"  BY <1>1, PlacesApart
<1> QED  BY <1>1, <1>2, <1>3 DEF CacheInv, WritesBounded

-----------------------------------------------------------------------------
(* Searches                                                                 *)

\* The search begins: with a hit it is over; beside a write it mixes its type.
LEMMA SearchCacheNext ==
  ASSUME CacheInv, NEW th \in Threads, ~Owes(th), NEW k \in Keys, SearchCache(th, k)
  PROVE  CacheInv'
<1> USE DEF CacheInv
<1>1. PICK place \in {"idle", "compute"} :
        Goto(th, place) /\ (place = "compute" <=> ~Contains(entries, k))
  BY DEF SearchCache
<1>2. /\ place \in Places /\ place \notin Writing /\ pc[th] = "idle" /\ pc[th] \notin Writing
  BY <1>1, PlacesApart DEF SearchCache
<1>3. /\ pc' \in [Threads -> Places] /\ pc'[th] = place
      /\ \A other \in Threads : other # th => pc'[other] = pc[other]
      /\ Writers' = Writers /\ \A o \in Threads : pc'[o] = "drop" <=> pc[o] = "drop"
      /\ index' = index => WritesBounded'
  BY <1>1, <1>2, SearcherStep
<1>4. /\ UNCHANGED <<index, entries, m_size, diff, m_clear, result, typeAt, toDrop>>
      /\ key' = [key EXCEPT ![th] = k] /\ searches' = searches + 1 /\ searches < MaxSearches
      /\ mixed \subseteq mixed' /\ mixed' \subseteq mixed \union {TypeOf[k]}
      /\ Writers # {} /\ place = "compute" => TypeOf[k] \in mixed'
  BY <1>1 DEF SearchCache, mapVars
<1>5. /\ key' \in [Threads -> Keys] /\ key'[th] = k
      /\ \A other \in Threads : other # th => key'[other] = key[other]
  BY <1>4 DEF TypeOK
<1>6. TypeOK'
  <2>1. searches' \in 0 .. MaxSearches  BY <1>4, BoundsAssumption DEF TypeOK
  <2>2. mixed' \subseteq Types  BY <1>4, TypesOfKeys DEF TypeOK
  <2> QED  BY <1>3, <1>4, <1>5, <2>1, <2>2 DEF TypeOK, SizesOK
<1>7. Debts'  BY <1>2, <1>3, <1>4, <1>5 DEF Debts, Owes
<1>8. Staying' \subseteq Staying  BY <1>3, <1>4 DEF Staying, Doomed
<1>9. Apart'
  <2> SUFFICES ASSUME NEW ty \in Types \ mixed', Writers # {}, NEW o \in Searchers(ty)'
               PROVE  FALSE
    BY <1>3 DEF Apart
  <2>1. /\ o \in Threads /\ TypeOf[key'[o]] = ty
        /\ pc'[o] \in Searching \/ diff'[o] # <<>>
    BY DEF Searchers, Owes
  <2>2. CASE o = th
    <3>1. diff'[th] = <<>>  BY <1>4 DEF Owes
    <3>2. place = "compute"  BY <1>1, <1>3, <2>1, <2>2, <3>1, PlacesApart
    <3> QED  BY <1>4, <1>5, <2>1, <2>2, <3>2
  <2>3. CASE o # th
    <3>1. o \in Searchers(ty)  BY <1>3, <1>4, <1>5, <2>1, <2>3 DEF Searchers, Owes
    <3> QED  BY <1>4, <3>1 DEF Apart
  <2> QED  BY <2>2, <2>3
<1>10. Fresh' /\ ClearIsEmpty'
  BY <1>1, <1>3, <1>4, <1>5, <1>8 DEF Fresh, ClearIsEmpty, Staying
<1>11. Emptied'
  <2>1. \A o \in Threads : o # th => EmptiedBy(o)'  BY <1>3, <1>4, <1>8, StillEmptied
  <2>2. EmptiedBy(th)'  BY <1>1, <1>3 DEF EmptiedBy
  <2> QED  BY <2>1, <2>2 DEF Emptied
<1>12. Counted'
  <2>1. ASSUME NEW ty \in Types
        PROVE  /\ Cardinality(EntriesOf'[ty]) <= m_size[ty] + Cardinality(Uncounted'[ty])
               /\ m_size[ty] + Cardinality(Claims'[ty]) <= searches + 1
    <3>1. EntriesOf'[ty] \subseteq EntriesOf[ty] /\ Uncounted'[ty] = Uncounted[ty]
      BY <1>4, <1>8 DEF EntriesOf, Uncounted
    <3>2. Claims'[ty] \subseteq Claims[ty] \union {th}  BY <1>3, <1>4 DEF Claims
    <3>3. /\ IsFiniteSet(Claims[ty]) /\ Cardinality(Claims[ty]) \in Nat
          /\ IsFiniteSet(EntriesOf[ty]) /\ Cardinality(EntriesOf[ty]) \in Nat
          /\ Cardinality(Uncounted[ty]) \in Nat
      BY SetsFinite
    <3>4. /\ IsFiniteSet(Claims[ty] \union {th})
          /\ Cardinality(Claims[ty] \union {th}) \in {Cardinality(Claims[ty]), Cardinality(Claims[ty]) + 1}
      BY <3>3, FS_AddElement
    <3>5. /\ Cardinality(Claims'[ty]) \in Nat
          /\ Cardinality(Claims'[ty]) <= Cardinality(Claims[ty] \union {th})
      BY <3>2, <3>4, FS_Subset, FS_CardinalityType
    <3>6. /\ Cardinality(EntriesOf'[ty]) \in Nat
          /\ Cardinality(EntriesOf'[ty]) <= Cardinality(EntriesOf[ty])
      BY <3>1, <3>3, FS_Subset, FS_CardinalityType
    <3>7. m_size[ty] \in Nat /\ searches \in Nat  BY SizesNat
    <3>8. /\ Cardinality(EntriesOf[ty]) <= m_size[ty] + Cardinality(Uncounted[ty])
          /\ m_size[ty] + Cardinality(Claims[ty]) <= searches
      BY DEF Counted
    <3> QED  BY <3>1, <3>3, <3>4, <3>5, <3>6, <3>7, <3>8
  <2> QED  BY <1>4, <2>1 DEF Counted
<1> QED  BY <1>3, <1>4, <1>6, <1>7, <1>9, <1>10, <1>11, <1>12

\* A step of a search under way, but for its insert: entries may go, the place is another.
LEMMA SearchGoesOn ==
  ASSUME CacheInv, NEW th \in Threads, ~Owes(th), pc[th] \in Searching,
         NEW place \in Places \ Writing, Goto(th, place),
         UNCHANGED <<index, m_size, diff, key, typeAt, toDrop, searches, mixed>>,
         DOMAIN entries' \subseteq DOMAIN entries,
         \A k \in DOMAIN entries' : entries'[k] = entries[k]
  PROVE  /\ pc' \in [Threads -> Places] /\ pc'[th] = place /\ Staying' \subseteq Staying
         /\ \A other \in Threads : other # th => pc'[other] = pc[other]
         /\ IsFiniteSet(DOMAIN entries')
         /\ Debts' /\ WritesBounded' /\ Apart' /\ Emptied' /\ Counted'
<1> USE DEF CacheInv
<1>1. pc[th] \notin Writing  BY PlacesApart
<1>2. /\ pc' \in [Threads -> Places] /\ pc'[th] = place
      /\ \A other \in Threads : other # th => pc'[other] = pc[other]
      /\ Writers' = Writers /\ \A o \in Threads : pc'[o] = "drop" <=> pc[o] = "drop"
      /\ WritesBounded'
  BY <1>1, SearcherStep
<1>3. Staying' \subseteq Staying  BY <1>2 DEF Staying, Doomed
<1>4. Debts'  BY <1>2 DEF Debts, Owes
<1>5. Apart'
  <2>1. \A ty \in Types : Searchers(ty)' \subseteq Searchers(ty)
    BY <1>2 DEF Searchers, Owes
  <2> QED  BY <1>2, <2>1 DEF Apart
<1>6. Emptied'
  <2>1. \A o \in Threads : o # th => EmptiedBy(o)'  BY <1>2, <1>3, StillEmptied
  <2>2. EmptiedBy(th)'  BY <1>2, PlacesApart DEF EmptiedBy
  <2> QED  BY <2>1, <2>2 DEF Emptied
<1>7. IsFiniteSet(DOMAIN entries') /\ Counted'  BY <1>2, <1>3, StillCounted
<1> QED  BY <1>2, <1>3, <1>4, <1>5, <1>6, <1>7

\* A result is read off the index.
LEMMA ResultNext ==
  ASSUME CacheInv, NEW th \in Threads, ~Owes(th), ContextResult(th) \/ QueryResult(th)
  PROVE  CacheInv'
<1> USE DEF CacheInv
<1>1. PICK place \in {"idle", "unclear"} : Goto(th, place)  BY DEF ContextResult, QueryResult
<1>2. pc[th] = "compute" /\ pc[th] \in Searching /\ place \in Places \ Writing
  BY PlacesApart DEF ContextResult, QueryResult
<1>3. /\ UNCHANGED <<index, entries, m_size, diff, m_clear, key, typeAt, toDrop, searches, mixed>>
      /\ result' = [result EXCEPT ![th] = index]
  BY DEF ContextResult, QueryResult, mapVars
<1>4. /\ pc' \in [Threads -> Places] /\ pc'[th] = place /\ Staying' \subseteq Staying
      /\ \A other \in Threads : other # th => pc'[other] = pc[other]
      /\ IsFiniteSet(DOMAIN entries')
      /\ Debts' /\ WritesBounded' /\ Apart' /\ Emptied' /\ Counted'
  BY <1>1, <1>2, <1>3, SearchGoesOn
<1>5. TypeOK'
  <2>1. index \in 0 .. index  BY BoundsAssumption DEF TypeOK
  <2>2. result' \in [Threads -> 0 .. index]  BY <1>3, <2>1 DEF TypeOK
  <2> QED  BY <1>3, <1>4, <2>2 DEF TypeOK, SizesOK
<1>6. Fresh'  BY <1>1, <1>3, <1>4 DEF Fresh, TypeOK
<1>7. ClearIsEmpty'  BY <1>1, <1>3, <1>4 DEF ClearIsEmpty
<1> QED  BY <1>4, <1>5, <1>6, <1>7

\* The cache counts as clear no longer.
LEMMA UnclearNext ==
  ASSUME CacheInv, NEW th \in Threads, ~Owes(th), Unclear(th)
  PROVE  CacheInv'
<1> USE DEF CacheInv
<1>1. PICK place \in {"evict", "insert"} : Goto(th, place)  BY DEF Unclear
<1>2. pc[th] = "unclear" /\ pc[th] \in Searching /\ place \in Places \ Writing
  BY PlacesApart DEF Unclear
<1>3. /\ UNCHANGED <<index, entries, m_size, diff, key, result, typeAt, toDrop, searches, mixed>>
      /\ m_clear' = FALSE
  BY DEF Unclear, mapVars
<1>4. /\ pc' \in [Threads -> Places] /\ pc'[th] = place /\ Staying' \subseteq Staying
      /\ \A other \in Threads : other # th => pc'[other] = pc[other]
      /\ IsFiniteSet(DOMAIN entries')
      /\ Debts' /\ WritesBounded' /\ Apart' /\ Emptied' /\ Counted'
  BY <1>1, <1>2, <1>3, SearchGoesOn
<1>5. TypeOK'  BY <1>3, <1>4 DEF TypeOK, SizesOK
<1>6. Fresh'  BY <1>1, <1>2, <1>3, <1>4 DEF Fresh
<1>7. ClearIsEmpty'  BY <1>3 DEF ClearIsEmpty
<1> QED  BY <1>4, <1>5, <1>6, <1>7

\* Entries go, and nothing else changes.
LEMMA EvictNext ==
  ASSUME CacheInv, NEW th \in Threads, ~Owes(th), Evict(th)
  PROVE  CacheInv'
<1> USE DEF CacheInv
<1>1. Goto(th, "insert") /\ pc[th] = "evict" /\ pc[th] \in Searching
      /\ "insert" \in Places \ Writing
  BY PlacesApart DEF Evict
<1>2. UNCHANGED <<index, m_size, diff, m_clear, key, result, typeAt, toDrop, searches, mixed>>
  BY DEF Evict, mapVars
<1>3. /\ DOMAIN entries' \subseteq DOMAIN entries
      /\ \A k \in DOMAIN entries' : entries'[k] = entries[k]
  BY DEF Evict, Restrict
<1>4. /\ pc' \in [Threads -> Places] /\ pc'[th] = "insert" /\ Staying' \subseteq Staying
      /\ \A other \in Threads : other # th => pc'[other] = pc[other]
      /\ IsFiniteSet(DOMAIN entries')
      /\ Debts' /\ WritesBounded' /\ Apart' /\ Emptied' /\ Counted'
  BY <1>1, <1>2, <1>3, SearchGoesOn
<1>5. TypeOK'  BY <1>2, <1>3, <1>4 DEF TypeOK, SizesOK
<1>6. Fresh'
  <2>1. Staying' \subseteq DOMAIN entries'  BY DEF Staying
  <2> QED  BY <1>1, <1>2, <1>3, <1>4, <2>1 DEF Fresh
<1>7. ClearIsEmpty'  BY <1>1, <1>2, <1>4 DEF ClearIsEmpty
<1> QED  BY <1>4, <1>5, <1>6, <1>7

-----------------------------------------------------------------------------
(* Entries that come, and their count                                       *)

\* The number of entries, and what is owed for them, grow together.
LEMMA InsertEntryNext ==
  ASSUME CacheInv, NEW th \in Threads, ~Owes(th), InsertEntry(th)
  PROVE  CacheInv'
<1> DEFINE k == key[th]
           ty0 == TypeOf[k]
<1> USE DEF CacheInv
<1>1. /\ Goto(th, "idle") /\ "idle" \in Places /\ "idle" \notin Writing
      /\ pc[th] = "insert" /\ pc[th] \notin Writing /\ pc[th] \in Searching
  BY PlacesApart DEF InsertEntry
<1>2. UNCHANGED <<index, m_size, m_clear, key, result, typeAt, toDrop, searches, mixed>>
  BY DEF InsertEntry, Owe
<1>3. /\ pc' \in [Threads -> Places] /\ pc'[th] = "idle"
      /\ \A other \in Threads : other # th => pc'[other] = pc[other]
      /\ Writers' = Writers /\ \A o \in Threads : pc'[o] = "drop" <=> pc[o] = "drop"
      /\ WritesBounded'
  BY <1>1, <1>2, SearcherStep
<1>4. k \in Keys /\ ty0 \in Types  BY TypesOfKeys DEF TypeOK
<1>5. diff[th] = <<>> /\ diff \in [Threads -> {<<>>} \union (Types \X {-1, 1})]
  BY DEF Owes, TypeOK, SizesOK
<1>6. diff' = [diff EXCEPT ![th] = IF k \in DOMAIN entries THEN <<>> ELSE <<ty0, 1>>]
  <2>1. diff' = [diff EXCEPT ![th] = IF PushDiff(entries, k) = 0 THEN <<>>
                                     ELSE <<ty0, PushDiff(entries, k)>>]
    BY DEF InsertEntry, Owe
  <2>2. CASE k \in DOMAIN entries
    <3>1. PushDiff(entries, k) = 0  BY <2>2 DEF PushDiff, Contains
    <3> QED  BY <2>1, <2>2, <3>1
  <2>3. CASE k \notin DOMAIN entries
    <3>1. PushDiff(entries, k) = 1  BY <2>3 DEF PushDiff, Contains
    <3> QED  BY <2>1, <2>3, <3>1
  <2> QED  BY <2>2, <2>3
<1>7. /\ diff' \in [Threads -> {<<>>} \union (Types \X {-1, 1})]
      /\ diff'[th] = IF k \in DOMAIN entries THEN <<>> ELSE <<ty0, 1>>
      /\ \A other \in Threads : other # th => diff'[other] = diff[other]
  BY <1>4, <1>5, <1>6
<1>8. /\ DOMAIN entries' = DOMAIN entries \union {k} /\ entries'[k] = result[th]
      /\ \A x \in DOMAIN entries : x # k => entries'[x] = entries[x]
  BY DEF InsertEntry, Inserted
<1>9. TypeOK'
  <2>1. entries'[k] \in 0 .. index  BY <1>8 DEF TypeOK
  <2>2. \A x \in DOMAIN entries' : entries'[x] \in 0 .. index  BY <1>8, <2>1 DEF TypeOK
  <2> QED  BY <1>2, <1>3, <1>4, <1>7, <1>8, <2>2 DEF TypeOK, SizesOK
<1>10. Debts'  BY <1>2, <1>3, <1>7 DEF Debts, Owes
<1>11. Apart'
  <2>1. \A ty \in Types : Searchers(ty)' \subseteq Searchers(ty)
    BY <1>1, <1>2, <1>3, <1>7 DEF Searchers, Owes
  <2> QED  BY <1>2, <1>3, <2>1 DEF Apart
<1>12. ty0 \notin mixed =>
         /\ Writers = {} /\ result[th] = index /\ ~m_clear
         /\ Staying' = Staying \union {k} /\ (k \in DOMAIN entries => k \in Staying)
  <2> SUFFICES ASSUME ty0 \notin mixed
               PROVE  /\ Writers = {} /\ result[th] = index /\ ~m_clear
                      /\ Staying' = Staying \union {k} /\ (k \in DOMAIN entries => k \in Staying)
    OBVIOUS
  <2>1. th \in Searchers(ty0)  BY <1>1 DEF Searchers
  <2>2. Writers = {}  BY <1>4, <2>1 DEF Apart
  <2>3. \A o \in Threads : pc[o] # "drop" /\ pc'[o] # "drop"
    BY <1>3, <2>2, PlacesApart DEF Writers
  <2>4. result[th] = index /\ ~m_clear  BY <1>1 DEF Fresh, ClearIsEmpty
  <2> QED  BY <1>2, <1>8, <2>2, <2>3, <2>4 DEF Staying, Doomed
<1>13. ty0 \in mixed => Staying' = Staying  BY <1>2, <1>3, <1>8 DEF Staying, Doomed, InsertEntry
<1>14. Fresh'
  <2>1. \A x \in Staying' : entries'[x] = index
    <3>1. CASE ty0 \in mixed
      <4>1. Staying' = Staying /\ k \notin Staying /\ Staying \subseteq DOMAIN entries
        BY <1>13, <3>1 DEF Staying
      <4> QED  BY <1>8, <4>1 DEF Fresh
    <3>2. CASE ty0 \notin mixed
      <4>1. /\ Staying' = Staying \union {k} /\ result[th] = index
            /\ Staying \subseteq DOMAIN entries
        BY <1>12, <3>2 DEF Staying
      <4> QED  BY <1>8, <4>1 DEF Fresh
    <3> QED  BY <3>1, <3>2
  <2> QED  BY <1>2, <1>3, <2>1 DEF Fresh
<1>15. ClearIsEmpty'  BY <1>2, <1>3, <1>12, <1>13 DEF ClearIsEmpty
<1>16. Emptied'
  <2>1. ASSUME NEW o \in Threads PROVE EmptiedBy(o)'
    <3>1. CASE o = th  BY <1>3, <3>1 DEF EmptiedBy
    <3>2. CASE o # th /\ ty0 \in mixed
      <4>1. Staying' \subseteq Staying /\ pc'[o] = pc[o] /\ typeAt'[o] = typeAt[o]
        BY <1>2, <1>3, <1>13, <3>2
      <4> QED  BY <4>1, StillEmptied
    <3>3. CASE o # th /\ ty0 \notin mixed
      <4>1. pc'[o] = pc[o] /\ pc[o] \notin Writing  BY <1>3, <1>12, <3>3 DEF Writers
      <4> QED  BY <4>1, PlacesApart DEF EmptiedBy
    <3> QED  BY <3>1, <3>2, <3>3
  <2> QED  BY <2>1 DEF Emptied
<1>17. IsFiniteSet(DOMAIN entries')  BY <1>8, FS_AddElement
<1>18. ASSUME NEW ty \in Types
       PROVE  /\ Cardinality(EntriesOf'[ty]) <= m_size[ty] + Cardinality(Uncounted'[ty])
              /\ m_size[ty] + Cardinality(Claims'[ty]) <= searches
  <2>1. Claims'[ty] \subseteq Claims[ty]  BY <1>1, <1>3, <1>7, PlacesApart DEF Claims
  <2>2. /\ IsFiniteSet(Claims[ty]) /\ Cardinality(Claims[ty]) \in Nat
        /\ IsFiniteSet(Uncounted[ty]) /\ Cardinality(Uncounted[ty]) \in Nat
        /\ IsFiniteSet(EntriesOf[ty]) /\ Cardinality(EntriesOf[ty]) \in Nat
    BY SetsFinite
  <2>3. /\ Cardinality(Claims'[ty]) \in Nat
        /\ Cardinality(Claims'[ty]) <= Cardinality(Claims[ty])
    BY <2>1, <2>2, FS_Subset, FS_CardinalityType
  <2>4. m_size[ty] \in Nat /\ searches \in Nat  BY SizesNat
  <2>5. /\ Cardinality(EntriesOf[ty]) <= m_size[ty] + Cardinality(Uncounted[ty])
        /\ m_size[ty] + Cardinality(Claims[ty]) <= searches
    BY DEF Counted
  <2>6. CASE ty = ty0 /\ ty0 \notin mixed /\ k \notin DOMAIN entries
    <3>1. EntriesOf'[ty] = EntriesOf[ty] \union {k} /\ k \notin EntriesOf[ty]
      BY <1>4, <1>12, <2>6 DEF EntriesOf, KeysOf, Staying
    <3>2. Uncounted'[ty] = Uncounted[ty] \union {th} /\ th \notin Uncounted[ty]
      BY <1>5, <1>7, <2>6 DEF Uncounted
    <3>3. /\ Cardinality(EntriesOf'[ty]) = Cardinality(EntriesOf[ty]) + 1
          /\ Cardinality(Uncounted'[ty]) = Cardinality(Uncounted[ty]) + 1
      BY <2>2, <3>1, <3>2, FS_AddElement
    <3> QED  BY <2>2, <2>3, <2>4, <2>5, <3>3
  <2>7. CASE ~(ty = ty0 /\ ty0 \notin mixed /\ k \notin DOMAIN entries)
    <3>1. EntriesOf'[ty] = EntriesOf[ty]
      <4>1. CASE ty # ty0 /\ ty0 \notin mixed
        <5>1. Staying' = Staying \union {k} /\ k \notin KeysOf(ty)
          BY <1>12, <4>1 DEF KeysOf
        <5> QED  BY <5>1 DEF EntriesOf
      <4>2. CASE ty0 \in mixed  BY <1>13, <4>2 DEF EntriesOf
      <4>3. CASE ty = ty0 /\ ty0 \notin mixed /\ k \in DOMAIN entries
        <5>1. Staying' = Staying  BY <1>12, <4>3
        <5> QED  BY <5>1 DEF EntriesOf
      <4> QED  BY <2>7, <4>1, <4>2, <4>3
    <3>2. Uncounted[ty] \subseteq Uncounted'[ty] /\ Uncounted'[ty] \subseteq Threads
      BY <1>5, <1>7 DEF Uncounted
    <3>3. IsFiniteSet(Uncounted'[ty])  BY <3>2, ThreadsAssumption, FS_Subset
    <3>4. /\ Cardinality(Uncounted'[ty]) \in Nat
          /\ Cardinality(Uncounted[ty]) <= Cardinality(Uncounted'[ty])
      BY <3>2, <3>3, FS_Subset, FS_CardinalityType
    <3> QED  BY <2>2, <2>3, <2>4, <2>5, <3>1, <3>4
  <2> QED  BY <2>6, <2>7
<1>19. Counted'  BY <1>2, <1>18 DEF Counted
<1> QED  BY <1>3, <1>9, <1>10, <1>11, <1>14, <1>15, <1>16, <1>17, <1>19

\* m_size takes over what was owed, without wrapping.
LEMMA SizeStepNext ==
  ASSUME CacheInv, SearchesFit, NEW th \in Threads, SizeStep(th)
  PROVE  CacheInv'
<1> DEFINE M == 2 ^ SizeWidth
           ty0 == diff[th][1]
<1> USE DEF CacheInv
<1>1. M \in Nat \ {0} /\ MaxSearches < M /\ MaxSearches \in Nat
  BY SizeWidthAssumption, BoundsAssumption DEF SearchesFit
<1>2. m_size \in [Types -> 0 .. M - 1] /\ diff \in [Threads -> {<<>>} \union (Types \X {-1, 1})]
  BY DEF TypeOK, SizesOK
<1>3. /\ UNCHANGED cacheVars /\ Owes(th)
      /\ m_size' = [m_size EXCEPT ![ty0] = (m_size[ty0] + diff[th][2]) % M]
      /\ diff' = [diff EXCEPT ![th] = <<>>]
  BY DEF SizeStep, CountDiff, SizeWrap
<1> HIDE DEF M
<1>4. diff[th] = <<ty0, 1>> /\ ty0 \in Types
  BY <1>2, <1>3 DEF Debts, Owes
<1>5. UNCHANGED <<index, entries, m_clear, pc, key, result, typeAt, toDrop, searches, mixed>>
  BY <1>3 DEF cacheVars
<1>6. pc[th] = "idle"  BY <1>3 DEF Debts
<1>7. /\ diff' \in [Threads -> {<<>>} \union (Types \X {-1, 1})]
      /\ diff'[th] = <<>> /\ \A other \in Threads : other # th => diff'[other] = diff[other]
  BY <1>2, <1>3
<1>8. Staying' = Staying /\ Writers' = Writers  BY <1>5 DEF Staying, Doomed, Writers
<1>9. ASSUME NEW ty \in Types
      PROVE  /\ IsFiniteSet(Claims[ty]) /\ Cardinality(Claims[ty]) \in Nat
             /\ IsFiniteSet(Uncounted[ty]) /\ Cardinality(Uncounted[ty]) \in Nat
             /\ Cardinality(EntriesOf[ty]) \in Nat
             /\ m_size[ty] \in 0 .. M - 1 /\ searches \in 0 .. MaxSearches
             /\ Cardinality(EntriesOf[ty]) <= m_size[ty] + Cardinality(Uncounted[ty])
             /\ m_size[ty] + Cardinality(Claims[ty]) <= searches
             /\ EntriesOf'[ty] = EntriesOf[ty]
  BY <1>2, <1>8, SetsFinite DEF TypeOK, Counted, EntriesOf
<1>10. /\ Cardinality(Claims'[ty0]) = Cardinality(Claims[ty0]) - 1
       /\ Cardinality(Uncounted'[ty0]) = Cardinality(Uncounted[ty0]) - 1
       /\ Cardinality(Claims'[ty0]) \in Nat
  <2>1. Claims'[ty0] = Claims[ty0] \ {th} /\ th \in Claims[ty0]
    BY <1>4, <1>5, <1>6, <1>7, PlacesApart DEF Claims
  <2>2. Uncounted'[ty0] = Uncounted[ty0] \ {th} /\ th \in Uncounted[ty0]
    BY <1>4, <1>7 DEF Uncounted
  <2>3. IsFiniteSet(Claims'[ty0])  BY <1>4, <1>9, <2>1, FS_Subset
  <2>4. /\ IsFiniteSet(Claims[ty0]) /\ IsFiniteSet(Uncounted[ty0])  BY <1>4, <1>9
  <2>5. Cardinality(Claims[ty0] \ {th}) = Cardinality(Claims[ty0]) - 1
    BY <2>1, <2>4, FS_RemoveElement
  <2>6. Cardinality(Uncounted[ty0] \ {th}) = Cardinality(Uncounted[ty0]) - 1
    BY <2>2, <2>4, FS_RemoveElement
  <2>7. Cardinality(Claims'[ty0]) \in Nat  BY <2>3, FS_CardinalityType
  <2> QED  BY <2>1, <2>2, <2>5, <2>6, <2>7
<1>11. m_size'[ty0] = m_size[ty0] + 1 /\ m_size[ty0] + 1 \in 0 .. M - 1
  <2>1. m_size[ty0] + 1 \in 0 .. M - 1  BY <1>1, <1>4, <1>9, <1>10
  <2>2. (m_size[ty0] + 1) % M = m_size[ty0] + 1  BY <1>1, <2>1
  <2> QED  BY <1>2, <1>3, <1>4, <2>1, <2>2
<1>12. /\ m_size' \in [Types -> 0 .. M - 1]
       /\ \A ty \in Types : ty # ty0 => m_size'[ty] = m_size[ty]
  BY <1>2, <1>3, <1>4, <1>11
<1>13. TypeOK'  BY <1>5, <1>7, <1>12 DEF TypeOK, SizesOK, M
<1>14. Debts' /\ WritesBounded'  BY <1>5, <1>7, <1>8 DEF Debts, Owes, WritesBounded
<1>15. Apart'
  <2>1. \A ty \in Types : Searchers(ty)' \subseteq Searchers(ty)
    BY <1>5, <1>7 DEF Searchers, Owes
  <2> QED  BY <1>5, <1>8, <2>1 DEF Apart
<1>16. Fresh' /\ ClearIsEmpty'  BY <1>5, <1>8 DEF Fresh, ClearIsEmpty
<1>17. Emptied'  BY <1>5, <1>8, StillEmptied DEF Emptied
<1>18. ASSUME NEW ty \in Types
       PROVE  /\ Cardinality(EntriesOf'[ty]) <= m_size'[ty] + Cardinality(Uncounted'[ty])
              /\ m_size'[ty] + Cardinality(Claims'[ty]) <= searches
  <2>1. CASE ty = ty0
    <3>1. /\ Cardinality(EntriesOf[ty0]) <= m_size[ty0] + Cardinality(Uncounted[ty0])
          /\ m_size[ty0] + Cardinality(Claims[ty0]) <= searches
          /\ m_size[ty0] \in Nat /\ Cardinality(Uncounted[ty0]) \in Nat
          /\ Cardinality(Claims[ty0]) \in Nat /\ Cardinality(EntriesOf[ty0]) \in Nat
          /\ searches \in Nat /\ EntriesOf'[ty0] = EntriesOf[ty0]
      BY <1>1, <1>4, <1>9
    <3> QED  BY <1>10, <1>11, <2>1, <3>1
  <2>2. CASE ty # ty0
    <3>1. Claims'[ty] = Claims[ty] /\ Uncounted'[ty] = Uncounted[ty]
      BY <1>4, <1>5, <1>7, <2>2 DEF Claims, Uncounted
    <3> QED  BY <1>9, <1>12, <2>2, <3>1
  <2> QED  BY <2>1, <2>2
<1>19. Counted'  BY <1>5, <1>18 DEF Counted
<1> QED  BY <1>5, <1>13, <1>14, <1>15, <1>16, <1>17, <1>19

-----------------------------------------------------------------------------
(* A write                                                                  *)

\* The step of a write under way to another place of its own: no search of an unmixed type is
\* under way, so that nothing is owed to one and nothing comes to stay.
LEMMA WriterStep ==
  ASSUME CacheInv, NEW th \in Threads, NEW place \in Writing, pc[th] \in Writing,
         Goto(th, place), UNCHANGED <<index, diff, key, result>>,
         mixed' \subseteq mixed, \A ty \in mixed \ mixed' : Searchers(ty) = {},
         Staying' \subseteq Staying, \A k \in Staying' : entries'[k] = entries[k],
         m_clear' => Staying' = {}
  PROVE  /\ pc' \in [Threads -> Places] /\ pc'[th] = place
         /\ \A other \in Threads : other # th => pc'[other] = pc[other]
         /\ \A o \in Threads : pc'[o] \in Searching => pc[o] \in Searching
         /\ \A ty \in Types \ mixed' : Searchers(ty) = {}
         /\ Debts' /\ WritesBounded' /\ Apart' /\ Fresh' /\ ClearIsEmpty'
<1> USE DEF CacheInv
<1>1. /\ pc' \in [Threads -> Places] /\ pc'[th] = place
      /\ \A other \in Threads : other # th => pc'[other] = pc[other]
  BY PlacesApart, Others
<1>2. \A o \in Threads : pc'[o] \in Searching => pc[o] \in Searching
  BY <1>1, PlacesApart
<1>3. Writers' = Writers /\ th \in Writers  BY <1>1 DEF Writers
<1>4. \A ty \in Types \ mixed' : Searchers(ty) = {}  BY <1>3 DEF Apart
<1>5. Debts'
  <2>1. ~Owes(th)  BY PlacesApart DEF Debts
  <2> QED  BY <1>1, <2>1 DEF Debts, Owes
<1>6. WritesBounded'  BY <1>3 DEF WritesBounded
<1>7. Apart'
  <2>1. \A ty \in Types : Searchers(ty)' \subseteq Searchers(ty)
    BY <1>2 DEF Searchers, Owes
  <2> QED  BY <1>4, <2>1 DEF Apart
<1>8. ASSUME NEW o \in Threads, pc'[o] \in Searching
      PROVE  TypeOf[key'[o]] \in mixed'
  <2>1. o \in Searchers(TypeOf[key[o]])  BY <1>2, <1>8 DEF Searchers
  <2>2. TypeOf[key[o]] \in Types  BY TypesOfKeys DEF TypeOK
  <2> QED  BY <1>4, <2>1, <2>2
<1>9. Fresh'  BY <1>8, PlacesApart DEF Fresh
<1>10. ClearIsEmpty'  BY <1>8, PlacesApart DEF ClearIsEmpty
<1> QED  BY <1>1, <1>2, <1>4, <1>5, <1>6, <1>7, <1>9, <1>10

\* A write begins, and mixes the types of which a search is under way.
LEMMA WriteNext ==
  ASSUME CacheInv, NEW th \in Threads, ~Owes(th), Write(th)
  PROVE  CacheInv'
<1> USE DEF CacheInv
<1>1. Goto(th, "check") /\ "check" \in Places /\ "check" \in Writing /\ pc[th] = "idle"
  BY PlacesApart DEF Write
<1>2. /\ pc' \in [Threads -> Places] /\ pc'[th] = "check"
      /\ \A other \in Threads : other # th => pc'[other] = pc[other]
  BY <1>1, Others
<1>3. /\ UNCHANGED <<index, entries, m_size, diff, m_clear, key, result, typeAt, toDrop, searches>>
      /\ mixed' = mixed \union {ty \in Types : Searchers(ty) # {}}
      /\ index + Cardinality(Writers) < MaxWrites
  BY DEF Write, mapVars
<1>4. TypeOK'  BY <1>2, <1>3 DEF TypeOK, SizesOK
<1>5. Debts'
  <2>1. \A o \in Threads : Owes(o) => o # th /\ pc[o] = "idle"  BY DEF Debts
  <2> QED  BY <1>2, <1>3, <2>1 DEF Debts, Owes
<1>6. WritesBounded'
  <2>1. Writers' = Writers \union {th} /\ th \notin Writers
    BY <1>1, <1>2, PlacesApart DEF Writers
  <2>2. IsFiniteSet(Writers)  BY ThreadsAssumption, FS_Subset DEF Writers
  <2>3. Cardinality(Writers) \in Nat /\ Cardinality(Writers') = Cardinality(Writers) + 1
    BY <2>1, <2>2, FS_AddElement, FS_CardinalityType
  <2>4. index \in Nat /\ MaxWrites \in Nat  BY BoundsAssumption DEF TypeOK
  <2>5. \A a, b, c \in Nat : a + b < c => a + (b + 1) <= c  OBVIOUS
  <2>6. index + (Cardinality(Writers) + 1) <= MaxWrites  BY <1>3, <2>3, <2>4, <2>5
  <2> QED  BY <1>3, <2>3, <2>6 DEF WritesBounded
<1>7. Apart'
  <2>1. \A ty \in Types : Searchers(ty)' \subseteq Searchers(ty)
    BY <1>1, <1>2, <1>3, PlacesApart DEF Searchers, Owes
  <2> QED  BY <1>3, <2>1 DEF Apart
<1>8. Staying' \subseteq Staying
  BY <1>1, <1>2, <1>3 DEF Staying, Doomed
<1>9. Fresh'  BY <1>2, <1>3, <1>8 DEF Fresh
<1>10. ClearIsEmpty'  BY <1>2, <1>3, <1>8 DEF ClearIsEmpty
<1>11. Emptied'
  <2>1. \A o \in Threads : o # th => EmptiedBy(o)'  BY <1>2, <1>3, <1>8, StillEmptied
  <2>2. EmptiedBy(th)'  BY <1>2 DEF EmptiedBy
  <2> QED  BY <2>1, <2>2 DEF Emptied
<1>12. \A o \in Threads : pc'[o] \in Searching => pc[o] \in Searching
  BY <1>2, PlacesApart
<1>13. IsFiniteSet(DOMAIN entries') /\ Counted'
  BY <1>3, <1>8, <1>12, StillCounted
<1> QED  BY <1>4, <1>5, <1>6, <1>7, <1>9, <1>10, <1>11, <1>13

\* invalidate returns early when no entry stays.
LEMMA CheckClearNext ==
  ASSUME CacheInv, NEW th \in Threads, CheckClear(th)
  PROVE  CacheInv'
<1> USE DEF CacheInv
<1>1. PICK place \in {"store", "type"} :
        Goto(th, place) /\ (place = "store" => m_clear)
  BY DEF CheckClear
<1>2. pc[th] = "check" /\ pc[th] \in Writing /\ place \in Writing
  BY PlacesApart DEF CheckClear
<1>3. /\ UNCHANGED <<index, entries, m_size, diff, m_clear, key, result, toDrop, searches, mixed>>
      /\ typeAt' = [typeAt EXCEPT ![th] = 1]
  BY DEF CheckClear, mapVars
<1>4. Staying' = Staying
  <2>1. \A o \in Threads : pc'[o] = "drop" <=> pc[o] = "drop"
    BY <1>1, <1>2, PlacesApart, Others
  <2> QED  BY <1>3, <2>1, SameStaying
<1>5. m_clear => Staying = {}  BY DEF ClearIsEmpty
<1>6. /\ pc' \in [Threads -> Places] /\ pc'[th] = place
      /\ \A other \in Threads : other # th => pc'[other] = pc[other]
      /\ \A o \in Threads : pc'[o] \in Searching => pc[o] \in Searching
      /\ Debts' /\ WritesBounded' /\ Apart' /\ Fresh' /\ ClearIsEmpty'
  BY <1>1, <1>2, <1>3, <1>4, <1>5, WriterStep
<1>7. TypeOK' /\ typeAt'[th] = 1
      /\ \A other \in Threads : other # th => typeAt'[other] = typeAt[other]
  <2>1. 1 \in 1 .. Len(AllTypes) + 1  BY TypesOfKeys
  <2>2. typeAt' \in [Threads -> 1 .. Len(AllTypes) + 1] /\ typeAt'[th] = 1
        /\ \A other \in Threads : other # th => typeAt'[other] = typeAt[other]
    BY <1>3, <2>1 DEF TypeOK
  <2> QED  BY <1>3, <1>6, <2>2 DEF TypeOK, SizesOK
<1>8. Emptied'
  <2>1. \A o \in Threads : o # th => EmptiedBy(o)'  BY <1>4, <1>6, <1>7, StillEmptied
  <2>2. EmptiedBy(th)'  BY <1>1, <1>4, <1>5, <1>6, <1>7 DEF EmptiedBy
  <2> QED  BY <2>1, <2>2 DEF Emptied
<1>9. IsFiniteSet(DOMAIN entries') /\ Counted'
  BY <1>3, <1>4, <1>6, StillCounted
<1> QED  BY <1>6, <1>7, <1>8, <1>9

\* A type whose m_size is 0 has no entry that stays, for nothing is owed to it.
LEMMA DropBeginNext ==
  ASSUME CacheInv, NEW th \in Threads, DropBegin(th)
  PROVE  CacheInv'
<1> DEFINE at == typeAt[th]
           ty == AllTypes[at]
<1> USE DEF CacheInv
<1>1. /\ pc[th] = "type" /\ pc[th] \in Writing /\ {"drop", "type"} \subseteq Writing
      /\ at \in 1 .. Len(AllTypes) /\ ty \in Types /\ th \in Writers
  BY TypesOfKeys, PlacesApart DEF DropBegin, TypeOK, Writers
<1>2. UNCHANGED <<index, entries, m_size, diff, m_clear, key, result, searches>>
  BY DEF DropBegin, mapVars
<1>3. m_clear => Staying = {}  BY DEF ClearIsEmpty
<1>4. CASE m_size[ty] = 0
  <2>1. typeAt' = [typeAt EXCEPT ![th] = at + 1] /\ UNCHANGED <<pc, toDrop, mixed>>
    BY <1>4 DEF DropBegin
  <2>2. Goto(th, "type")  BY <1>1, <2>1 DEF TypeOK, Goto
  <2>3. Staying' = Staying  BY <1>2, <2>1 DEF Staying, Doomed
  <2>4. /\ pc' \in [Threads -> Places] /\ pc'[th] = "type"
        /\ \A other \in Threads : other # th => pc'[other] = pc[other]
        /\ \A o \in Threads : pc'[o] \in Searching => pc[o] \in Searching
        /\ \A u \in Types \ mixed' : Searchers(u) = {}
        /\ Debts' /\ WritesBounded' /\ Apart' /\ Fresh' /\ ClearIsEmpty'
    BY <1>1, <1>2, <1>3, <2>1, <2>2, <2>3, WriterStep
  <2>5. TypeOK' /\ typeAt'[th] = at + 1
        /\ \A other \in Threads : other # th => typeAt'[other] = typeAt[other]
    <3>1. at + 1 \in 1 .. Len(AllTypes) + 1  BY <1>1, TypesOfKeys
    <3>2. typeAt' \in [Threads -> 1 .. Len(AllTypes) + 1] /\ typeAt'[th] = at + 1
          /\ \A other \in Threads : other # th => typeAt'[other] = typeAt[other]
      BY <2>1, <3>1 DEF TypeOK
    <3> QED  BY <1>2, <2>1, <3>2 DEF TypeOK, SizesOK
  <2>6. KeysOf(ty) \intersect Staying = {}
    <3>1. CASE ty \in mixed  BY <3>1 DEF KeysOf, Staying
    <3>2. CASE ty \notin mixed
      <4>1. Uncounted[ty] = {}
        <5>1. Searchers(ty) = {}  BY <1>1, <2>1, <2>4, <3>2
        <5>2. ASSUME NEW o \in Threads, diff[o] = <<ty, 1>> PROVE FALSE
          <6>1. Owes(o)  BY <5>2 DEF Owes
          <6>2. TypeOf[key[o]] = ty  BY <5>2, <6>1 DEF Debts
          <6> QED  BY <5>1, <6>1, <6>2 DEF Searchers
        <5> QED  BY <1>1, <5>2 DEF Uncounted
      <4>2. Cardinality(Uncounted[ty]) = 0  BY <4>1, FS_EmptySet
      <4>3. Cardinality(EntriesOf[ty]) <= 0  BY <1>1, <1>4, <4>2 DEF Counted
      <4>4. IsFiniteSet(EntriesOf[ty]) /\ Cardinality(EntriesOf[ty]) \in Nat  BY <1>1, SetsFinite
      <4>5. EntriesOf[ty] = {}  BY <4>3, <4>4, FS_EmptySet
      <4> QED  BY <1>1, <4>5 DEF EntriesOf
    <3> QED  BY <3>1, <3>2
  <2>7. Emptied'
    <3>1. \A o \in Threads : o # th => EmptiedBy(o)'  BY <2>3, <2>4, <2>5, StillEmptied
    <3>2. ASSUME NEW n \in 1 .. Len(AllTypes), n < at + 1
          PROVE  KeysOf(AllTypes[n]) \intersect Staying = {}
      <4>1. n < at \/ n = at  BY <1>1, <3>2
      <4> QED  BY <1>1, <2>6, <4>1 DEF Emptied, EmptiedBy
    <3>3. EmptiedBy(th)'  BY <2>3, <2>4, <2>5, <3>2 DEF EmptiedBy, KeysOf
    <3> QED  BY <3>1, <3>3 DEF Emptied
  <2>8. IsFiniteSet(DOMAIN entries') /\ Counted'
    BY <1>2, <2>3, <2>4, StillCounted
  <2> QED  BY <2>4, <2>5, <2>7, <2>8
<1>5. CASE m_size[ty] # 0
  <2>1. /\ toDrop' = [toDrop EXCEPT ![th] = KeysOf(ty)] /\ Goto(th, "drop") /\ UNCHANGED typeAt
        /\ mixed' = IF Searchers(ty) = {} THEN mixed \ {ty} ELSE mixed
    BY <1>5 DEF DropBegin, BucketsOf
  <2>2. /\ toDrop' \in [Threads -> SUBSET Keys] /\ toDrop'[th] = KeysOf(ty)
        /\ \A other \in Threads : other # th => toDrop'[other] = toDrop[other]
    BY <2>1 DEF TypeOK, KeysOf
  <2>3. /\ pc' \in [Threads -> Places] /\ pc'[th] = "drop"
        /\ \A other \in Threads : other # th => pc'[other] = pc[other]
    BY <1>1, <2>1, PlacesApart, Others
  <2>4. Staying' \subseteq Staying /\ KeysOf(ty) \intersect Staying' = {}
    <3>1. \A k \in KeysOf(ty) : Doomed(k)'  BY <2>2, <2>3 DEF Doomed
    <3>2. \A k : Doomed(k) => Doomed(k)'
      <4>1. \A o \in Threads : pc[o] = "drop" => o # th  BY <1>1
      <4> QED  BY <2>2, <2>3, <4>1 DEF Doomed
    <3>3. ASSUME NEW k \in Staying' PROVE k \in Staying
      <4>1. /\ k \in DOMAIN entries /\ k \in Keys /\ TypeOf[k] \notin mixed'
            /\ ~Doomed(k)' /\ ~Doomed(k) /\ k \notin KeysOf(ty)
        BY <1>2, <3>1, <3>2 DEF Staying, TypeOK
      <4>2. TypeOf[k] # ty  BY <4>1 DEF KeysOf
      <4> QED  BY <2>1, <4>1, <4>2 DEF Staying
    <3>4. KeysOf(ty) \intersect Staying' = {}  BY <3>1 DEF Staying
    <3> QED  BY <3>3, <3>4
  <2>5. /\ mixed' \subseteq mixed /\ \A u \in mixed \ mixed' : Searchers(u) = {}
    BY <2>1
  <2>6. /\ \A o \in Threads : pc'[o] \in Searching => pc[o] \in Searching
        /\ Debts' /\ WritesBounded' /\ Apart' /\ Fresh' /\ ClearIsEmpty'
    <3>1. \A k \in Staying' : entries'[k] = entries[k]  BY <1>2
    <3>2. m_clear' => Staying' = {}  BY <1>2, <1>3, <2>4
    <3> QED  BY <1>1, <1>2, <2>1, <2>4, <2>5, <3>1, <3>2, WriterStep
  <2>7. TypeOK'  BY <1>2, <2>1, <2>2, <2>3, <2>5 DEF TypeOK, SizesOK
  <2>8. Emptied'
    <3>1. \A o \in Threads : o # th => EmptiedBy(o)'  BY <2>1, <2>3, <2>4, StillEmptied
    <3>2. \A n \in 1 .. Len(AllTypes) : n < at => KeysOf(AllTypes[n]) \intersect Staying' = {}
      BY <1>1, <2>4 DEF Emptied, EmptiedBy
    <3>3. EmptiedBy(th)'  BY <1>1, <2>1, <2>3, <2>4, <3>2 DEF EmptiedBy, KeysOf
    <3> QED  BY <3>1, <3>3 DEF Emptied
  <2>9. IsFiniteSet(DOMAIN entries') /\ Counted'
    BY <1>2, <2>4, <2>6, StillCounted
  <2> QED  BY <2>6, <2>7, <2>8, <2>9
<1> QED  BY <1>4, <1>5

\* One bucket is emptied, of which no entry was to stay.
LEMMA DropBucketNext ==
  ASSUME CacheInv, NEW th \in Threads, NEW k \in Keys, DropBucket(th, k)
  PROVE  CacheInv'
<1> USE DEF CacheInv
<1>1. /\ pc[th] = "drop" /\ pc[th] \in Writing /\ "drop" \in Writing /\ k \in toDrop[th]
      /\ UNCHANGED <<index, m_size, diff, m_clear, pc, key, result, typeAt, searches, mixed>>
      /\ toDrop' = [toDrop EXCEPT ![th] = @ \ {k}]
  BY PlacesApart DEF DropBucket, mapVars
<1>2. /\ DOMAIN entries' = DOMAIN entries \ {k}
      /\ \A x \in DOMAIN entries' : entries'[x] = entries[x]
  BY DEF DropBucket, Erased, Restrict
<1>3. Goto(th, "drop")  BY <1>1 DEF TypeOK, Goto
<1>4. /\ toDrop' \in [Threads -> SUBSET Keys]
      /\ \A o \in Threads : \A x : x # k => (x \in toDrop'[o] <=> x \in toDrop[o])
  BY <1>1 DEF TypeOK
<1>5. Staying' = Staying
  <2>1. \A x : x # k => (Doomed(x)' <=> Doomed(x))  BY <1>1, <1>4 DEF Doomed
  <2>2. k \notin Staying /\ k \notin Staying'  BY <1>1, <1>2 DEF Staying, Doomed
  <2> QED  BY <1>1, <1>2, <2>1, <2>2 DEF Staying
<1>6. Staying' \subseteq DOMAIN entries'  BY DEF Staying
<1>7. /\ pc' \in [Threads -> Places]
      /\ \A o \in Threads : pc'[o] \in Searching => pc[o] \in Searching
      /\ Debts' /\ WritesBounded' /\ Apart' /\ Fresh' /\ ClearIsEmpty'
  <2>1. \A x \in Staying' : entries'[x] = entries[x]  BY <1>2, <1>6
  <2>2. m_clear' => Staying' = {}  BY <1>1, <1>5 DEF ClearIsEmpty
  <2> QED  BY <1>1, <1>3, <1>5, <2>1, <2>2, WriterStep
<1>8. TypeOK'  BY <1>1, <1>2, <1>4, <1>7 DEF TypeOK, SizesOK
<1>9. Emptied'  BY <1>1, <1>5, StillEmptied DEF Emptied
<1>10. IsFiniteSet(DOMAIN entries') /\ Counted'
  BY <1>1, <1>2, <1>5, StillCounted
<1> QED  BY <1>7, <1>8, <1>9, <1>10

\* m_size is set to 0 when no entry of the type stays.
LEMMA DropEndNext ==
  ASSUME CacheInv, NEW th \in Threads, DropEnd(th)
  PROVE  CacheInv'
<1> DEFINE at == typeAt[th]
           ty0 == AllTypes[at]
<1> USE DEF CacheInv
<1>1. /\ pc[th] = "drop" /\ pc[th] \in Writing /\ "type" \in Writing /\ toDrop[th] = {}
      /\ UNCHANGED <<index, entries, diff, m_clear, key, result, toDrop, searches, mixed>>
      /\ m_size' = [m_size EXCEPT ![ty0] = 0] /\ typeAt' = [typeAt EXCEPT ![th] = at + 1]
      /\ Goto(th, "type")
  BY PlacesApart DEF DropEnd, SizeAfterDrop
<1>2. Staying' = Staying
  <2>1. \A o \in Threads : o # th => pc'[o] = pc[o]  BY <1>1, PlacesApart, Others
  <2>2. pc'[th] = "type"  BY <1>1, PlacesApart, Others
  <2>3. \A k : Doomed(k)' <=> Doomed(k)  BY <1>1, <2>1, <2>2 DEF Doomed
  <2> QED  BY <1>1, <2>3 DEF Staying
<1>3. /\ pc' \in [Threads -> Places] /\ pc'[th] = "type"
      /\ \A other \in Threads : other # th => pc'[other] = pc[other]
      /\ \A o \in Threads : pc'[o] \in Searching => pc[o] \in Searching
      /\ Debts' /\ WritesBounded' /\ Apart' /\ Fresh' /\ ClearIsEmpty'
  <2>1. m_clear' => Staying' = {}  BY <1>1, <1>2 DEF ClearIsEmpty
  <2> QED  BY <1>1, <1>2, <2>1, WriterStep
<1>4. at \in 1 .. Len(AllTypes) /\ ty0 \in Types /\ KeysOf(ty0) \intersect Staying = {}
  <2>1. at \in 1 .. Len(AllTypes)
    <3>1. at \in 1 .. Len(AllTypes) + 1 /\ at <= Len(AllTypes)
      BY <1>1 DEF Emptied, EmptiedBy, TypeOK
    <3> QED  BY <3>1, TypesOfKeys
  <2> QED  BY <1>1, <2>1, TypesOfKeys DEF Emptied, EmptiedBy
<1>5. /\ m_size' \in [Types -> 0 .. 2 ^ SizeWidth - 1] /\ m_size'[ty0] = 0
      /\ \A ty \in Types : ty # ty0 => m_size'[ty] = m_size[ty]
  <2> DEFINE M == 2 ^ SizeWidth
  <2>1. M \in Nat \ {0} /\ m_size \in [Types -> 0 .. M - 1]
    BY SizeWidthAssumption DEF TypeOK, SizesOK
  <2> HIDE DEF M
  <2>2. 0 \in 0 .. M - 1  BY <2>1
  <2>3. /\ m_size' \in [Types -> 0 .. M - 1] /\ m_size'[ty0] = 0
        /\ \A ty \in Types : ty # ty0 => m_size'[ty] = m_size[ty]
    BY <1>1, <1>4, <2>1, <2>2
  <2> QED  BY <2>3 DEF M
<1>6. TypeOK' /\ typeAt'[th] = at + 1
      /\ \A other \in Threads : other # th => typeAt'[other] = typeAt[other]
  <2>1. at + 1 \in 1 .. Len(AllTypes) + 1  BY <1>4, TypesOfKeys
  <2>2. typeAt' \in [Threads -> 1 .. Len(AllTypes) + 1] /\ typeAt'[th] = at + 1
        /\ \A other \in Threads : other # th => typeAt'[other] = typeAt[other]
    BY <1>1, <2>1 DEF TypeOK
  <2> QED  BY <1>1, <1>3, <1>5, <2>2 DEF TypeOK, SizesOK
<1>7. Emptied'
  <2>1. \A o \in Threads : o # th => EmptiedBy(o)'  BY <1>2, <1>3, <1>6, StillEmptied
  <2>2. ASSUME NEW n \in 1 .. Len(AllTypes), n < at + 1
        PROVE  KeysOf(AllTypes[n]) \intersect Staying = {}
    <3>1. n < at \/ n = at  BY <1>4, <2>2
    <3> QED  BY <1>1, <3>1 DEF Emptied, EmptiedBy
  <2>3. EmptiedBy(th)'  BY <1>2, <1>3, <1>6, <2>2 DEF EmptiedBy, KeysOf
  <2> QED  BY <2>1, <2>3 DEF Emptied
<1>8. ASSUME NEW ty \in Types
      PROVE  /\ Cardinality(EntriesOf'[ty]) <= m_size'[ty] + Cardinality(Uncounted'[ty])
             /\ m_size'[ty] + Cardinality(Claims'[ty]) <= searches
  <2>1. EntriesOf'[ty] = EntriesOf[ty] /\ Uncounted'[ty] = Uncounted[ty]
    BY <1>1, <1>2 DEF EntriesOf, Uncounted
  <2>2. Claims'[ty] \subseteq Claims[ty]  BY <1>1, <1>3 DEF Claims
  <2>3. /\ IsFiniteSet(Claims[ty]) /\ Cardinality(Claims[ty]) \in Nat
        /\ Cardinality(Uncounted[ty]) \in Nat
    BY SetsFinite
  <2>4. /\ Cardinality(Claims'[ty]) \in Nat
        /\ Cardinality(Claims'[ty]) <= Cardinality(Claims[ty])
    BY <2>2, <2>3, FS_Subset, FS_CardinalityType
  <2>5. /\ Cardinality(EntriesOf[ty]) <= m_size[ty] + Cardinality(Uncounted[ty])
        /\ m_size[ty] + Cardinality(Claims[ty]) <= searches
    BY DEF Counted
  <2>6. m_size[ty] \in Nat /\ searches \in Nat  BY SizesNat
  <2>7. CASE ty = ty0
    <3>1. EntriesOf[ty] = {}  BY <1>4, <2>7 DEF EntriesOf
    <3>2. Cardinality(EntriesOf[ty]) = 0  BY <3>1, FS_EmptySet
    <3> QED  BY <1>5, <2>1, <2>3, <2>4, <2>5, <2>6, <2>7, <3>2
  <2>8. CASE ty # ty0  BY <1>5, <2>1, <2>3, <2>4, <2>5, <2>6, <2>8
  <2> QED  BY <2>7, <2>8
<1>9. Counted'  BY <1>1, <1>8 DEF Counted
<1> QED  BY <1>1, <1>3, <1>6, <1>7, <1>9

\* After the last type no entry stays, and the cache counts as clear.
LEMMA ClearedNext ==
  ASSUME CacheInv, NEW th \in Threads, Cleared(th)
  PROVE  CacheInv'
<1> USE DEF CacheInv
<1>1. /\ pc[th] = "type" /\ pc[th] \in Writing /\ "store" \in Writing
      /\ typeAt[th] > Len(AllTypes) /\ m_clear' = TRUE /\ Goto(th, "store")
      /\ UNCHANGED <<index, entries, m_size, diff, key, result, typeAt, toDrop, searches, mixed>>
  BY PlacesApart DEF Cleared, mapVars
<1>2. Staying = {}
  <2> SUFFICES ASSUME NEW k \in Staying PROVE FALSE  OBVIOUS
  <2>1. k \in Keys  BY DEF TypeOK, Staying
  <2>2. PICK n \in 1 .. Len(AllTypes) : TypeOf[k] = AllTypes[n]  BY <2>1, TypesOfKeys
  <2>3. n < typeAt[th]
    <3>1. typeAt[th] \in Int /\ Len(AllTypes) \in Int  BY TypesOfKeys DEF TypeOK
    <3> QED  BY <1>1, <3>1
  <2>4. KeysOf(AllTypes[n]) \intersect Staying = {}
    BY <1>1, <2>3 DEF Emptied, EmptiedBy
  <2> QED  BY <2>1, <2>2, <2>4 DEF KeysOf
<1>3. Staying' = Staying
  <2>1. \A o \in Threads : pc'[o] = "drop" <=> pc[o] = "drop"
    BY <1>1, PlacesApart, Others
  <2> QED  BY <1>1, <2>1, SameStaying
<1>4. /\ pc' \in [Threads -> Places] /\ pc'[th] = "store"
      /\ \A other \in Threads : other # th => pc'[other] = pc[other]
      /\ \A o \in Threads : pc'[o] \in Searching => pc[o] \in Searching
      /\ Debts' /\ WritesBounded' /\ Apart' /\ Fresh' /\ ClearIsEmpty'
  BY <1>1, <1>2, <1>3, WriterStep
<1>5. TypeOK'  BY <1>1, <1>4 DEF TypeOK, SizesOK
<1>6. Emptied'
  <2>1. \A o \in Threads : o # th => EmptiedBy(o)'  BY <1>1, <1>3, <1>4, StillEmptied
  <2>2. EmptiedBy(th)'  BY <1>2, <1>3, <1>4 DEF EmptiedBy
  <2> QED  BY <2>1, <2>2 DEF Emptied
<1>7. IsFiniteSet(DOMAIN entries') /\ Counted'
  BY <1>1, <1>3, <1>4, StillCounted
<1> QED  BY <1>4, <1>5, <1>6, <1>7

\* The index changes when no entry stays and no search of an unmixed type is about to cache.
LEMMA StoreNext ==
  ASSUME CacheInv, NEW th \in Threads, Store(th)
  PROVE  CacheInv'
<1> USE DEF CacheInv
<1>1. /\ pc[th] = "store" /\ pc[th] \in Writing /\ "idle" \in Places /\ "idle" \notin Writing
      /\ index' = index + 1 /\ Goto(th, "idle")
      /\ UNCHANGED <<entries, m_size, diff, m_clear, key, result, typeAt, toDrop, searches, mixed>>
  BY PlacesApart DEF Store, mapVars
<1>2. /\ pc' \in [Threads -> Places] /\ pc'[th] = "idle"
      /\ \A other \in Threads : other # th => pc'[other] = pc[other]
  BY <1>1, Others
<1>3. \A o \in Threads : /\ pc'[o] = "drop" <=> pc[o] = "drop"
                         /\ pc'[o] \in Searching => pc[o] \in Searching
  BY <1>1, <1>2, PlacesApart
<1>4. Staying' = Staying /\ Staying = {}
  BY <1>1, <1>3, SameStaying DEF Emptied, EmptiedBy
<1>5. /\ Cardinality(Writers') + 1 = Cardinality(Writers) /\ Cardinality(Writers') \in Nat
      /\ Cardinality(Writers) \in Nat
  <2>1. Writers' = Writers \ {th} /\ th \in Writers  BY <1>1, <1>2 DEF Writers
  <2>2. IsFiniteSet(Writers)  BY ThreadsAssumption, FS_Subset DEF Writers
  <2>3. IsFiniteSet(Writers')  BY <2>1, <2>2, FS_Subset
  <2>4. Cardinality(Writers \ {th}) = Cardinality(Writers) - 1  BY <2>1, <2>2, FS_RemoveElement
  <2>5. Cardinality(Writers) \in Nat /\ Cardinality(Writers') \in Nat
    BY <2>2, <2>3, FS_CardinalityType
  <2> QED  BY <2>1, <2>4, <2>5
<1>6. index \in Nat /\ index + 1 \in 0 .. MaxWrites /\ WritesBounded'
  <2>1. index \in Nat /\ MaxWrites \in Nat  BY BoundsAssumption DEF TypeOK
  <2>2. index + Cardinality(Writers) <= MaxWrites  BY DEF WritesBounded
  <2>3. index + 1 + Cardinality(Writers') <= MaxWrites  BY <1>5, <2>1, <2>2
  <2> QED  BY <1>1, <1>5, <2>1, <2>3 DEF WritesBounded
<1>7. TypeOK'
  <2>1. 0 .. index \subseteq 0 .. index + 1  BY <1>6
  <2>2. \A k \in DOMAIN entries : entries[k] \in 0 .. index + 1  BY <2>1 DEF TypeOK
  <2>3. result \in [Threads -> 0 .. index + 1]  BY <2>1 DEF TypeOK
  <2> QED  BY <1>1, <1>2, <1>6, <2>2, <2>3 DEF TypeOK, SizesOK
<1>8. Debts'
  <2>1. ~Owes(th)  BY <1>1, PlacesApart DEF Debts
  <2> QED  BY <1>1, <1>2, <2>1 DEF Debts, Owes
<1>9. \A ty \in Types \ mixed : Searchers(ty) = {}
  BY <1>1 DEF Apart, Writers
<1>10. Apart'
  <2>1. \A ty \in Types : Searchers(ty)' \subseteq Searchers(ty)
    BY <1>1, <1>3 DEF Searchers, Owes
  <2> QED  BY <1>1, <1>9, <2>1 DEF Apart
<1>11. ASSUME NEW o \in Threads, pc'[o] \in Searching
       PROVE  TypeOf[key'[o]] \in mixed'
  <2>1. o \in Searchers(TypeOf[key[o]])  BY <1>3, <1>11 DEF Searchers
  <2>2. TypeOf[key[o]] \in Types  BY TypesOfKeys DEF TypeOK
  <2> QED  BY <1>1, <1>9, <2>1, <2>2
<1>12. Fresh' /\ ClearIsEmpty'
  BY <1>4, <1>11, PlacesApart DEF Fresh, ClearIsEmpty
<1>13. Emptied'
  <2>1. \A o \in Threads : o # th => EmptiedBy(o)'  BY <1>1, <1>2, <1>4, StillEmptied
  <2>2. EmptiedBy(th)'  BY <1>2 DEF EmptiedBy
  <2> QED  BY <2>1, <2>2 DEF Emptied
<1>14. IsFiniteSet(DOMAIN entries') /\ Counted'
  BY <1>1, <1>3, <1>4, StillCounted
<1> QED  BY <1>6, <1>7, <1>8, <1>10, <1>12, <1>13, <1>14

-----------------------------------------------------------------------------
(* The theorems                                                             *)

LEMMA CacheInitInv ==
  ASSUME Init PROVE CacheInv
<1>1. TypeOK
  <2> DEFINE M == 2 ^ SizeWidth
  <2>1. M \in Nat \ {0}  BY SizeWidthAssumption
  <2> HIDE DEF M
  <2>2. 0 \in 0 .. M - 1  BY <2>1
  <2>3. SizesOK(Types)  BY <2>2 DEF Init, SizesInit, SizesOK, M
  <2> QED  BY <2>3, BoundsAssumption, TypesOfKeys DEF Init, TypeOK, Places
<1>2. DOMAIN entries = {} /\ IsFiniteSet(DOMAIN entries)  BY FS_EmptySet DEF Init
<1>3. Writers = {} /\ Staying = {}  BY <1>2, PlacesApart DEF Init, Writers, Staying
<1>4. Debts /\ Apart /\ Fresh /\ ClearIsEmpty /\ Emptied
  BY <1>3 DEF Init, SizesInit, Owes, Debts, Apart, Fresh, ClearIsEmpty, Emptied, EmptiedBy
<1>5. WritesBounded
  <2>1. Cardinality(Writers) = 0  BY <1>3, FS_EmptySet
  <2>2. index = 0  BY DEF Init
  <2> QED  BY <2>1, <2>2, BoundsAssumption DEF WritesBounded
<1>6. Counted
  <2> SUFFICES ASSUME NEW ty \in Types
               PROVE  /\ Cardinality(EntriesOf[ty]) <= m_size[ty] + Cardinality(Uncounted[ty])
                      /\ m_size[ty] + Cardinality(Claims[ty]) <= searches
    BY DEF Counted
  <2>1. EntriesOf[ty] = {} /\ Uncounted[ty] = {} /\ Claims[ty] = {}
    BY <1>3, PlacesApart DEF EntriesOf, Uncounted, Claims, Init, SizesInit
  <2>2. m_size[ty] = 0 /\ searches = 0  BY DEF Init, SizesInit
  <2> QED  BY <2>1, <2>2, FS_EmptySet
<1> QED  BY <1>1, <1>2, <1>4, <1>5, <1>6 DEF CacheInv

LEMMA CacheNextInv ==
  ASSUME CacheInv, SearchesFit, [Next]_vars
  PROVE  CacheInv'
<1>1. CASE UNCHANGED vars
  <2>1. UNCHANGED <<index, entries, m_size, diff, m_clear, pc, key, result, typeAt, toDrop,
                    searches, mixed>>
    BY <1>1 DEF vars, mapVars, cacheVars
  <2>2. UNCHANGED <<Staying, Writers>> /\ \A ty \in Types : Searchers(ty)' = Searchers(ty)
    BY <2>1 DEF Staying, Doomed, Writers, Searchers, Owes
  <2>3. UNCHANGED <<EntriesOf, Uncounted, Claims>>
    BY <2>1, <2>2 DEF EntriesOf, Uncounted, Claims
  <2>4. TypeOK' /\ IsFiniteSet(DOMAIN entries') /\ Debts' /\ WritesBounded' /\ Apart'
    BY <2>1, <2>2 DEF CacheInv, TypeOK, SizesOK, Debts, Owes, WritesBounded, Apart
  <2>5. Fresh' /\ ClearIsEmpty' /\ Emptied' /\ Counted'
    BY <2>1, <2>2, <2>3 DEF CacheInv, Fresh, ClearIsEmpty, Emptied, EmptiedBy, Counted
  <2> QED  BY <2>4, <2>5 DEF CacheInv
<1>2. CASE Next
  <2>1. PICK th \in Threads :
          \/ SizeStep(th)
          \/ /\ ~Owes(th)
             /\ \/ \E k \in Keys : SearchCache(th, k) \/ DropBucket(th, k)
                \/ ContextResult(th) \/ QueryResult(th)
                \/ Unclear(th) \/ Evict(th) \/ InsertEntry(th)
                \/ Write(th) \/ CheckClear(th) \/ DropBegin(th) \/ DropEnd(th) \/ Cleared(th)
                \/ Store(th)
    BY <1>2 DEF Next
  <2>2. CASE SizeStep(th)  BY <2>2, SizeStepNext
  <2>3. ASSUME ~Owes(th), NEW k \in Keys, SearchCache(th, k) \/ DropBucket(th, k)
        PROVE  CacheInv'
    BY <2>3, SearchCacheNext, DropBucketNext
  <2>4. CASE ~Owes(th) /\ (ContextResult(th) \/ QueryResult(th) \/ Unclear(th) \/ Evict(th) \/ InsertEntry(th))
    BY <2>4, ResultNext, UnclearNext, EvictNext, InsertEntryNext
  <2>5. CASE /\ ~Owes(th)
             /\ Write(th) \/ CheckClear(th) \/ DropBegin(th) \/ DropEnd(th) \/ Cleared(th) \/ Store(th)
    BY <2>5, WriteNext, CheckClearNext, DropBeginNext, DropEndNext, ClearedNext, StoreNext
  <2> QED  BY <2>1, <2>2, <2>3, <2>4, <2>5
<1> QED  BY <1>1, <1>2

LEMMA CacheInvHolds ==
  ASSUME SearchesFit
  PROVE  Spec => []CacheInv
<1>1. Init => CacheInv  BY CacheInitInv
<1>2. CacheInv /\ [Next]_vars => CacheInv'  BY CacheNextInv
<1> QED  BY <1>1, <1>2, PTL DEF Spec

\* Every step of searches and writes, side by side, leaves each part of the cache what it should be:
\* a result is never of an index yet to come, and the writes under way never take it past the last.
THEOREM TypeCorrect ==
  ASSUME SearchesFit
  PROVE  Spec => []TypeOK
<1>1. CacheInv => TypeOK  BY DEF CacheInv
<1> QED  BY <1>1, CacheInvHolds, PTL

\* With no write under way nothing drops.
LEMMA NothingDoomed ==
  ASSUME Writers = {}
  PROVE  Staying = {k \in DOMAIN entries : TypeOf[k] \notin mixed}
<1>1. \A th \in Threads : pc[th] # "drop"  BY PlacesApart DEF Writers
<1> QED  BY <1>1 DEF Staying, Doomed

\* While no write is under way a search of a type that is not mixed gets from the cache what the index
\* holds now, whatever writes ran side by side before and whatever searches of other types ran beside them.
THEOREM CacheIsFresh ==
  ASSUME SearchesFit
  PROVE  Spec => []FreshUnlessMixed
<1>1. CacheInv => FreshUnlessMixed
  BY NothingDoomed DEF CacheInv, Fresh, FreshUnlessMixed
<1> QED  BY <1>1, CacheInvHolds, PTL

\* Of a type that is not mixed m_size counts at least the entries that are there, but for those still
\* to be counted, and a cache that counts as clear has none: neither early return of a write leaves an
\* entry of it behind.
THEOREM DropIsComplete ==
  ASSUME SearchesFit
  PROVE  Spec => []DropMissesNothing
<1>1. CacheInv => DropMissesNothing
  <2> SUFFICES ASSUME CacheInv, Writers = {}, NEW ty \in Types \ mixed
               PROVE  /\ Cardinality(KeysOf(ty) \intersect DOMAIN entries) <= m_size[ty] + OwedTo(ty)
                      /\ m_clear => KeysOf(ty) \intersect DOMAIN entries = {}
    BY DEF DropMissesNothing
  <2>1. KeysOf(ty) \intersect DOMAIN entries = KeysOf(ty) \intersect Staying
    BY NothingDoomed DEF KeysOf
  <2>2. EntriesOf[ty] = KeysOf(ty) \intersect DOMAIN entries  BY <2>1 DEF EntriesOf
  <2>3. OwedTo(ty) = Cardinality(Uncounted[ty])
    <3>1. {th \in Threads : diff[th] = <<ty, -1>>} = {}
      BY DEF CacheInv, Debts, Owes
    <3>2. Cardinality({th \in Threads : diff[th] = <<ty, -1>>}) = 0  BY <3>1, FS_EmptySet
    <3>3. Uncounted[ty] = {th \in Threads : diff[th] = <<ty, 1>>}  BY DEF Uncounted
    <3>4. Cardinality(Uncounted[ty]) \in Nat  BY SetsFinite
    <3> QED  BY <3>2, <3>3, <3>4 DEF OwedTo
  <2>4. Cardinality(EntriesOf[ty]) <= m_size[ty] + Cardinality(Uncounted[ty])
    BY DEF CacheInv, Counted
  <2>5. m_clear => KeysOf(ty) \intersect DOMAIN entries = {}
    BY <2>1 DEF CacheInv, ClearIsEmpty
  <2> QED  BY <2>2, <2>3, <2>4, <2>5
<1> QED  BY <1>1, CacheInvHolds, PTL
=============================================================================

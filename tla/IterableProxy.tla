---------------------------- MODULE IterableProxy ----------------------------
(***************************************************************************)
(* core::IterableProxy: how a loop runs through the buckets of a USet, the  *)
(* entries of each in the order its std::unordered_set has them.            *)
(*                                                                          *)
(* A buffer is a function from 0 .. n - 1 to sequences.  An iterator has    *)
(* the number of a bucket and a place in it; the end() of one               *)
(* unordered_set equals that of any other.                                  *)
(***************************************************************************)
EXTENDS Integers, Sequences, FiniteSetsExt

End == <<>>

Size(buffer) == Cardinality(DOMAIN buffer)

Places(buffer) ==
    {End} \union UNION {{<<b, i>> : i \in DOMAIN buffer[b]} : b \in DOMAIN buffer}

\* Slip: the place after the last entry is not the end.
PlaceUnchecked(buffer, b, i) == <<b, i>>
Place(buffer, b, i) == IF i \in DOMAIN buffer[b] THEN <<b, i>> ELSE End

\* Slip: one empty bucket is passed over, not several in a row.
AdvanceOnce(buffer, it) ==
    IF it.crawl = End /\ it.bucketId < Size(buffer) - 1
    THEN [bucketId |-> it.bucketId + 1, crawl |-> Place(buffer, it.bucketId + 1, 1)]
    ELSE it

\* While the iterator is at the end of a bucket and there is a next one, go there: to the
\* next bucket that has an entry, or to the last one.  (At the end the distance is the
\* bucket's size, so that the first branch never runs.)
AdvanceTillValid(buffer, it) ==
    LET last == Size(buffer) - 1
        next == Min({b \in it.bucketId + 1 .. last : b = last \/ buffer[b] # <<>>})
    IN
    IF it.crawl = End /\ it.bucketId < last
    THEN [bucketId |-> next, crawl |-> Place(buffer, next, 1)]
    ELSE it

Begin(buffer) == AdvanceTillValid(buffer, [bucketId |-> 0, crawl |-> Place(buffer, 0, 1)])
EndOf(buffer) == [bucketId |-> Size(buffer), crawl |-> End]

Differs(it, other) ==
    \/ it.bucketId # other.bucketId /\ it.crawl # End
    \/ it.crawl # other.crawl

Entry(buffer, it) == buffer[it.crawl[1]][it.crawl[2]]

\* operator++, which no loop calls at an end.
Incremented(buffer, it) ==
    AdvanceTillValid(buffer,
        [it EXCEPT !.crawl = Place(buffer, it.crawl[1], it.crawl[2] + 1)])
=============================================================================

------------------------------- MODULE SUMap -------------------------------
(***************************************************************************)
(* core::SUMap: a map whose buckets have a lock each, and a count of its    *)
(* keys beside them.  An operation on a key is atomic under the lock of the *)
(* key's bucket, so a map here is the function its buckets make together;   *)
(* m_size follows in a step of its own, after that lock is gone, and until  *)
(* then the thread owes the count a difference.                             *)
(*                                                                          *)
(* m_globalMtx is shared by all of these operations; what a loop that holds *)
(* it alone keeps out is modelled where the loops are, in Query.            *)
(***************************************************************************)
EXTENDS Integers, Functions, FiniteSets

CONSTANTS
    Threads,            \* the threads that call in
    SizeWidth           \* bits of m_size (size_t)

ASSUME ThreadsAssumption == IsFiniteSet(Threads)
ASSUME SizeWidthAssumption == SizeWidth \in Nat /\ 2 ^ SizeWidth \in Nat \ {0}

VARIABLES
    m_size,             \* map -> its m_size
    diff                \* thread -> <<map, difference>> it owes, <<>> if nothing

mapVars == <<m_size, diff>>

SizeWrap(n) == n % (2 ^ SizeWidth)

SizesOK(maps) ==
    /\ m_size \in [maps -> 0 .. 2 ^ SizeWidth - 1]
    /\ diff \in [Threads -> {<<>>} \union (maps \X {-1, 1})]

SizesInit(maps) ==
    /\ m_size = [m \in maps |-> 0]
    /\ diff = [th \in Threads |-> <<>>]

Owes(th) == diff[th] # <<>>

-----------------------------------------------------------------------------
(* What an operation finds in its bucket and what it leaves there           *)

Contains(map, key) == key \in DOMAIN map

Get(map, key, default) == IF Contains(map, key) THEN map[key] ELSE default

\* A value that is there is replaced.
Inserted(map, key, value) ==
    [k \in DOMAIN map \union {key} |-> IF k = key THEN value ELSE map[k]]

Erased(map, key) == Restrict(map, DOMAIN map \ {key})

\* Slip: a new key is not counted.
PushUncounted(map, key) == 0
\* insert and mutate: one more, if the key is new.
PushDiff(map, key) == IF Contains(map, key) THEN 0 ELSE 1

EraseDiff(map, key) == IF Contains(map, key) THEN -1 ELSE 0

\* The operation leaves its bucket; what is left to do is m_size += by.
Owe(th, map, by) ==
    /\ diff' = [diff EXCEPT ![th] = IF by = 0 THEN <<>> ELSE <<map, by>>]
    /\ UNCHANGED m_size

\* m_size += diff, with no bucket locked.
CountDiff(th) ==
    /\ Owes(th)
    /\ m_size' = [m_size EXCEPT ![diff[th][1]] = SizeWrap(@ + diff[th][2])]
    /\ diff' = [diff EXCEPT ![th] = <<>>]

-----------------------------------------------------------------------------

\* What the threads still owe to a map's m_size.
OwedTo(map) ==
    Cardinality({th \in Threads : diff[th] = <<map, 1>>})
    - Cardinality({th \in Threads : diff[th] = <<map, -1>>})

\* m_size is behind the number of keys by what is owed and by nothing else.
SizeAddsUp(map, keys) == m_size[map] = SizeWrap(Cardinality(keys) - OwedTo(map))
=============================================================================

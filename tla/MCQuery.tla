------------------------------ MODULE MCQuery ------------------------------
(***************************************************************************)
(* A small instance of Query for TLC.                                       *)
(***************************************************************************)
EXTENDS Query

CONSTANTS k1, k2, d1, d2, d3, q1, q2, h1, x1, w1, w2

\* A query of two words beside two searches for the first of them.
Words == (q1 :> k1) @@ (q2 :> k2) @@ (h1 :> k1) @@ (x1 :> k1)

\* The entries of k1 leave two buckets in a row empty; k2 has none in the beginning.
AllEntries == {<<d1, 1>>, <<d2, 1>>, <<d2, 2>>, <<d3, 1>>}
Indexed == (k1 :> {<<d1, 1>>, <<d2, 2>>}) @@ (k2 :> {})
Hashes == (<<d1, 1>> :> 3) @@ (<<d2, 1>> :> 1) @@ (<<d2, 2>> :> 0) @@ (<<d3, 1>> :> 5)
DocHashes == (d1 :> 0) @@ (d2 :> 2) @@ (d3 :> 1)

\* Two files that have a token in common.
Files ==
    (w1 :> <<[token |-> k1, entry |-> <<d3, 1>>], [token |-> k2, entry |-> <<d3, 1>>]>>) @@
    (w2 :> <<[token |-> k1, entry |-> <<d2, 1>>]>>)
=============================================================================

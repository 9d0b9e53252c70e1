------------------------------- MODULE MCShard -------------------------------
(***************************************************************************)
(* Small instances of Shard for TLC.                                        *)
(***************************************************************************)
EXTENDS Shard, TLC

CONSTANTS k1, k2, d1, d2, th1, th2, th3

At(tk, doc, pos) == [token |-> tk, doc |-> doc, pos |-> pos]

\* A document under two tokens.
TwoInserts == {At(k1, d1, 1), At(k2, d1, 1)}

\* The threads differ in nothing but their names.
ThreadSymmetry == Permutations(Threads)
=============================================================================

------------------------------ MODULE MCBackup ------------------------------
(***************************************************************************)
(* A small instance of Backup for TLC.                                      *)
(***************************************************************************)
EXTENDS Backup, TLC

CONSTANTS k1, k2, d1, d2, th1, th2

At(tk, doc, pos) == [token |-> tk, doc |-> doc, pos |-> pos]

\* A document under two tokens, and one that shares a token with it.
ThreeInserts == {At(k1, d1, 1), At(k2, d1, 1), At(k2, d2, 1)}

\* The server's threads differ in nothing but their names.
ServerSymmetry == Permutations({th1, th2})
=============================================================================

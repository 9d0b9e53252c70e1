------------------------------- MODULE MCCache -------------------------------
(***************************************************************************)
(* Small instances of Cache for TLC.                                        *)
(***************************************************************************)
EXTENDS Cache, TLC

CONSTANTS ContextSearch, QuerySearch, k1, k2, k4

BothTypes == <<ContextSearch, QuerySearch>>
TwoTokensOneQuery == (k1 :> ContextSearch) @@ (k2 :> ContextSearch) @@ (k4 :> QuerySearch)
OneTokenOneQuery == (k1 :> ContextSearch) @@ (k4 :> QuerySearch)

ThreadSymmetry == Permutations(Threads)
=============================================================================

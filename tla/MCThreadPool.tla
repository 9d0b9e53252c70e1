---------------------------- MODULE MCThreadPool ----------------------------
(***************************************************************************)
(* Small instances of ThreadPool for TLC.                                   *)
(***************************************************************************)
EXTENDS ThreadPool

CONSTANTS w1, w2, w3, s1, s2, t1, t2, t3

\* One queue with one worker; a worker for each of two queues; the same and
\* a second worker for queue 1.
OneHome == (w1 :> 1)
TwoHomes == (w1 :> 1) @@ (w2 :> 2)
MixedHomes == (w1 :> 1) @@ (w2 :> 2) @@ (w3 :> 1)

TaskSymmetry == Permutations(Tasks)
=============================================================================

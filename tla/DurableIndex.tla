---------------------------- MODULE DurableIndex ----------------------------
(***************************************************************************)
(* What dump and restore promise of the index: a restart brings back the    *)
(* index of the last dump as a whole or does not get through, and nobody    *)
(* ever sees a part of it.  The promise ends where the process itself no    *)
(* longer knows what its entries say, and begins anew with the next one.    *)
(***************************************************************************)

CONSTANTS
    Entries             \* the <<token, document, position>> there can be

VARIABLES
    up,                 \* does the index answer?
    known,              \* do its entries say what was inserted?
    index,              \* its entries, {} while it does not answer or they are not known
    saved               \* the dump: "missing", "torn" or "whole", known, its entries if whole

vars == <<up, known, index, saved>>

Init ==
    /\ up = TRUE
    /\ known = TRUE
    /\ index = {}
    /\ saved = <<"missing", TRUE, {}>>

Insert(entry) ==
    /\ up /\ known
    /\ index' = index \union {entry}
    /\ UNCHANGED <<up, known, saved>>

\* All entries of a token go at once.
Erase(token) ==
    /\ up /\ known
    /\ index' = {entry \in index : entry[1] # token}
    /\ UNCHANGED <<up, known, saved>>

\* From now on the process misreads its entries.
GoAstray ==
    /\ up
    /\ known' = FALSE
    /\ index' = {}
    /\ UNCHANGED <<up, saved>>

\* A dump replaces the one before, which is lost from its first byte on.
BeginSave ==
    /\ up
    /\ saved' = <<"torn", TRUE, {}>>
    /\ UNCHANGED <<up, known, index>>

EndSave ==
    /\ up
    /\ saved' = <<"whole", known, index>>
    /\ up' = FALSE
    /\ known' = TRUE
    /\ index' = {}

Crash ==
    /\ up
    /\ up' = FALSE
    /\ known' = TRUE
    /\ index' = {}
    /\ UNCHANGED saved

Restart ==
    /\ ~up
    /\ saved[1] # "torn"
    /\ up' = TRUE
    /\ saved[2] => index' = saved[3]
    /\ index' \in SUBSET Entries
    /\ UNCHANGED <<known, saved>>

Next ==
    \/ \E entry \in Entries : Insert(entry) \/ Erase(entry[1])
    \/ GoAstray \/ BeginSave \/ EndSave \/ Crash \/ Restart

Spec == Init /\ [][Next]_vars
=============================================================================

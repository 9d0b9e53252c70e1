------------------------------ MODULE TaskPool ------------------------------
(***************************************************************************)
(* What core::ThreadPool promises to the code that uses it, without queues, *)
(* threads or locks: a task handed to submitTask is run exactly once, a     *)
(* caller that asked for a waiting future does not get past its destructor  *)
(* before the task has run, and the destructor of a graceful pool returns   *)
(* only when nothing that was accepted is left undone.                      *)
(***************************************************************************)
EXTENDS Naturals

CONSTANTS
    Tasks,          \* the callables handed to submitTask
    Submitters      \* the threads that call submitTask

VARIABLES
    status,         \* task -> what became of it
    pending,        \* submitter -> the tasks whose waiting futures it holds
    isOpen          \* FALSE once the destructor has returned

poolVars == <<status, pending, isOpen>>

TypeOK ==
    /\ status \in [Tasks -> {"new", "accepted", "done"}]
    /\ pending \in [Submitters -> SUBSET Tasks]
    /\ isOpen \in BOOLEAN

Init ==
    /\ status = [t \in Tasks |-> "new"]
    /\ pending = [s \in Submitters |-> {}]
    /\ isOpen = TRUE

\* submitTask(task, isWaiting); the future joins those the submitter holds.
Submit(s, t, isWaiting) ==
    /\ isOpen
    /\ status[t] = "new"
    /\ status' = [status EXCEPT ![t] = "accepted"]
    /\ pending' = [pending EXCEPT ![s] = IF isWaiting THEN @ \union {t} ELSE @]
    /\ UNCHANGED isOpen

\* A task runs while the pool is still there.
Run(t) ==
    /\ isOpen
    /\ status[t] = "accepted"
    /\ status' = [status EXCEPT ![t] = "done"]
    /\ UNCHANGED <<pending, isOpen>>

\* The waiting futures of s are destroyed: all their tasks have run.
Return(s) ==
    /\ pending[s] # {}
    /\ \A t \in pending[s] : status[t] = "done"
    /\ pending' = [pending EXCEPT ![s] = {}]
    /\ UNCHANGED <<status, isOpen>>

\* ~ThreadPool returns.
Close ==
    /\ isOpen
    /\ \A t \in Tasks : status[t] # "accepted"
    /\ isOpen' = FALSE
    /\ UNCHANGED <<status, pending>>

Next ==
    \/ \E s \in Submitters, t \in Tasks, isWaiting \in BOOLEAN : Submit(s, t, isWaiting)
    \/ \E t \in Tasks : Run(t)
    \/ \E s \in Submitters : Return(s)
    \/ Close

SafeSpec == Init /\ [][Next]_poolVars

Fairness ==
    /\ \A t \in Tasks : WF_poolVars(Run(t))
    /\ \A s \in Submitters : WF_poolVars(Return(s))

Spec == SafeSpec /\ Fairness
=============================================================================

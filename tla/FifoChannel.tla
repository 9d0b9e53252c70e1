----------------------------- MODULE FifoChannel -----------------------------
(***************************************************************************)
(* What core::SafeQueue promises its users: what is pushed comes out once,  *)
(* in the order it went in, until the channel is closed; closing it leaves  *)
(* what has not come out yet inside for good.                               *)
(***************************************************************************)
EXTENDS Naturals, Sequences

CONSTANT Values         \* what may be pushed

VARIABLES
    sent,               \* everything pushed so far
    received,           \* everything popped so far
    closed              \* has signalAbort stored the flag?

fifoVars == <<sent, received, closed>>

Init ==
    /\ sent = <<>>
    /\ received = <<>>
    /\ closed = FALSE

Send(v) ==
    /\ sent' = Append(sent, v)
    /\ UNCHANGED <<received, closed>>

Receive ==
    /\ ~closed
    /\ Len(received) < Len(sent)
    /\ received' = Append(received, sent[Len(received) + 1])
    /\ UNCHANGED <<sent, closed>>

Close ==
    /\ closed' = TRUE
    /\ UNCHANGED <<sent, received>>

Next == (\E v \in Values : Send(v)) \/ Receive \/ Close

SafeSpec == Init /\ [][Next]_fifoVars
Spec == SafeSpec /\ WF_fifoVars(Receive)
=============================================================================

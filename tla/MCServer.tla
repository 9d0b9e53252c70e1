------------------------------ MODULE MCServer ------------------------------
(***************************************************************************)
(* Small instances of Server for TLC.                                       *)
(***************************************************************************)
EXTENDS Server, TLC

CONSTANTS c1, c2

\* With numbers to base 4, a payload of 1 makes a frame of 2 bytes that says 3, a payload
\* of 2 one of 4 bytes that says 4.
Requests == (c1 :> 1) @@ (c2 :> 2)
Replies == (c1 :> 1) @@ (c2 :> 2)
OneRequest == (c1 :> 1)
OneReply == (c1 :> 1)
=============================================================================

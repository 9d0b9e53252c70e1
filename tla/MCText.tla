------------------------------- MODULE MCText -------------------------------
(***************************************************************************)
(* A small instance of Text for TLC.                                        *)
(***************************************************************************)
EXTENDS Text

\* "0" is the character '\0'; "?" stands for the four ends of a sentence, "~" for the
\* control characters.
LowerCase == ("A" :> "a")
AllFileChars == {"a", "A", "'", " ", "?", "~", "0"}
FiveDigits == <<"0", "1", "2", "3", "4">>

\* As the boundary does, this one begins and ends with dashes.
ShortBoundary == <<"-", "-", "R", "-", "-">>
TwoDashes == <<"-", "-">>
ShortMeta == <<"{", "m", "}">>
=============================================================================

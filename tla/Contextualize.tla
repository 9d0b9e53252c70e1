---------------------------- MODULE Contextualize ----------------------------
(***************************************************************************)
(* contextualize: the sentence around a position of an indexed file, as     *)
(* RequestTokenSearchWithContext quotes it.  The position comes from the    *)
(* index and the file may have changed since.                               *)
(***************************************************************************)
EXTENDS Integers, SequencesExt

CONSTANTS
    Reach,              \* how far from the position the cursors start: 10
    Delims,             \* the characters that end a sentence
    Blanks,             \* what lrtrim takes away at both ends
    Controls,           \* what removeControlChars takes away
    Escaped             \* the characters escape puts a backslash before

ASSUME ReachAssumption == Reach \in Nat \ {0}

Backslash == "\\"

IsDelim(text, cursor) == text[cursor + 1] \in Delims

\* The loop: each cursor goes on to a delimiter of its own, until both are at one - the
\* left one then steps past it - or one of them is at an end of the text.
Settled(text, left, right) ==
    LET size == Len(text)
        loop[c \in (-Reach .. size) \X (0 .. size + Reach)] ==
          LET l == ~IsDelim(text, c[1])
              r == ~IsDelim(text, c[2])
          IN IF ~(c[1] > 0 /\ c[2] < size) THEN c
             ELSE IF ~l /\ ~r THEN <<c[1] + 1, c[2]>>
             ELSE loop[<<IF l THEN c[1] - 1 ELSE c[1], IF r THEN c[2] + 1 ELSE c[2]>>]
    IN loop[<<left, right>>]

\* Slip: a right cursor beyond the end is let through.
UsableLeft(text, left, right) == right # left /\ left >= 0
Usable(text, left, right) == right # left /\ left >= 0 /\ right < Len(text)

\* The offsets of the first character and of the one after the last.
Window(text, idx) ==
    IF Len(text) <= idx THEN <<0, 0>>
    ELSE LET c == Settled(text, idx - Reach, idx + Reach) IN
         IF Usable(text, c[1], c[2]) THEN c ELSE <<0, 0>>

RemoveControlChars(text) ==
    FlattenSeq([i \in DOMAIN text |-> IF text[i] \in Controls THEN <<>> ELSE <<text[i]>>])

Lrtrim(text) ==
    LET kept == {i \in DOMAIN text : text[i] \notin Blanks} IN
    IF kept = {} THEN <<>>
    ELSE SubSeq(text, CHOOSE i \in kept : \A j \in kept : i <= j,
                      CHOOSE i \in kept : \A j \in kept : i >= j)

Escape(text) ==
    FlattenSeq([i \in DOMAIN text |->
                  IF text[i] \in Escaped THEN <<Backslash, text[i]>> ELSE <<text[i]>>])

\* What stands between the dots of the answer.
Context(text, idx) ==
    LET w == Window(text, idx) IN
    Escape(Lrtrim(RemoveControlChars(SubSeq(text, w[1] + 1, w[2]))))
=============================================================================

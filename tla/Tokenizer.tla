----------------------------- MODULE Tokenizer -----------------------------
(***************************************************************************)
(* detail::tokenizeRange over the text a file or a query shows.  A text is  *)
(* the sequence of its characters, one of each kind the code tells apart.   *)
(***************************************************************************)
EXTENDS Integers, Sequences, FiniteSetsExt

CONSTANTS
    Lower,              \* the letters std::tolower leaves alone
    Upper,              \* the other letters
    LowerOf,            \* letter of Upper -> its lower case
    Apostrophe,
    Nul                 \* the character '\0'

ASSUME LettersAssumption == LowerOf \in [Upper -> Lower] /\ Lower \intersect Upper = {}

WordChars == Lower \union Upper \union {Apostrophe}

\* MMapASCII: m_view is made from a char*, so it ends at the first '\0' - the file's, or
\* one of those that fill its last page.
View(file) ==
    LET nuls == {i \in DOMAIN file : file[i] = Nul} IN
    IF nuls = {} THEN file ELSE SubSeq(file, 1, Min(nuls) - 1)

ToLower(text) == [i \in DOMAIN text |-> IF text[i] \in Upper THEN LowerOf[text[i]] ELSE text[i]]

\* rangeToStr
RangeToStr(text, lower) == IF lower THEN ToLower(text) ELSE text

\* std::find_if_not from the offset q: the first that is not part of a word, or the end.
WordEnd(text, q) ==
    Min({p \in q .. Len(text) - 1 : text[p + 1] \notin WordChars} \union {Len(text)})

\* Slip: the end is looked at before the word.
KeptUnlessLast(text, q, p) == p # q /\ p # Len(text)
Kept(text, q, p) == p # q

\* The tokens with their positions: the offset where the word ends.
TokenizeRange(text, lower) ==
    LET from[q \in 0 .. Len(text)] ==
          LET p == WordEnd(text, q)
              word == <<RangeToStr(SubSeq(text, q + 1, p), lower), p>>
          IN (IF Kept(text, q, p) THEN <<word>> ELSE <<>>)
             \o (IF p = Len(text) THEN <<>> ELSE from[p + 1])
    IN from[0]

\* Slip: only the searches heed to_lowercase.
IndexedUncased(file, lower) == TokenizeRange(View(file), FALSE)
\* What indexTxtFile inserts, searchQuery looks up and search makes of one token; erase
\* takes the token as it comes.
IndexedTokens(file, lower) == TokenizeRange(View(file), lower)
QueryTokens(query, lower) ==
    LET tokens == TokenizeRange(RangeToStr(query, lower), FALSE) IN
    [n \in DOMAIN tokens |-> tokens[n][1]]
SearchedToken(token, lower) == RangeToStr(token, lower)
ErasedToken(token, lower) == token
=============================================================================

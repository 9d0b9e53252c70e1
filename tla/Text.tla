-------------------------------- MODULE Text --------------------------------
(***************************************************************************)
(* The text algorithms of the program over texts that grow by a character   *)
(* at a time: what tokenizeRange finds in a file, what contextualize quotes *)
(* of it, and what the other side makes of a packet.                        *)
(***************************************************************************)
EXTENDS Tokenizer, Contextualize, Framing

CONSTANTS
    FileChars,          \* the kinds of characters a file is made of
    ContentChars,       \* those of a message's JSON between its braces
    MaxFile,            \* bound: the length of a file
    MaxContent,         \* bound: the length of that content
    MaxHandler          \* bound: the length of a handler's name

ASSUME BlanksAssumption == WordChars \intersect (Blanks \union Controls \union Delims \union {Nul}) = {}
ASSUME LengthsAssumption == MaxFile \in Nat /\ MaxContent \in Nat /\ MaxHandler \in Nat \ {0}
\* A string is shorter than what a prefix of digits counts to, and a handler's name has no
\* dash in it.
ASSUME FramesAssumption ==
    /\ \A meta \in {MetaOK, MetaMessage} :
         3 * Len(Boundary) + MaxHandler + MaxContent + 2 + Len(meta) + MaxDigits + 1
           < Base ^ (PrefixSize - 1)
    /\ Boundary[1] # "h"

VARIABLES
    file,               \* the text of an indexed file
    handler, content    \* the name of a handler and the content of a message for it

vars == <<file, handler, content>>

Init == file = <<>> /\ handler = <<"h">> /\ content = <<>>

WriteFile(ch) ==
    /\ Len(file) < MaxFile
    /\ content = <<>> /\ Len(handler) = 1
    /\ file' = Append(file, ch)
    /\ UNCHANGED <<handler, content>>

WriteContent(ch) ==
    /\ Len(content) < MaxContent
    /\ file = <<>>
    /\ content' = Append(content, ch)
    /\ UNCHANGED <<file, handler>>

NameHandler ==
    /\ Len(handler) < MaxHandler
    /\ file = <<>> /\ content = <<>>
    /\ handler' = Append(handler, "h")
    /\ UNCHANGED <<file, content>>

Next ==
    \/ \E ch \in FileChars : WriteFile(ch)
    \/ \E ch \in ContentChars : WriteContent(ch)
    \/ NameHandler

Spec == Init /\ [][Next]_vars

-----------------------------------------------------------------------------
(* Properties                                                               *)

\* The offsets <<begin, end>> of the words of a text: the runs of letters and apostrophes
\* that nothing can be added to.
Words(text) ==
    {w \in (0 .. Len(text)) \X (0 .. Len(text)) :
       /\ w[1] < w[2]
       /\ \A i \in w[1] + 1 .. w[2] : text[i] \in WordChars
       /\ w[1] = 0 \/ text[w[1]] \notin WordChars
       /\ w[2] = Len(text) \/ text[w[2] + 1] \notin WordChars}

Word(text, w) == SubSeq(text, w[1] + 1, w[2])

\* The tokens of a file are its words up to the first '\0', each once and in order, with
\* the offset where it ends.
TokensAreWords ==
    LET text == View(file)
        tokens == IndexedTokens(file, FALSE)
    IN /\ Range(tokens) = {<<Word(text, w), w[2]>> : w \in Words(text)}
       /\ \A n \in 1 .. Len(tokens) - 1 : tokens[n][2] < tokens[n + 1][2]

\* Whoever searches for a word, as it stands in an indexed file, by itself or in a query,
\* searches for the token it was indexed as, be to_lowercase on or off; whoever erases
\* it erases that token only if the case of the word is the index's.
QueryFindsIndexed ==
    \A lower \in BOOLEAN :
      LET text == View(file)
          tokens == IndexedTokens(file, lower)
      IN /\ QueryTokens(text, lower) = [n \in DOMAIN tokens |-> tokens[n][1]]
         /\ \A w \in Words(text) :
              LET word == Word(text, w)
                  indexed == <<SearchedToken(word, lower), w[2]>>
              IN /\ indexed \in Range(tokens)
                 /\ QueryTokens(word, lower) = <<SearchedToken(word, lower)>>
                 /\ (ErasedToken(word, lower) = indexed[1]) <=> (lower => ToLower(word) = word)

IsPartOf(part, text) ==
    \E i \in 0 .. Len(text) - Len(part) : SubSeq(text, i + 1, i + Len(part)) = part

\* Whatever position the index has for a file that may have changed since, the context is
\* a range of the file as it is now, and one that begins after the file does begins behind
\* the end of a sentence and stops at one. Where the left cursor has come to the beginning
\* of the file the loop is over and the context may stop anywhere, in the middle of a word
\* too, although src/README.md:55 speaks of "the sentences where the searched token
\* appears". If the file is the one that was indexed, a context that is not empty has the
\* whole token in it.
ContextHoldsToken ==
    LET text == View(file) IN
    /\ \A idx \in 0 .. Len(text) + 1 :
         LET w == Window(text, idx) IN
         /\ 0 <= w[1] /\ w[1] <= w[2] /\ w[2] <= Len(text)
         /\ w[1] > 0 => IsDelim(text, w[1] - 1) /\ IsDelim(text, w[2])
    /\ \A w \in Words(text) :
         LET window == Window(text, w[2]) IN
         window # <<0, 0>> =>
           /\ window[1] <= w[1] /\ w[2] <= window[2]
           /\ IsPartOf(Escape(Word(text, w)), Context(text, w[2]))

Body == <<"{">> \o content \o <<"}">>

\* How many characters of a frame read may have returned when it stops: all it was asked
\* for or one less, of those that come.
ReadLengths(frame, declared) == {declared - 1, declared} \intersect 0 .. Len(frame)
Headers(frame) == {SubSeq(frame, 1, n) : n \in {PrefixSize - 1, PrefixSize}}

\* A message whose text does not hold the boundary arrives as it was sent, with the
\* handler it was sent to, wherever read stops: the header says how long the frame is
\* whatever part of the boundary it has, read never waits for a character that does not
\* come, and of those that come it may leave the last one in the socket, which is not
\* needed.
PacketArrives ==
    ~IsPartOf(Boundary, content) =>
      LET frame == Frame(handler, Body, MetaOK)
          declared == DeserializeSize(frame)
      IN /\ \A header \in Headers(frame) : DeserializeSize(header) = declared
         /\ Len(frame) \in {declared - 1, declared}
         /\ \A n \in ReadLengths(frame, declared) :
              LET got == SubSeq(frame, 1, n) IN
              /\ DeserializeHandler(got) = handler
              /\ Deserialize(got) = Result("OK", handler, Body)

\* What serialize makes of no message, or of one that has no JSON, is never taken for a
\* message, though it parts where the fields of one would: wherever read stops it
\* becomes a protocol error and neither an exception nor a message.
CorruptIsError ==
    \A frame \in {NullFrame, CorruptFrame(handler)} :
      \A n \in ReadLengths(frame, DeserializeSize(frame)) :
        Deserialize(SubSeq(frame, 1, n)).status = "ProtocolError"
=============================================================================

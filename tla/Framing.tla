------------------------------- MODULE Framing -------------------------------
(***************************************************************************)
(* net::serialize, split and deserialize on top of Transport's sizes.  A    *)
(* frame is the sequence of its characters; a message is the text of its    *)
(* JSON, which begins and ends with a brace, and so are the metadata.       *)
(***************************************************************************)
EXTENDS Transport, SequencesExt

CONSTANTS
    DigitChars,         \* the digits, from 0 on
    Boundary,           \* detail::Boundary
    Dashes,             \* what deserializeSize splits at, "--"
    MetaOK,             \* the metadata of a message nobody set any for
    MetaPacket,         \* those of "Corrupted packet"
    MetaMessage         \* those of "Corrupted message"

ASSUME DigitsAssumption ==
    /\ DigitChars \in Seq(Range(DigitChars))
    /\ Len(DigitChars) = Base /\ IsInjective(DigitChars)
ASSUME BoundaryAssumption ==
    /\ Boundary \in Seq(Range(Boundary)) /\ Dashes \in Seq(Range(Boundary))
    /\ Dashes # <<>> /\ IsPrefix(Dashes, Boundary)
\* What stands between two boundaries has not the character they begin with, or a brace,
\* which they have not.
ASSUME BetweenAssumption ==
    /\ {"{", "}"} \intersect Range(Boundary) = {}
    /\ Boundary[1] \notin Range(DigitChars)
    /\ \A meta \in {MetaOK, MetaPacket, MetaMessage} :
         /\ meta \in Seq(Range(meta)) /\ Len(meta) >= 2
         /\ meta[1] = "{" /\ Boundary[1] \notin Range(meta)
\* The size of every frame has fewer digits than the prefix that is read first; a size that
\* leaves them out cuts off no more than metadata.
ASSUME PrefixAssumption ==
    /\ PrefixSize \in 2 .. MaxDigits + 1
    /\ PrefixSize <= 3 * Len(Boundary)
    /\ 3 * Len(Boundary) + Len(MetaPacket) + 1 < Base ^ (PrefixSize - 1)
    /\ Digits(3 * Len(Boundary) + Len(MetaPacket) + 1) <= Len(MetaPacket)

\* std::to_string: the most significant digit first.
SizeText(n) ==
    [i \in 1 .. Digits(n) |-> DigitChars[((n \div Base ^ (Digits(n) - i)) % Base) + 1]]

\* serialize of a message whose JSON is body.
Frame(handler, body, meta) ==
    LET payload == Boundary \o handler \o Boundary \o body \o Boundary \o meta IN
    SizeText(DeclaredSize(Len(payload))) \o payload

\* serialize of nothing: the size leaves out its own digits.
NullFrame ==
    SizeText(3 * Len(Boundary) + Len(MetaPacket) + 1)
    \o Boundary \o Boundary \o Boundary \o MetaPacket

\* serialize of a message whose toJson throws: no body.
CorruptFrame(handler) == Frame(handler, <<>>, MetaMessage)

\* split looks no further than the end of the text: a delimiter that is cut off there
\* counts as one.
Matches(src, i, delim) ==
    \A j \in DOMAIN delim : i + j - 1 <= Len(src) => src[i + j - 1] = delim[j]

\* No copy of the boundary begins within another, were one to follow it.
ASSUME OverlapAssumption ==
    \A i \in 2 .. Len(Boundary) : ~Matches(Boundary \o Boundary, i, Boundary)

\* Slip: a delimiter counts after a delimiter too.
EndsAnyPart(src, first, i, delim) == Matches(src, i, delim)
\* A delimiter right after a delimiter is taken for text.
EndsPart(src, first, i, delim) == Matches(src, i, delim) /\ i # first

\* Slip: i is moved past the delimiter, and the loop moves it on once more.
SkipAll(delim) == Len(delim) + 1
\* How far it is from the place of a delimiter to that of the next part.
Skip(delim) == Len(delim)

\* split: the parts from the first character on, each up to the next delimiter that ends
\* it; with skipBody the second part is the last.
Split(src, delim, skipBody) ==
    LET from[first \in 1 .. Len(src) + Skip(delim)] ==
          LET ends == {i \in first .. Len(src) : EndsPart(src, first, i, delim)}
          IN IF ends = {} THEN <<SubSeq(src, first, Len(src))>>
             ELSE <<SubSeq(src, first, Min(ends) - 1)>> \o from[Min(ends) + Skip(delim)]
        parts == from[1]
    IN IF skipBody /\ Len(parts) > 2 THEN SubSeq(parts, 1, 2) ELSE parts

NoValue == <<>>

DeserializeHandler(frame) ==
    LET parts == Split(frame, Boundary, TRUE) IN
    IF Len(parts) = 2 THEN parts[2] ELSE NoValue

\* std::stoul: the number its first digits make; without one it throws, and there is none.
DeserializeSize(header) ==
    LET part == Split(header, Dashes, TRUE)[1]
        value(d) == (CHOOSE n \in DOMAIN DigitChars : DigitChars[n] = d) - 1
        ends == {i \in DOMAIN part : part[i] \notin Range(DigitChars)}
        digits == IF ends = {} THEN Len(part) ELSE Min(ends) - 1
        number[i \in 0 .. digits] ==
          IF i = 0 THEN 0 ELSE number[i - 1] * Base + value(part[i])
    IN IF digits = 0 THEN NoValue ELSE number[digits]

\* Json::parse
IsJson(text) == Len(text) >= 2 /\ Head(text) = "{" /\ Last(text) = "}"

Result(status, handler, body) == [status |-> status, handler |-> handler, body |-> body]

\* MessageMetadata::fromJson of parts[3]: the text becomes a JSON string, at throws, and
\* the metadata stay what they are made as, which is OK.
MetadataStatus(text) == "OK"

\* Four parts make a message; a body that does not parse is nobody's to catch.
Deserialize(serialized) ==
    LET parts == Split(serialized, Boundary, FALSE) IN
    IF Len(parts) # 4 THEN Result("ProtocolError", <<>>, <<>>)
    ELSE IF ~IsJson(parts[3]) THEN Result("throws", <<>>, <<>>)
    ELSE Result(MetadataStatus(parts[4]), parts[2], parts[3])
=============================================================================

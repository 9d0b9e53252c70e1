------------------------------ MODULE Transport ------------------------------
(***************************************************************************)
(* How both ends of a connection cut frames out of the byte stream:         *)
(* net::serialize writes the frame's size in front of it, net::detail::read *)
(* collects bytes until one less than it was asked for has come.  A frame   *)
(* is its payload, the number of its bytes after the size field.            *)
(***************************************************************************)
EXTENDS Integers

CONSTANTS
    Base,               \* of the numbers std::to_string writes: 10
    MaxDigits,          \* of a size_t: 20
    PrefixSize,         \* detail::PrefixSize
    ChunkSize           \* detail::ChunkSize

ASSUME BaseAssumption == Base \in Nat \ {0, 1}
\* What a power is, of which the provers know nothing.
ASSUME PowersAssumption ==
    /\ MaxDigits \in Nat \ {0}
    /\ Base ^ 0 = 1
    /\ \A d \in 0 .. MaxDigits - 1 : Base ^ d \in Nat /\ Base ^ (d + 1) = Base * Base ^ d
ASSUME SizesAssumption == PrefixSize \in Nat \ {0} /\ ChunkSize \in Nat \ {0}

\* std::to_string(n).size()
Digits(n) == CHOOSE d \in 1 .. MaxDigits : n < Base ^ d /\ (d = 1 \/ Base ^ (d - 1) <= n)

\* The size serialize puts in front: that of the payload, that of the payload's own
\* size, and 1.
DeclaredSize(payload) == payload + Digits(payload) + 1

\* The declared size is a size_t.
Fits(payload) == payload + MaxDigits + 1 < Base ^ MaxDigits

\* How long the frame is: one byte short of the declared size, unless the size has a
\* digit more than that of the payload.
FrameLength(payload) == Digits(DeclaredSize(payload)) + payload

\* Slip: read waits for all the bytes it was asked for.
ReadsAll(got, bytes) == got < bytes
\* Slip: read stops two bytes short.
ReadsShort(got, bytes) == got < bytes - 2
\* detail::read goes on: bytes is never 0 here, so that bytes - 1 does not wrap.
ReadsOn(got, bytes) == got < bytes - 1

\* The bytes one ::read may return, of those that are still to come: at least one, once
\* they are there.
Chunks(got, bytes, coming) == {n \in 1 .. ChunkSize : n <= bytes - got /\ n <= coming}
=============================================================================

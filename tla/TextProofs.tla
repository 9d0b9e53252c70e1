----------------------------- MODULE TextProofs -----------------------------
(***************************************************************************)
(* Proofs of the properties of Text, for texts and messages of any length,  *)
(* any alphabet and any base of the sizes.                                  *)
(*                                                                          *)
(* The state is one text; what there is to prove is what the loops of the   *)
(* code make of it.  Each of them is a recursive function, of which the     *)
(* provers know nothing: that such a function exists, and that it has what  *)
(* its equation says, is proved first, by induction over the steps left.    *)
(* The tokenizer, contextualize, to_string and stoul, and split follow.     *)
(***************************************************************************)
EXTENDS Text, SequenceTheorems, FiniteSetTheorems, WellFoundedInduction, TLAPS

-----------------------------------------------------------------------------
(* Least elements and recursion                                             *)

\* Every set of naturals has a least element.
LEMMA LeastNatural ==
  ASSUME NEW S, S \subseteq Nat, S # {}
  PROVE  \E x \in S : \A y \in S : x <= y
<1> DEFINE R == {ss \in Nat \X Nat : ss[1] < ss[2]}
<1>1. OpToRel(<, Nat) = R  BY DEF OpToRel
<1>2. IsWellFoundedOn(R, Nat)  BY <1>1, NatLessThanWellFounded
<1> HIDE DEF R
<1>3. PICK x \in S : \A y \in S : ~ (<<y, x>> \in R)  BY <1>2, WFMin
<1>4. ASSUME NEW y \in S  PROVE x <= y
  <2>1. <<y, x>> \in Nat \X Nat /\ x \in Nat /\ y \in Nat  OBVIOUS
  <2>2. ~ (y < x)  BY <1>3, <2>1 DEF R
  <2> QED  BY <2>1, <2>2
<1> QED  BY <1>4

\* What Min chooses is least.
LEMMA MinIsLeast ==
  ASSUME NEW S, S \subseteq Nat, S # {}
  PROVE  Min(S) \in S /\ \A y \in S : Min(S) <= y
<1>1. PICK x \in S : \A y \in S : x <= y  BY LeastNatural
<1>2. \E m \in S : \A y \in S : m <= y  BY <1>1
<1> QED  BY <1>2, Zenon DEF Min

\* Two numbers no less than each other.
LEMMA MinIs ==
  ASSUME NEW S, S \subseteq Nat, NEW m \in S, \A y \in S : m <= y
  PROVE  Min(S) = m
<1>1. S # {}  OBVIOUS
<1>2. Min(S) \in S /\ \A y \in S : Min(S) <= y  BY <1>1, MinIsLeast
<1>3. Min(S) <= m /\ m <= Min(S) /\ m \in Nat /\ Min(S) \in Nat  BY <1>2
<1> QED  BY <1>3

\* What holds of 0, and of each number that follows one it holds of, holds up to n.
\* A predicate is given as the set of the numbers it holds of.
LEMMA Induction ==
  ASSUME NEW n \in Nat, NEW Holding, 0 \in Holding,
         \A i \in 0 .. n - 1 : i \in Holding => i + 1 \in Holding
  PROVE  0 .. n \subseteq Holding
<1> DEFINE Wrong == {i \in 0 .. n : i \notin Holding}
<1> SUFFICES ASSUME Wrong # {} PROVE FALSE  OBVIOUS
<1>1. PICK i \in Wrong : \A y \in Wrong : i <= y
  <2>1. Wrong \subseteq Nat  OBVIOUS
  <2> HIDE DEF Wrong
  <2> QED  BY <2>1, LeastNatural
<1>2. i # 0 /\ i \in 0 .. n  OBVIOUS
<1>3. i - 1 \in 0 .. n - 1 /\ i - 1 \in 0 .. n /\ (i - 1) + 1 = i /\ ~(i <= i - 1)
  BY <1>2
<1>4. i - 1 \in Holding  BY <1>1, <1>3
<1> QED  BY <1>3, <1>4

\* A recursion: from its stops on, a function is given by its value, and before them by the
\* value at the next point, whose rank is lower.
IsRecursion(D, V, N, rank, Stops, value, next, step) ==
    /\ N \in Nat
    /\ rank \in [D -> 0 .. N]
    /\ \A c \in D : c \in Stops => value[c] \in V
    /\ \A c \in D : c \notin Stops =>
         /\ next[c] \in D /\ rank[next[c]] < rank[c]
         /\ \A v \in V : step[<<c, v>>] \in V

Solves(f, D, V, Stops, value, next, step) ==
    /\ f \in [D -> V]
    /\ \A c \in D : f[c] = IF c \in Stops THEN value[c] ELSE step[<<c, f[next[c]]>>]

\* Every recursion has a solution.
LEMMA RecursionExists ==
  ASSUME NEW D, NEW V, NEW N, NEW rank, NEW Stops, NEW value, NEW next, NEW step,
         IsRecursion(D, V, N, rank, Stops, value, next, step)
  PROVE  \E f : Solves(f, D, V, Stops, value, next, step)
<1>0. /\ N \in Nat
      /\ rank \in [D -> 0 .. N]
      /\ \A c \in D : c \in Stops => value[c] \in V
      /\ \A c \in D : c \notin Stops =>
           /\ next[c] \in D /\ rank[next[c]] < rank[c]
           /\ \A v \in V : step[<<c, v>>] \in V
  BY DEF IsRecursion
<1> DEFINE Below(n) == {c \in D : rank[c] < n}
           Works(n, f) ==
             /\ f \in [Below(n) -> V]
             /\ \A c \in Below(n) :
                  f[c] = IF c \in Stops THEN value[c] ELSE step[<<c, f[next[c]]>>]
           Defined == {n \in 0 .. N + 1 : \E f : Works(n, f)}
<1>1. 0 \in Defined
  <2>1. Below(0) = {}  BY <1>0
  <2>2. Works(0, [c \in {} |-> c])  BY <2>1
  <2> HIDE DEF Works
  <2> QED  BY <1>0, <2>2
<1>2. ASSUME NEW n \in 0 .. (N + 1) - 1, n \in Defined  PROVE n + 1 \in Defined
  <2>1. PICK f : Works(n, f)  BY <1>2
  <2> DEFINE At(c) == IF c \in Stops THEN value[c] ELSE step[<<c, f[next[c]]>>]
             g == [c \in Below(n + 1) |-> IF rank[c] < n THEN f[c] ELSE At(c)]
  <2>2. ASSUME NEW c \in Below(n + 1), c \notin Stops
        PROVE  next[c] \in Below(n) /\ next[c] \in Below(n + 1) /\ next[c] \in D
    <3>1. c \in D /\ rank[c] \in 0 .. N /\ rank[c] < n + 1  BY <1>0
    <3>2. next[c] \in D /\ rank[next[c]] < rank[c]  BY <1>0, <2>2
    <3>3. rank[next[c]] \in 0 .. N  BY <1>0, <3>2
    <3> QED  BY <3>1, <3>2, <3>3
  <2>3. ASSUME NEW c \in Below(n + 1)  PROVE At(c) \in V /\ g[c] = At(c)
    <3>1. c \in D /\ rank[c] \in 0 .. N  BY <1>0
    <3>2. At(c) \in V
      <4>1. CASE c \in Stops  BY <1>0, <3>1, <4>1
      <4>2. CASE c \notin Stops
        <5>1. f[next[c]] \in V  BY <2>1, <2>2, <4>2
        <5> QED  BY <1>0, <3>1, <4>2, <5>1
      <4> QED  BY <4>1, <4>2
    <3>3. rank[c] < n => f[c] = At(c)  BY <2>1, <3>1
    <3> QED  BY <3>2, <3>3
  <2>4. g \in [Below(n + 1) -> V]  BY <2>3
  <2>5. ASSUME NEW c \in Below(n + 1), c \notin Stops  PROVE g[next[c]] = f[next[c]]
    BY <2>2, <2>5
  <2>6. \A c \in Below(n + 1) :
          g[c] = IF c \in Stops THEN value[c] ELSE step[<<c, g[next[c]]>>]
    BY <2>3, <2>5
  <2>7. Works(n + 1, g)  BY <2>4, <2>6
  <2> HIDE DEF Works, g
  <2>8. n + 1 \in 0 .. N + 1  BY <1>0
  <2> QED  BY <2>7, <2>8
<1>3. N + 1 \in Defined
  <2>1. N + 1 \in Nat /\ N + 1 \in 0 .. N + 1  BY <1>0
  <2> HIDE DEF Defined
  <2>2. 0 .. N + 1 \subseteq Defined  BY <1>1, <1>2, <2>1, Induction
  <2> QED  BY <2>1, <2>2
<1>4. PICK f : Works(N + 1, f)  BY <1>3
<1>5. Below(N + 1) = D  BY <1>0
<1> QED  BY <1>4, <1>5 DEF Solves

\* Two functions that agree at a point if they agree at the next one, whose rank is lower.
AgreeIfNext(D, N, rank, next, f, g) ==
    /\ N \in Nat
    /\ rank \in [D -> 0 .. N]
    /\ \A c \in D : \/ f[c] = g[c]
                    \/ /\ next[c] \in D /\ rank[next[c]] < rank[c]
                       /\ f[next[c]] = g[next[c]] => f[c] = g[c]

\* They agree everywhere: a recursion has one solution.
LEMMA RecursionsAgree ==
  ASSUME NEW D, NEW N, NEW rank, NEW next, NEW f, NEW g, AgreeIfNext(D, N, rank, next, f, g)
  PROVE  \A c \in D : f[c] = g[c]
<1>0. /\ N \in Nat
      /\ rank \in [D -> 0 .. N]
      /\ \A c \in D : \/ f[c] = g[c]
                      \/ /\ next[c] \in D /\ rank[next[c]] < rank[c]
                         /\ f[next[c]] = g[next[c]] => f[c] = g[c]
  BY DEF AgreeIfNext
<1> DEFINE Agreed == {n \in 0 .. N + 1 : \A c \in D : rank[c] < n => f[c] = g[c]}
<1>1. 0 \in Agreed  BY <1>0
<1>2. ASSUME NEW n \in 0 .. (N + 1) - 1, n \in Agreed  PROVE n + 1 \in Agreed
  <2> SUFFICES ASSUME NEW c \in D, rank[c] < n + 1  PROVE f[c] = g[c]
    BY <1>0, <1>2
  <2>1. CASE f[c] = g[c]  BY <2>1
  <2>2. CASE /\ next[c] \in D /\ rank[next[c]] < rank[c]
             /\ f[next[c]] = g[next[c]] => f[c] = g[c]
    <3>1. rank[next[c]] \in 0 .. N /\ rank[c] \in 0 .. N  BY <1>0, <2>2
    <3>2. rank[next[c]] < n  BY <2>2, <3>1
    <3> QED  BY <1>2, <2>2, <3>2
  <2> QED  BY <1>0, <2>1, <2>2
<1>3. N + 1 \in Nat /\ N + 1 \in 0 .. N + 1  BY <1>0
<1>4. N + 1 \in Agreed
  <2> HIDE DEF Agreed
  <2>1. 0 .. N + 1 \subseteq Agreed  BY <1>1, <1>2, <1>3, Induction
  <2> QED  BY <1>3, <2>1
<1> QED  BY <1>0, <1>4

-----------------------------------------------------------------------------
(* Sequences                                                                *)

\* The elements of a part.
LEMMA PartIs ==
  ASSUME NEW C, NEW text \in Seq(C), NEW a \in 0 .. Len(text), NEW b \in a .. Len(text)
  PROVE  /\ SubSeq(text, a + 1, b) \in Seq(C)
         /\ Len(SubSeq(text, a + 1, b)) = b - a
         /\ \A i \in 1 .. b - a : SubSeq(text, a + 1, b)[i] = text[a + i]
<1>1. \A i \in a + 1 .. b : text[i] \in C  OBVIOUS
<1>2. a + 1 \in Int /\ b \in Int  OBVIOUS
<1> DEFINE m == a + 1
<1> HIDE DEF m
<1>3. /\ SubSeq(text, m, b) \in Seq(C)
      /\ Len(SubSeq(text, m, b)) = IF m <= b THEN b - m + 1 ELSE 0
      /\ \A i \in 1 .. b - m + 1 : SubSeq(text, m, b)[i] = text[m + i - 1]
  <2>1. m \in Int /\ b \in Int /\ \A i \in m .. b : text[i] \in C  BY <1>1, <1>2 DEF m
  <2> QED  BY <2>1, SubSeqProperties
<1>4. m = a + 1 /\ b \in Int /\ a \in Int /\ a <= b  BY DEF m
<1>5. b - m + 1 = b - a /\ \A i \in 1 .. b - a : m + i - 1 = a + i  BY <1>4
<1>6. Len(SubSeq(text, m, b)) = b - a  BY <1>3, <1>4
<1> QED  BY <1>3, <1>4, <1>5, <1>6

\* The range of a sequence that is one element longer.
LEMMA RangeOneMore ==
  ASSUME NEW T, NEW x \in T, NEW rest \in Seq(T)
  PROVE  /\ Range(<<x>> \o rest) = {x} \union Range(rest)
         /\ Len(<<x>> \o rest) = Len(rest) + 1
         /\ (<<x>> \o rest)[1] = x
         /\ \A i \in 1 .. Len(rest) : (<<x>> \o rest)[i + 1] = rest[i]
<1> DEFINE all == <<x>> \o rest
<1>1. <<x>> \in Seq(T) /\ Len(<<x>>) = 1 /\ <<x>>[1] = x  OBVIOUS
<1>2. /\ all \in Seq(T) /\ Len(all) = 1 + Len(rest)
      /\ \A i \in 1 .. 1 + Len(rest) : all[i] = IF i <= 1 THEN <<x>>[i] ELSE rest[i - 1]
  BY <1>1, ConcatProperties
<1> HIDE DEF all
<1>3. /\ Len(rest) \in Nat /\ DOMAIN rest = 1 .. Len(rest)
      /\ DOMAIN all = 1 .. Len(rest) + 1
  BY <1>2
<1>4. all[1] = x /\ \A i \in 1 .. Len(rest) : all[i + 1] = rest[i]
  BY <1>1, <1>2, <1>3
<1>5. ASSUME NEW y \in Range(all)  PROVE y \in {x} \union Range(rest)
  <2>1. PICK i \in 1 .. Len(rest) + 1 : y = all[i]  BY <1>3 DEF Range
  <2>2. i = 1 \/ (i - 1 \in 1 .. Len(rest) /\ (i - 1) + 1 = i)  BY <1>3
  <2>3. i = 1 \/ (i - 1 \in DOMAIN rest /\ y = rest[i - 1])  BY <1>3, <1>4, <2>1, <2>2
  <2> QED  BY <1>4, <2>1, <2>3 DEF Range
<1>6. ASSUME NEW y \in {x} \union Range(rest)  PROVE y \in Range(all)
  <2>1. CASE y = x
    <3>1. 1 \in DOMAIN all  BY <1>3
    <3> QED  BY <1>4, <2>1, <3>1 DEF Range
  <2>2. CASE y \in Range(rest)
    <3>1. PICK i \in 1 .. Len(rest) : y = rest[i]  BY <1>3, <2>2 DEF Range
    <3>2. i + 1 \in DOMAIN all  BY <1>3
    <3> QED  BY <1>4, <3>1, <3>2 DEF Range
  <2> QED  BY <2>1, <2>2
<1>7. Range(all) = {x} \union Range(rest)  BY <1>5, <1>6
<1> QED  BY <1>2, <1>3, <1>4, <1>7 DEF all

-----------------------------------------------------------------------------
(* tokenizeRange                                                            *)

\* The first offset from q on where a word cannot go on.
LEMMA WordEndIs ==
  ASSUME NEW C, NEW text \in Seq(C), NEW q \in 0 .. Len(text)
  PROVE  /\ WordEnd(text, q) \in q .. Len(text)
         /\ \A i \in q + 1 .. WordEnd(text, q) : text[i] \in WordChars
         /\ WordEnd(text, q) = Len(text) \/ text[WordEnd(text, q) + 1] \notin WordChars
<1> DEFINE E == {p \in q .. Len(text) - 1 : text[p + 1] \notin WordChars} \union {Len(text)}
           p == WordEnd(text, q)
<1>1. E \subseteq Nat /\ E # {}  OBVIOUS
<1>2. p \in E /\ \A y \in E : p <= y  BY <1>1, MinIsLeast, Zenon DEF WordEnd
<1> HIDE DEF p
<1>3. p \in q .. Len(text) /\ (p = Len(text) \/ text[p + 1] \notin WordChars)  BY <1>2
<1>4. ASSUME NEW i \in q + 1 .. p  PROVE text[i] \in WordChars
  <2>1. i - 1 \in q .. Len(text) - 1 /\ (i - 1) + 1 = i /\ ~ (p <= i - 1)  BY <1>3
  <2>2. i - 1 \notin E  BY <1>2, <2>1
  <2> QED  BY <2>1, <2>2
<1> QED  BY <1>3, <1>4 DEF p

\* toLower changes no lengths.
LEMMA ToLowerIs ==
  ASSUME NEW C, NEW text \in Seq(C)
  PROVE  /\ ToLower(text) \in Seq(C \union Lower)
         /\ Len(ToLower(text)) = Len(text)
         /\ \A i \in 1 .. Len(text) :
              /\ ToLower(text)[i] = IF text[i] \in Upper THEN LowerOf[text[i]] ELSE text[i]
              /\ ToLower(text)[i] \in WordChars <=> text[i] \in WordChars
<1> DEFINE t == ToLower(text)
<1>1. DOMAIN text = 1 .. Len(text) /\ Len(text) \in Nat  OBVIOUS
<1>2. t = [i \in 1 .. Len(text) |-> IF text[i] \in Upper THEN LowerOf[text[i]] ELSE text[i]]
  BY <1>1 DEF ToLower
<1>3. \A i \in 1 .. Len(text) : t[i] \in C \union Lower  BY <1>2, LettersAssumption
<1>4. t \in [1 .. Len(text) -> C \union Lower]  BY <1>2, <1>3
<1>5. t \in Seq(C \union Lower) /\ Len(t) = Len(text)  BY <1>1, <1>4
<1> QED  BY <1>2, <1>5, LettersAssumption DEF WordChars

\* The same of what becomes of a token.
LEMMA RangeToStrIs ==
  ASSUME NEW C, NEW text \in Seq(C), NEW lower \in BOOLEAN
  PROVE  /\ RangeToStr(text, lower) \in Seq(C \union Lower)
         /\ Len(RangeToStr(text, lower)) = Len(text)
         /\ \A i \in 1 .. Len(text) :
              RangeToStr(text, lower)[i] \in WordChars <=> text[i] \in WordChars
<1>1. text \in Seq(C \union Lower)  BY SeqMonotonic
<1> QED  BY <1>1, ToLowerIs DEF RangeToStr

\* Letters keep their places when a part is taken.
LEMMA LowerOfPart ==
  ASSUME NEW C, NEW text \in Seq(C), NEW lower \in BOOLEAN,
         NEW a \in 0 .. Len(text), NEW b \in a .. Len(text)
  PROVE  RangeToStr(SubSeq(text, a + 1, b), lower) = SubSeq(RangeToStr(text, lower), a + 1, b)
<1> DEFINE part == SubSeq(text, a + 1, b)
           t == ToLower(text)
<1>1. CASE ~lower  BY <1>1 DEF RangeToStr
<1>2. CASE lower
  <2>1. /\ part \in Seq(C) /\ Len(part) = b - a
        /\ \A i \in 1 .. b - a : part[i] = text[a + i]
    BY PartIs
  <2>2. /\ t \in Seq(C \union Lower) /\ Len(t) = Len(text)
        /\ \A i \in 1 .. Len(text) :
             t[i] = IF text[i] \in Upper THEN LowerOf[text[i]] ELSE text[i]
    BY ToLowerIs
  <2>3. /\ ToLower(part) \in Seq(C \union Lower) /\ Len(ToLower(part)) = b - a
        /\ \A i \in 1 .. b - a :
             ToLower(part)[i] = IF part[i] \in Upper THEN LowerOf[part[i]] ELSE part[i]
    BY <2>1, ToLowerIs
  <2> HIDE DEF t, part
  <2> DEFINE p == SubSeq(t, a + 1, b)
  <2>4. /\ p \in Seq(C \union Lower) /\ Len(p) = b - a
        /\ \A i \in 1 .. b - a : p[i] = t[a + i]
    BY <2>2, PartIs
  <2> HIDE DEF p
  <2>5. \A i \in 1 .. b - a : a + i \in 1 .. Len(text)  OBVIOUS
  <2>6. \A i \in 1 .. Len(p) : p[i] = ToLower(part)[i]  BY <2>1, <2>2, <2>3, <2>4, <2>5
  <2>7. p = ToLower(part)  BY <2>3, <2>4, <2>6, SeqEqual
  <2> QED  BY <1>2, <2>7 DEF p, part, t, RangeToStr
<1> QED  BY <1>1, <1>2

\* What tokenizeRange appends before it goes on from WordEnd.
TokenAt(text, lower, q) ==
    LET p == WordEnd(text, q) IN
    IF Kept(text, q, p) THEN << <<RangeToStr(SubSeq(text, q + 1, p), lower), p>> >> ELSE <<>>

\* The loop of tokenizeRange as an equation for the tokens from each offset on.
IsTokenLoop(from, text, lower, T) ==
    /\ from \in [0 .. Len(text) -> Seq(T \X Nat)]
    /\ \A q \in 0 .. Len(text) :
         from[q] = TokenAt(text, lower, q)
                   \o (IF WordEnd(text, q) = Len(text) THEN <<>> ELSE from[WordEnd(text, q) + 1])

\* What the loop of tokenizeRange puts together has its equation.
LEMMA TokensFrom ==
  ASSUME NEW C, NEW text \in Seq(C), NEW lower \in BOOLEAN
  PROVE  \E from : /\ IsTokenLoop(from, text, lower, Seq(C \union Lower))
                   /\ TokenizeRange(text, lower) = from[0]
<1> DEFINE n == Len(text)
           D == 0 .. n
           T == Seq(C \union Lower) \X Nat
           End(q) == WordEnd(text, q)
           Whole(f) == [q \in D |-> TokenAt(text, lower, q)
                                    \o (IF End(q) = n THEN <<>> ELSE f[End(q) + 1])]
           rank == [q \in D |-> n - q]
           stops == {q \in D : End(q) = n}
           value == [q \in D |-> TokenAt(text, lower, q)]
           next == [q \in D |-> End(q) + 1]
           step == [cv \in D \X Seq(T) |-> value[cv[1]] \o cv[2]]
<1>1. n \in Nat  OBVIOUS
<1>2. \A q \in D : End(q) \in q .. n  BY WordEndIs
<1>3. \A q \in D : value[q] \in Seq(T)
  <2> SUFFICES ASSUME NEW q \in D PROVE TokenAt(text, lower, q) \in Seq(T)  OBVIOUS
  <2>1. End(q) \in q .. n /\ q \in Nat  BY <1>2
  <2> DEFINE part == SubSeq(text, q + 1, End(q))
  <2>4. part \in Seq(C)  BY <2>1, PartIs
  <2>5. RangeToStr(part, lower) \in Seq(C \union Lower)
    <3> HIDE DEF part
    <3> QED  BY <2>4, RangeToStrIs
  <2>6. End(q) \in Nat  BY <2>1
  <2>7. <<RangeToStr(part, lower), End(q)>> \in T  BY <2>5, <2>6
  <2>8. TokenAt(text, lower, q) =
          IF Kept(text, q, End(q)) THEN << <<RangeToStr(part, lower), End(q)>> >> ELSE <<>>
    BY DEF TokenAt
  <2> HIDE DEF T, part, End
  <2> QED  BY <2>7, <2>8
<1>4. rank \in [D -> 0 .. n]  OBVIOUS
<1>5. \A q \in D : q \notin stops =>
         /\ next[q] \in D /\ rank[next[q]] < rank[q]
         /\ \A v \in Seq(T) : step[<<q, v>>] \in Seq(T)
  <2> SUFFICES ASSUME NEW q \in D, q \notin stops
               PROVE  /\ next[q] \in D /\ rank[next[q]] < rank[q]
                      /\ \A v \in Seq(T) : step[<<q, v>>] \in Seq(T)
    OBVIOUS
  <2>1. End(q) \in q .. n /\ End(q) # n  BY <1>2
  <2>2. End(q) + 1 \in D /\ n - (End(q) + 1) < n - q  BY <2>1
  <2>3. \A v \in Seq(T) : step[<<q, v>>] = value[q] \o v  OBVIOUS
  <2>4. value[q] \in Seq(T)  BY <1>3
  <2> HIDE DEF T, value, step
  <2>5. \A v \in Seq(T) : step[<<q, v>>] \in Seq(T)  BY <2>3, <2>4, ConcatProperties
  <2> QED  BY <2>2, <2>5
<1>6. PICK f : Solves(f, D, Seq(T), stops, value, next, step)
  <2>1. IsRecursion(D, Seq(T), n, rank, stops, value, next, step)
    <3> HIDE DEF T, D, n, End, value, step, next, rank, stops
    <3> QED  BY <1>1, <1>3, <1>4, <1>5 DEF IsRecursion
  <2> HIDE DEF T, D, n, End, value, step, next, rank, stops
  <2> QED  BY <2>1, RecursionExists
<1>10. /\ f \in [D -> Seq(T)]
       /\ \A q \in D : f[q] = IF q \in stops THEN value[q] ELSE step[<<q, f[next[q]]>>]
  <2> HIDE DEF T, D, n, End, value, step, next, rank, stops
  <2> QED  BY <1>6 DEF Solves
<1>7. f = Whole(f)
  <2> SUFFICES ASSUME NEW q \in D
               PROVE  f[q] = value[q] \o (IF End(q) = n THEN <<>> ELSE f[End(q) + 1])
    BY <1>10
  <2>1. CASE q \in stops
    <3>1. f[q] = value[q] /\ End(q) = n  BY <1>10, <2>1
    <3>2. value[q] \in Seq(T)  BY <1>3
    <3> HIDE DEF T, value, End
    <3>3. value[q] \o <<>> = value[q]  BY <3>2, ConcatEmptySeq
    <3> QED  BY <3>1, <3>3
  <2>2. CASE q \notin stops
    <3>1. End(q) # n /\ End(q) + 1 \in D  BY <1>5, <2>2
    <3>2. f[End(q) + 1] \in Seq(T)
      <4> HIDE DEF T, D, End
      <4> QED  BY <1>10, <3>1
    <3>3. f[q] = step[<<q, f[next[q]]>>]  BY <1>10, <2>2
    <3>4. next[q] = End(q) + 1  OBVIOUS
    <3>5. step[<<q, f[End(q) + 1]>>] = value[q] \o f[End(q) + 1]
      <4> HIDE DEF T, End, value
      <4> QED  BY <3>2
    <3> QED  BY <3>1, <3>3, <3>4, <3>5
  <2> QED  BY <2>1, <2>2
<1> DEFINE from == CHOOSE g : g = Whole(g)
<1>8. from = Whole(from)
  <2> HIDE DEF Whole
  <2> QED  BY <1>7, Zenon
<1>9. TokenizeRange(text, lower) = from[0]  BY Zenon DEF TokenizeRange, TokenAt
<1> HIDE DEF from
<1>11. \A q \in D : f[q] = from[q]
  <2>1. \A q \in D : \/ f[q] = from[q]
                     \/ /\ next[q] \in D /\ rank[next[q]] < rank[q]
                        /\ f[next[q]] = from[next[q]] => f[q] = from[q]
    <3> SUFFICES ASSUME NEW q \in D
                 PROVE  \/ f[q] = from[q]
                        \/ /\ next[q] \in D /\ rank[next[q]] < rank[q]
                           /\ f[next[q]] = from[next[q]] => f[q] = from[q]
      OBVIOUS
    <3>1. /\ f[q] = value[q] \o (IF End(q) = n THEN <<>> ELSE f[next[q]])
          /\ from[q] = value[q] \o (IF End(q) = n THEN <<>> ELSE from[next[q]])
      BY <1>7, <1>8
    <3> QED  BY <1>5, <3>1
  <2> HIDE DEF D, n, rank, next
  <2>2. AgreeIfNext(D, n, rank, next, f, from)  BY <1>1, <1>4, <2>1 DEF AgreeIfNext
  <2> QED  BY <2>2, RecursionsAgree
<1>12. f[0] = TokenizeRange(text, lower)  BY <1>1, <1>9, <1>11
<1>13. IsTokenLoop(f, text, lower, Seq(C \union Lower))  BY <1>7, <1>10 DEF IsTokenLoop
<1> QED  BY <1>12, <1>13

\* The words of a text that begin at an offset or after it.
WordsFrom(text, q) == {w \in Words(text) : q <= w[1]}

\* A place where a word may begin.
IsStart(text, q) == q = 0 \/ text[q] \notin WordChars

\* From such a place on, the first word ends at WordEnd, and if there is none none begins there.
LEMMA WordsFromStart ==
  ASSUME NEW C, NEW text \in Seq(C), NEW q \in 0 .. Len(text), IsStart(text, q)
  PROVE  WordsFrom(text, q) =
           (IF WordEnd(text, q) = q THEN {} ELSE {<<q, WordEnd(text, q)>>})
           \union (IF WordEnd(text, q) = Len(text) THEN {}
                   ELSE WordsFrom(text, WordEnd(text, q) + 1))
<1> DEFINE p == WordEnd(text, q)
           n == Len(text)
<1>1. /\ p \in q .. n
      /\ \A i \in q + 1 .. p : text[i] \in WordChars
      /\ p = n \/ text[p + 1] \notin WordChars
  BY WordEndIs
<1> HIDE DEF p
<1>2. n \in Nat  OBVIOUS
<1>3. ASSUME NEW w \in WordsFrom(text, q)
      PROVE  \/ p # q /\ w = <<q, p>>
             \/ p # n /\ w \in WordsFrom(text, p + 1)
  <2>1. /\ w \in (0 .. n) \X (0 .. n) /\ w[1] < w[2] /\ q <= w[1]
        /\ \A i \in w[1] + 1 .. w[2] : text[i] \in WordChars
        /\ w[1] = 0 \/ text[w[1]] \notin WordChars
        /\ w[2] = n \/ text[w[2] + 1] \notin WordChars
    BY DEF WordsFrom, Words
  <2>2. w = <<w[1], w[2]>> /\ w[1] \in 0 .. n /\ w[2] \in 0 .. n  BY <2>1
  <2>3. CASE w[1] = q
    <3>1. p # q
      <4> SUFFICES ASSUME p = q PROVE FALSE  OBVIOUS
      <4>1. q + 1 \in w[1] + 1 .. w[2] /\ q # n  BY <2>1, <2>2, <2>3
      <4> QED  BY <1>1, <2>1, <4>1
    <3>2. w[2] <= p
      <4> SUFFICES ASSUME p < w[2] PROVE FALSE  BY <1>1, <2>2
      <4>1. p + 1 \in w[1] + 1 .. w[2] /\ p # n  BY <1>1, <2>2, <2>3
      <4> QED  BY <1>1, <2>1, <4>1
    <3>3. p <= w[2]
      <4> SUFFICES ASSUME w[2] < p PROVE FALSE  BY <1>1, <2>2
      <4>1. w[2] + 1 \in q + 1 .. p /\ w[2] # n  BY <1>1, <2>1, <2>2, <2>3
      <4> QED  BY <1>1, <2>1, <4>1
    <3> QED  BY <1>1, <2>2, <2>3, <3>1, <3>2, <3>3
  <2>4. CASE w[1] # q
    <3>1. w[1] > p
      <4> SUFFICES ASSUME w[1] <= p PROVE FALSE  BY <1>1, <2>2
      <4>1. w[1] \in q + 1 .. p /\ w[1] # 0  BY <1>1, <2>1, <2>2, <2>4
      <4> QED  BY <1>1, <2>1, <4>1
    <3> QED  BY <1>1, <2>1, <2>2, <3>1 DEF WordsFrom
  <2> QED  BY <2>3, <2>4
<1>4. p # q => <<q, p>> \in WordsFrom(text, q)
  <2> SUFFICES ASSUME p # q PROVE <<q, p>> \in WordsFrom(text, q)  OBVIOUS
  <2>1. q \in 0 .. n /\ p \in 0 .. n /\ q < p  BY <1>1
  <2> QED  BY <1>1, <2>1 DEF WordsFrom, Words, IsStart
<1>5. p # n => WordsFrom(text, p + 1) \subseteq WordsFrom(text, q)
  <2> SUFFICES ASSUME NEW w \in Words(text), p + 1 <= w[1]  PROVE q <= w[1]  BY DEF WordsFrom
  <2>1. w[1] \in 0 .. n  BY DEF Words
  <2> QED  BY <1>1, <2>1
<1> QED  BY <1>3, <1>4, <1>5 DEF p

\* What a list of tokens says of the words from an offset on.
Lists(tokens, text, lower, q) ==
    /\ Range(tokens) = {<<RangeToStr(Word(text, w), lower), w[2]>> : w \in WordsFrom(text, q)}
    /\ \A n \in 1 .. Len(tokens) - 1 : tokens[n][2] < tokens[n + 1][2]
    /\ \A n \in 1 .. Len(tokens) : q < tokens[n][2]

\* One token is put before the others.
LEMMA ListsOneMore ==
  ASSUME NEW C, NEW text \in Seq(C), NEW lower \in BOOLEAN,
         NEW T, NEW rest \in Seq(T \X Nat), NEW q \in 0 .. Len(text), IsStart(text, q),
         TokenAt(text, lower, q) \in Seq(T \X Nat),
         IF WordEnd(text, q) = Len(text) THEN rest = <<>>
         ELSE Lists(rest, text, lower, WordEnd(text, q) + 1)
  PROVE  Lists(TokenAt(text, lower, q) \o rest, text, lower, q)
<1> DEFINE p == WordEnd(text, q)
           n == Len(text)
           head == TokenAt(text, lower, q)
           all == head \o rest
           Tok(w) == <<RangeToStr(Word(text, w), lower), w[2]>>
<1>1. p \in q .. n /\ n \in Nat /\ q \in Nat  BY WordEndIs
<1>2. head = IF p = q THEN <<>> ELSE <<Tok(<<q, p>>)>>  BY DEF TokenAt, Kept, Word
<1>3. /\ all \in Seq(T \X Nat) /\ Len(all) = Len(head) + Len(rest)
      /\ \A i \in 1 .. Len(head) + Len(rest) :
           all[i] = IF i <= Len(head) THEN head[i] ELSE rest[i - Len(head)]
  BY ConcatProperties
<1>4. Range(rest) = {Tok(w) : w \in IF p = n THEN {} ELSE WordsFrom(text, p + 1)}
  <2>1. CASE p = n
    <3>1. rest = <<>>  BY <2>1
    <3> QED  BY <2>1, <3>1 DEF Range
  <2>2. CASE p # n  BY <2>2 DEF Lists
  <2> QED  BY <2>1, <2>2
<1>5. \A i \in 1 .. Len(rest) : p < rest[i][2]
  <2>1. CASE p = n
    <3>1. rest = <<>>  BY <2>1
    <3> QED  BY <3>1
  <2>2. CASE p # n
    <3>1. \A i \in 1 .. Len(rest) : p + 1 < rest[i][2] /\ rest[i][2] \in Nat  BY <2>2 DEF Lists
    <3> QED  BY <1>1, <3>1
  <2> QED  BY <2>1, <2>2
<1>6. \A i \in 1 .. Len(rest) - 1 : rest[i][2] < rest[i + 1][2]
  <2>1. CASE p = n
    <3>1. rest = <<>>  BY <2>1
    <3> QED  BY <3>1
  <2>2. CASE p # n  BY <2>2 DEF Lists
  <2> QED  BY <2>1, <2>2
<1>7. WordsFrom(text, q) = (IF p = q THEN {} ELSE {<<q, p>>})
                           \union (IF p = n THEN {} ELSE WordsFrom(text, p + 1))
  BY WordsFromStart
<1>8. CASE p = q
  <2>1. head = <<>>  BY <1>2, <1>8
  <2>2. all = rest  BY <2>1, ConcatEmptySeq
  <2>3. Range(all) = {Tok(w) : w \in WordsFrom(text, q)}  BY <1>4, <1>7, <1>8, <2>2
  <2> HIDE DEF all, head, p
  <2> QED  BY <1>5, <1>6, <1>8, <2>2, <2>3 DEF Lists, all, head
<1>9. CASE p # q
  <2>1. head = <<Tok(<<q, p>>)>> /\ Len(head) = 1 /\ head[1] = Tok(<<q, p>>)  BY <1>2, <1>9
  <2>2. head[1][2] = p  BY <2>1
  <2>3. head[1] \in T \X Nat  BY <2>1
  <2> HIDE DEF head, p, Tok
  <2>4. all = <<head[1]>> \o rest  BY <2>1
  <2> HIDE DEF all
  <2>5. /\ Range(all) = {head[1]} \union Range(rest)
        /\ Len(all) = Len(rest) + 1 /\ Len(rest) \in Nat
        /\ all[1] = head[1]
        /\ \A i \in 1 .. Len(rest) : all[i + 1] = rest[i]
    <3> DEFINE U == T \X Nat
               x == head[1]
    <3>1. x \in U /\ rest \in Seq(U) /\ all = <<x>> \o rest  BY <2>3, <2>4
    <3> HIDE DEF U, x
    <3>2. /\ Range(all) = {x} \union Range(rest)
          /\ Len(all) = Len(rest) + 1 /\ Len(rest) \in Nat
          /\ all[1] = x
          /\ \A i \in 1 .. Len(rest) : all[i + 1] = rest[i]
      BY <3>1, RangeOneMore
    <3> QED  BY <3>2 DEF x
  <2>6. Range(all) = {Tok(w) : w \in WordsFrom(text, q)}
    BY <1>4, <1>7, <1>9, <2>1, <2>5
  <2>7. \A i \in 1 .. Len(all) - 1 : all[i][2] < all[i + 1][2]
    <3> SUFFICES ASSUME NEW i \in 1 .. Len(all) - 1  PROVE all[i][2] < all[i + 1][2]  OBVIOUS
    <3>1. CASE i = 1
      <4>1. 1 \in 1 .. Len(rest)  BY <2>5, <3>1
      <4> QED  BY <1>5, <2>2, <2>5, <3>1, <4>1
    <3>2. CASE i # 1
      <4>1. i - 1 \in 1 .. Len(rest) - 1 /\ i - 1 \in 1 .. Len(rest) /\ i \in 1 .. Len(rest)
            /\ (i - 1) + 1 = i
        BY <2>5, <3>2
      <4>2. all[i] = rest[i - 1] /\ all[i + 1] = rest[i]  BY <2>5, <4>1
      <4>3. rest[i - 1][2] < rest[(i - 1) + 1][2]  BY <1>6, <4>1
      <4> QED  BY <4>1, <4>2, <4>3
    <3> QED  BY <3>1, <3>2
  <2>8. \A i \in 1 .. Len(all) : q < all[i][2]
    <3> SUFFICES ASSUME NEW i \in 1 .. Len(all)  PROVE q < all[i][2]  OBVIOUS
    <3>1. CASE i = 1  BY <1>1, <1>9, <2>2, <2>5, <3>1
    <3>2. CASE i # 1
      <4>1. i - 1 \in 1 .. Len(rest) /\ (i - 1) + 1 = i  BY <2>5, <3>2
      <4>2. all[i] = rest[i - 1] /\ p < rest[i - 1][2] /\ rest[i - 1][2] \in Nat
        BY <1>5, <2>5, <4>1
      <4> QED  BY <1>1, <4>2
    <3> QED  BY <3>1, <3>2
  <2> QED  BY <2>6, <2>7, <2>8 DEF Lists, all, head, Tok
<1> QED  BY <1>8, <1>9

\* The tokens are the words, in order.
LEMMA TokensListWords ==
  ASSUME NEW C, NEW text \in Seq(C), NEW lower \in BOOLEAN
  PROVE  /\ TokenizeRange(text, lower) \in Seq(Seq(C \union Lower) \X Nat)
         /\ Lists(TokenizeRange(text, lower), text, lower, 0)
<1> DEFINE n == Len(text)
           T == Seq(C \union Lower)
<1>0. PICK from : IsTokenLoop(from, text, lower, T) /\ TokenizeRange(text, lower) = from[0]
  BY TokensFrom
<1>1. /\ from \in [0 .. n -> Seq(T \X Nat)]
      /\ TokenizeRange(text, lower) = from[0]
      /\ \A q \in 0 .. n :
           from[q] = TokenAt(text, lower, q)
                     \o (IF WordEnd(text, q) = n THEN <<>> ELSE from[WordEnd(text, q) + 1])
  BY <1>0 DEF IsTokenLoop
<1> DEFINE Right(q) == IsStart(text, q) => Lists(from[q], text, lower, q)
           Wrong == {d \in 0 .. n : ~ Right(n - d)}
<1>2. Wrong = {}
  <2> SUFFICES ASSUME Wrong # {} PROVE FALSE  OBVIOUS
  <2>1. PICK d \in Wrong : \A e \in Wrong : d <= e
    <3>1. Wrong \subseteq Nat  OBVIOUS
    <3> HIDE DEF Wrong
    <3> QED  BY <3>1, LeastNatural
  <2> DEFINE q == n - d
             p == WordEnd(text, q)
             rest == IF p = n THEN <<>> ELSE from[p + 1]
  <2>2. /\ n \in Nat /\ d \in 0 .. n /\ q \in 0 .. n
        /\ IsStart(text, q) /\ ~ Lists(from[q], text, lower, q)
    OBVIOUS
  <2> HIDE DEF q
  <2>3. p \in q .. n /\ (p = n \/ text[p + 1] \notin WordChars)  BY <2>2, WordEndIs
  <2>4. from[q] = TokenAt(text, lower, q) \o rest  BY <1>1, <2>2
  <2>5. p # n => Lists(from[p + 1], text, lower, p + 1)
    <3> SUFFICES ASSUME p # n PROVE Lists(from[p + 1], text, lower, p + 1)  OBVIOUS
    <3>1. p + 1 \in 0 .. n /\ n - (p + 1) \in 0 .. n /\ n - (n - (p + 1)) = p + 1
          /\ ~ (d <= n - (p + 1))
      BY <2>2, <2>3 DEF q
    <3>2. Right(p + 1)  BY <2>1, <3>1
    <3>3. IsStart(text, p + 1)  BY <2>3, <3>1 DEF IsStart
    <3> QED  BY <3>2, <3>3
  <2>6. rest \in Seq(T \X Nat)
    <3>1. p # n => p + 1 \in 0 .. n  BY <2>2, <2>3
    <3> HIDE DEF T, p
    <3> QED  BY <3>1, <1>1
  <2>7. TokenAt(text, lower, q) \in Seq(T \X Nat)
    <3>1. from[q] \in Seq(T \X Nat)  BY <1>1, <2>2
    <3>2. SubSeq(text, q + 1, p) \in Seq(C)  BY <2>2, <2>3, PartIs
    <3>3. RangeToStr(SubSeq(text, q + 1, p), lower) \in T  BY <3>2, RangeToStrIs
    <3>4. p \in Nat  BY <2>3, <2>2
    <3> DEFINE x == <<RangeToStr(SubSeq(text, q + 1, p), lower), p>>
    <3>5. TokenAt(text, lower, q) = IF Kept(text, q, p) THEN <<x>> ELSE <<>>  BY DEF TokenAt
    <3>6. x \in T \X Nat  BY <3>3, <3>4
    <3> DEFINE U == T \X Nat
    <3> HIDE DEF x, U
    <3>7. x \in U  BY <3>6 DEF U
    <3>8. TokenAt(text, lower, q) \in Seq(U)  BY <3>5, <3>7
    <3> QED  BY <3>8 DEF U
  <2>8. IF p = n THEN rest = <<>> ELSE Lists(rest, text, lower, p + 1)  BY <2>5
  <2> HIDE DEF T, rest
  <2>9. Lists(TokenAt(text, lower, q) \o rest, text, lower, q)
    BY <2>2, <2>6, <2>7, <2>8, ListsOneMore
  <2> QED  BY <2>2, <2>4, <2>9
<1>3. n \in Nat /\ n \in 0 .. n /\ n - n = 0  OBVIOUS
<1>4. Right(0)  BY <1>2, <1>3
<1>5. 0 \in 0 .. n /\ IsStart(text, 0)  BY DEF IsStart
<1> HIDE DEF T
<1>6. from[0] \in Seq(T \X Nat)  BY <1>1, <1>5
<1> QED  BY <1>1, <1>4, <1>5, <1>6 DEF T

\* What a mapped file shows is the beginning of it.
LEMMA ViewIs ==
  ASSUME NEW C, NEW text \in Seq(C)
  PROVE  View(text) \in Seq(C)
<1> DEFINE nuls == {i \in DOMAIN text : text[i] = Nul}
<1>1. CASE nuls = {}  BY <1>1 DEF View
<1>2. CASE nuls # {}
  <2>1. nuls \subseteq Nat /\ DOMAIN text = 1 .. Len(text)  OBVIOUS
  <2>2. Min(nuls) \in nuls  BY <1>2, <2>1, MinIsLeast
  <2>3. Min(nuls) \in 1 .. Len(text)  BY <2>1, <2>2
  <2> DEFINE b == Min(nuls) - 1
  <2>4. 0 \in 0 .. Len(text) /\ b \in 0 .. Len(text)  BY <2>3
  <2> HIDE DEF b
  <2>5. SubSeq(text, 0 + 1, b) \in Seq(C)  BY <2>4, PartIs
  <2> QED  BY <1>2, <2>5 DEF View, b
<1> QED  BY <1>1, <1>2

\* The tokens of a file are its words.
LEMMA TokensRight == ASSUME file \in Seq(FileChars) PROVE TokensAreWords
<1> DEFINE text == View(file)
           tokens == IndexedTokens(file, FALSE)
<1>1. text \in Seq(FileChars)  BY ViewIs
<1> HIDE DEF text
<1>2. tokens = TokenizeRange(text, FALSE)  BY DEF IndexedTokens, text
<1>3. Lists(tokens, text, FALSE, 0) /\ tokens \in Seq(Seq(FileChars \union Lower) \X Nat)
  BY <1>1, <1>2, TokensListWords
<1>4. WordsFrom(text, 0) = Words(text)
  <2>1. \A w \in Words(text) : w[1] \in Nat  BY DEF Words
  <2> QED  BY <2>1 DEF WordsFrom
<1>5. \A w : RangeToStr(Word(text, w), FALSE) = Word(text, w)  BY DEF RangeToStr
<1> HIDE DEF tokens
<1>6. Range(tokens) = {<<Word(text, w), w[2]>> : w \in Words(text)}
  BY <1>3, <1>4 DEF Lists, RangeToStr
<1> QED  BY <1>3, <1>6 DEF Lists, TokensAreWords, text, tokens

\* A text has its words where it has them in lower case.
LEMMA SameWordEnds ==
  ASSUME NEW C, NEW text \in Seq(C), NEW lower \in BOOLEAN, NEW q \in 0 .. Len(text)
  PROVE  /\ WordEnd(RangeToStr(text, lower), q) = WordEnd(text, q)
         /\ TokenAt(RangeToStr(text, lower), FALSE, q) = TokenAt(text, lower, q)
<1> DEFINE t == RangeToStr(text, lower)
           n == Len(text)
           p == WordEnd(text, q)
<1>1. n \in Nat /\ Len(t) = n /\ \A i \in 1 .. n : t[i] \in WordChars <=> text[i] \in WordChars
  <2>1. /\ Len(RangeToStr(text, lower)) = Len(text)
        /\ \A i \in 1 .. Len(text) :
             RangeToStr(text, lower)[i] \in WordChars <=> text[i] \in WordChars
    BY RangeToStrIs, Zenon
  <2>2. Len(text) \in Nat  OBVIOUS
  <2> QED  BY <2>1, <2>2, Zenon
<1>2. WordEnd(t, q) = p
  <2> HIDE DEF t
  <2>1. {e \in q .. Len(t) - 1 : t[e + 1] \notin WordChars}
          = {e \in q .. Len(text) - 1 : text[e + 1] \notin WordChars}
    <3>1. \A e \in q .. n - 1 : e + 1 \in 1 .. n  BY <1>1
    <3> QED  BY <1>1, <3>1
  <2> QED  BY <1>1, <2>1 DEF WordEnd
<1>3. p \in q .. n  BY WordEndIs
<1>4. RangeToStr(SubSeq(text, q + 1, p), lower) = SubSeq(t, q + 1, p)  BY <1>3, LowerOfPart
<1>5. RangeToStr(SubSeq(t, q + 1, p), FALSE) = SubSeq(t, q + 1, p)  BY DEF RangeToStr
<1> HIDE DEF t, p
<1> DEFINE x == RangeToStr(SubSeq(text, q + 1, p), lower)
           y == RangeToStr(SubSeq(t, q + 1, p), FALSE)
<1>6. x = y  BY <1>4, <1>5
<1>7. TokenAt(text, lower, q) = IF p # q THEN << <<x, p>> >> ELSE <<>>  BY DEF TokenAt, Kept, p
<1>8. TokenAt(t, FALSE, q) = IF p # q THEN << <<y, p>> >> ELSE <<>>
  BY <1>2 DEF TokenAt, Kept
<1> HIDE DEF x, y
<1>9. TokenAt(t, FALSE, q) = TokenAt(text, lower, q)
  <2>1. CASE p = q
    <3>1. TokenAt(text, lower, q) = <<>>  BY <1>7, <2>1
    <3>2. TokenAt(t, FALSE, q) = <<>>  BY <1>8, <2>1
    <3> QED  BY <3>1, <3>2
  <2>2. CASE p # q
    <3>1. TokenAt(text, lower, q) = << <<x, p>> >>  BY <1>7, <2>2
    <3>2. TokenAt(t, FALSE, q) = << <<y, p>> >>  BY <1>8, <2>2
    <3> QED  BY <1>6, <3>1, <3>2
  <2> QED  BY <2>1, <2>2
<1> QED  BY <1>2, <1>9 DEF t, p

\* It is the same to change the case of the text and of its tokens.
LEMMA TokenizeLower ==
  ASSUME NEW C, NEW text \in Seq(C), NEW lower \in BOOLEAN
  PROVE  TokenizeRange(RangeToStr(text, lower), FALSE) = TokenizeRange(text, lower)
<1> DEFINE t == RangeToStr(text, lower)
           n == Len(text)
           D == 0 .. n
           rank == [q \in D |-> n - q]
           next == [q \in D |-> WordEnd(text, q) + 1]
           L == C \union Lower
<1>1. n \in Nat /\ Len(t) = n /\ t \in Seq(L)  BY RangeToStrIs
<1>2. PICK f : /\ IsTokenLoop(f, text, lower, Seq(L))
               /\ TokenizeRange(text, lower) = f[0]
  BY TokensFrom
<1> HIDE DEF L
<1>3. PICK g : /\ IsTokenLoop(g, t, FALSE, Seq(L \union Lower))
               /\ TokenizeRange(t, FALSE) = g[0]
  <2> HIDE DEF t
  <2> QED  BY <1>1, TokensFrom
<1>4. ASSUME NEW q \in D
      PROVE  \/ f[q] = g[q]
             \/ /\ next[q] \in D /\ rank[next[q]] < rank[q]
                /\ f[next[q]] = g[next[q]] => f[q] = g[q]
  <2>1. /\ WordEnd(t, q) = WordEnd(text, q)
        /\ TokenAt(t, FALSE, q) = TokenAt(text, lower, q)
    BY SameWordEnds
  <2>2. f[q] = TokenAt(text, lower, q)
               \o (IF WordEnd(text, q) = n THEN <<>> ELSE f[WordEnd(text, q) + 1])
    BY <1>2 DEF IsTokenLoop
  <2>3. g[q] = TokenAt(text, lower, q)
               \o (IF WordEnd(text, q) = n THEN <<>> ELSE g[WordEnd(text, q) + 1])
    <3> HIDE DEF t
    <3>1. g[q] = TokenAt(t, FALSE, q)
                 \o (IF WordEnd(t, q) = n THEN <<>> ELSE g[WordEnd(t, q) + 1])
      BY <1>1, <1>3 DEF IsTokenLoop
    <3> QED  BY <2>1, <3>1
  <2>4. WordEnd(text, q) \in q .. n  BY WordEndIs
  <2>5. CASE WordEnd(text, q) = n  BY <2>2, <2>3, <2>5
  <2>6. CASE WordEnd(text, q) # n
    <3>1. next[q] \in D /\ rank[next[q]] < rank[q]  BY <2>4, <2>6
    <3>2. next[q] = WordEnd(text, q) + 1  OBVIOUS
    <3> HIDE DEF next
    <3> QED  BY <2>2, <2>3, <2>6, <3>1, <3>2
  <2> QED  BY <2>5, <2>6
<1>5. rank \in [D -> 0 .. n]  BY <1>1
<1>6. 0 \in D  BY <1>1
<1> HIDE DEF D, n, rank, next
<1>7. AgreeIfNext(D, n, rank, next, f, g)  BY <1>1, <1>4, <1>5 DEF AgreeIfNext
<1>8. f[0] = g[0]  BY <1>6, <1>7, RecursionsAgree
<1> QED  BY <1>2, <1>3, <1>8

\* A word by itself is one token.
LEMMA WordIsOneToken ==
  ASSUME NEW C, NEW text \in Seq(C), Len(text) # 0,
         \A i \in 1 .. Len(text) : text[i] \in WordChars
  PROVE  TokenizeRange(text, FALSE) = << <<text, Len(text)>> >>
<1> DEFINE n == Len(text)
           L == C \union Lower
<1>1. PICK from : /\ IsTokenLoop(from, text, FALSE, Seq(L))
                  /\ TokenizeRange(text, FALSE) = from[0]
  BY TokensFrom
<1>2. n \in Nat /\ 0 \in 0 .. n  OBVIOUS
<1>3. WordEnd(text, 0) = n
  <2>1. /\ WordEnd(text, 0) \in 0 .. n
        /\ WordEnd(text, 0) = n \/ text[WordEnd(text, 0) + 1] \notin WordChars
    BY <1>2, WordEndIs
  <2>2. WordEnd(text, 0) # n => WordEnd(text, 0) + 1 \in 1 .. n  BY <2>1
  <2> QED  BY <2>1, <2>2
<1>4. from[0] = TokenAt(text, FALSE, 0) \o <<>>  BY <1>1, <1>2, <1>3 DEF IsTokenLoop
<1>5. SubSeq(text, 0 + 1, n) = text
  <2>1. 0 + 1 = 1  OBVIOUS
  <2> QED  BY <2>1, SubSeqFull
<1>6. TokenAt(text, FALSE, 0) = << <<text, n>> >>
  BY <1>3, <1>5 DEF TokenAt, Kept, RangeToStr
<1>7. << <<text, n>> >> \o <<>> = << <<text, n>> >>  OBVIOUS
<1> QED  BY <1>1, <1>4, <1>6, <1>7

\* What a file was indexed under is what a query for it looks for.
LEMMA QueriesRight == ASSUME file \in Seq(FileChars) PROVE QueryFindsIndexed
<1> DEFINE text == View(file)
<1>1. text \in Seq(FileChars)  BY ViewIs
<1> HIDE DEF text
<1> SUFFICES ASSUME NEW lower \in BOOLEAN
             PROVE  /\ QueryTokens(text, lower) =
                         [n \in DOMAIN IndexedTokens(file, lower) |->
                            IndexedTokens(file, lower)[n][1]]
                    /\ \A w \in Words(text) :
                         /\ <<SearchedToken(Word(text, w), lower), w[2]>>
                              \in Range(IndexedTokens(file, lower))
                         /\ QueryTokens(Word(text, w), lower)
                              = <<SearchedToken(Word(text, w), lower)>>
                         /\ (ErasedToken(Word(text, w), lower)
                               = SearchedToken(Word(text, w), lower))
                            <=> (lower => ToLower(Word(text, w)) = Word(text, w))
  BY DEF QueryFindsIndexed, text
<1> DEFINE tokens == TokenizeRange(text, lower)
<1>2. IndexedTokens(file, lower) = tokens  BY DEF IndexedTokens, text
<1>3. QueryTokens(text, lower) = [n \in DOMAIN tokens |-> tokens[n][1]]
  BY <1>1, TokenizeLower DEF QueryTokens
<1>4. ASSUME NEW w \in Words(text)
      PROVE  /\ <<SearchedToken(Word(text, w), lower), w[2]>> \in Range(tokens)
             /\ QueryTokens(Word(text, w), lower) = <<SearchedToken(Word(text, w), lower)>>
             /\ (ErasedToken(Word(text, w), lower) = SearchedToken(Word(text, w), lower))
                  <=> (lower => ToLower(Word(text, w)) = Word(text, w))
  <2> DEFINE word == Word(text, w)
             t == RangeToStr(word, lower)
  <2>1. /\ w[1] \in 0 .. Len(text) /\ w[2] \in w[1] .. Len(text) /\ w[1] < w[2]
        /\ \A i \in w[1] + 1 .. w[2] : text[i] \in WordChars
    BY DEF Words
  <2>2. word \in Seq(FileChars) /\ Len(word) = w[2] - w[1]
        /\ \A i \in 1 .. w[2] - w[1] : word[i] = text[w[1] + i]
    BY <1>1, <2>1, PartIs DEF Word
  <2>3. Len(word) # 0 /\ \A i \in 1 .. Len(word) : word[i] \in WordChars
    <3> HIDE DEF word
    <3>1. Len(word) # 0  BY <2>1, <2>2
    <3>2. ASSUME NEW i \in 1 .. Len(word)  PROVE word[i] \in WordChars
      <4>1. i \in 1 .. w[2] - w[1] /\ w[1] + i \in w[1] + 1 .. w[2]  BY <2>1, <2>2
      <4>2. word[i] = text[w[1] + i]  BY <2>2, <4>1
      <4> QED  BY <2>1, <4>1, <4>2
    <3> QED  BY <3>1, <3>2
  <2>4. <<t, w[2]>> \in Range(tokens)
    <3>1. Lists(tokens, text, lower, 0)  BY <1>1, TokensListWords
    <3>2. w \in WordsFrom(text, 0)  BY <2>1 DEF WordsFrom
    <3> HIDE DEF tokens
    <3> QED  BY <3>1, <3>2 DEF Lists
  <2> HIDE DEF word
  <2>5. t \in Seq(FileChars \union Lower) /\ Len(t) # 0
        /\ \A i \in 1 .. Len(t) : t[i] \in WordChars
    BY <2>2, <2>3, RangeToStrIs
  <2> HIDE DEF t
  <2>6. TokenizeRange(t, FALSE) = << <<t, Len(t)>> >>  BY <2>5, WordIsOneToken
  <2>7. QueryTokens(word, lower) = <<t>>
    <3>1. QueryTokens(word, lower) =
            [n \in DOMAIN << <<t, Len(t)>> >> |-> << <<t, Len(t)>> >>[n][1]]
      BY <2>6 DEF QueryTokens, t
    <3> QED  BY <3>1
  <2>8. SearchedToken(word, lower) = t  BY DEF SearchedToken, t
  <2>9. (ErasedToken(word, lower) = t) <=> (lower => ToLower(word) = word)
    BY DEF ErasedToken, t, RangeToStr
  <2> HIDE DEF tokens
  <2> QED  BY <2>4, <2>7, <2>8, <2>9 DEF word
<1> QED  BY <1>2, <1>3, <1>4

-----------------------------------------------------------------------------
(* contextualize                                                            *)

\* Where the cursors come to rest that start at l and r: one of them at an end of the text,
\* or each at a delimiter, past which the left one steps.
RestsAt(c, text, l, r) ==
    \/ /\ c \in Int \X Int
       /\ c[1] <= l /\ r <= c[2]
       /\ c[1] <= 0 \/ Len(text) <= c[2]
    \/ \E a \in 1 .. l, b \in r .. Len(text) - 1 :
         c = <<a + 1, b>> /\ IsDelim(text, a) /\ IsDelim(text, b)

\* Each turn of the loop brings a cursor closer to an end of the text,
LEMMA RankFalls ==
  ASSUME NEW a \in Int, NEW b \in Int, NEW c \in Int, NEW d \in Int, NEW n \in Int, NEW m \in Int,
         a - b < c - d
  PROVE  (a + m) + (n + m - b) < (c + m) + (n + m - d)
OBVIOUS

\* a cursor that goes on stays in the text,
LEMMA WithinIs ==
  ASSUME NEW c \in Int, NEW d \in Int, NEW n \in Int, c > 0, d < n
  PROVE  c \in 1 .. c /\ d \in d .. n - 1
OBVIOUS

\* its distance from there is bounded,
LEMMA CursorsIn ==
  ASSUME NEW n \in Nat, NEW m \in Nat, NEW c \in (-m .. n) \X (0 .. n + m)
  PROVE  /\ c[1] \in Int /\ c[2] \in Int /\ c = <<c[1], c[2]>>
         /\ -m <= c[1] /\ c[1] <= n /\ 0 <= c[2] /\ c[2] <= n + m
OBVIOUS

LEMMA RankIn ==
  ASSUME NEW n \in Nat, NEW m \in Nat, NEW a \in Int, NEW b \in Int,
         -m <= a, a <= n, 0 <= b, b <= n + m
  PROVE  (a + m) + (n + m - b) \in 0 .. (n + m) + (n + m)
OBVIOUS

\* and the cursors settle around where they started, at delimiters or at the ends.
LEMMA SettledIs ==
  ASSUME NEW C, NEW text \in Seq(C),
         NEW l \in -Reach .. Len(text), NEW r \in 0 .. Len(text) + Reach
  PROVE  RestsAt(Settled(text, l, r), text, l, r)
<1> DEFINE size == Len(text)
           D == (-Reach .. size) \X (0 .. size + Reach)
           V == Int \X Int
           N == (size + Reach) + (size + Reach)
           Goes(c) == c[1] > 0 /\ c[2] < size
           AtDelim(i) == IsDelim(text, i)
           next == [c \in D |-> <<IF ~AtDelim(c[1]) THEN c[1] - 1 ELSE c[1],
                                  IF ~AtDelim(c[2]) THEN c[2] + 1 ELSE c[2]>>]
           rank == [c \in D |-> (c[1] + Reach) + (size + Reach - c[2])]
           stops == {c \in D : ~Goes(c) \/ (AtDelim(c[1]) /\ AtDelim(c[2]))}
           value == [c \in D |-> IF ~Goes(c) THEN c ELSE <<c[1] + 1, c[2]>>]
           step == [cv \in D \X V |-> cv[2]]
           Whole(f) ==
             [c \in D |-> LET left == ~IsDelim(text, c[1])
                              right == ~IsDelim(text, c[2])
                          IN IF ~(c[1] > 0 /\ c[2] < size) THEN c
                             ELSE IF ~left /\ ~right THEN <<c[1] + 1, c[2]>>
                             ELSE f[<<IF left THEN c[1] - 1 ELSE c[1],
                                      IF right THEN c[2] + 1 ELSE c[2]>>]]
           loop == CHOOSE f : f = Whole(f)
<1>1. size \in Nat /\ Reach \in Nat /\ Reach >= 1  BY ReachAssumption
<1> HIDE DEF size, AtDelim
<1>2. \A c \in D : /\ c[1] \in Int /\ c[2] \in Int /\ c = <<c[1], c[2]>>
                   /\ -Reach <= c[1] /\ c[1] <= size /\ 0 <= c[2] /\ c[2] <= size + Reach
  <2> HIDE DEF N, rank, next, stops, value, step, Whole, loop
  <2> QED  BY <1>1, CursorsIn DEF D
<1>3. rank \in [D -> 0 .. N]
  <2> SUFFICES ASSUME NEW c \in D
               PROVE  (c[1] + Reach) + (size + Reach - c[2]) \in 0 .. N
    OBVIOUS
  <2> HIDE DEF D, rank, next, stops, value, step, Whole, loop
  <2> QED  BY <1>1, <1>2, RankIn DEF N
<1>4. ASSUME NEW c \in D, c \notin stops
      PROVE  next[c] \in D /\ rank[next[c]] < rank[c] /\ Goes(c)
  <2>1. Goes(c) /\ (~AtDelim(c[1]) \/ ~AtDelim(c[2]))  BY <1>4
  <2> DEFINE a == IF ~AtDelim(c[1]) THEN c[1] - 1 ELSE c[1]
             b == IF ~AtDelim(c[2]) THEN c[2] + 1 ELSE c[2]
  <2>2. next[c] = <<a, b>>  OBVIOUS
  <2>3. a \in -Reach .. size /\ b \in 0 .. size + Reach /\ a - b < c[1] - c[2]
    BY <1>1, <1>2, <2>1
  <2>4. <<a, b>> \in D  BY <2>3
  <2>5. rank[<<a, b>>] = (a + Reach) + (size + Reach - b)  BY <2>4
  <2>6. rank[c] = (c[1] + Reach) + (size + Reach - c[2])  OBVIOUS
  <2>7. a \in Int /\ b \in Int /\ c[1] \in Int /\ c[2] \in Int  BY <1>1, <1>2, <2>3
  <2> HIDE DEF a, b, rank, next
  <2>8. a - b < c[1] - c[2] /\ size \in Int /\ Reach \in Int  BY <1>1, <2>3
  <2>9. rank[<<a, b>>] < rank[c]  BY <2>5, <2>6, <2>7, <2>8, RankFalls
  <2> QED  BY <2>1, <2>2, <2>4, <2>9
<1>5. \A c \in D : value[c] \in V  BY <1>1, <1>2
<1>6. IsRecursion(D, V, N, rank, stops, value, next, step)
  <2>1. \A c \in D, v \in V : step[<<c, v>>] \in V  OBVIOUS
  <2>2. N \in Nat  BY <1>1
  <2> HIDE DEF D, V, N, rank, stops, value, next, step
  <2> QED  BY <1>3, <1>4, <1>5, <2>1, <2>2 DEF IsRecursion
<1>7. PICK f : Solves(f, D, V, stops, value, next, step)
  <2> HIDE DEF D, V, N, rank, stops, value, next, step
  <2> QED  BY <1>6, RecursionExists
<1>8. /\ f \in [D -> V]
      /\ \A c \in D : f[c] = IF c \in stops THEN value[c] ELSE step[<<c, f[next[c]]>>]
  <2> HIDE DEF D, V, stops, value, next, step
  <2> QED  BY <1>7 DEF Solves
<1>9. \A c \in D : f[c] = IF c \in stops THEN value[c] ELSE f[next[c]]
  <2> SUFFICES ASSUME NEW c \in D, c \notin stops  PROVE f[c] = f[next[c]]  BY <1>8
  <2>1. f[next[c]] \in V  BY <1>4, <1>8
  <2>2. step[<<c, f[next[c]]>>] = f[next[c]]  BY <2>1
  <2> QED  BY <1>8, <2>2
<1>10. f = Whole(f)
  <2> SUFFICES ASSUME NEW c \in D  PROVE f[c] = Whole(f)[c]  BY <1>8
  <2>1. CASE ~Goes(c)
    <3>1. c \in stops /\ value[c] = c  BY <2>1
    <3> QED  BY <1>9, <2>1, <3>1
  <2>2. CASE Goes(c) /\ AtDelim(c[1]) /\ AtDelim(c[2])
    <3>1. c \in stops /\ value[c] = <<c[1] + 1, c[2]>>  BY <2>2
    <3> QED  BY <1>9, <2>2, <3>1 DEF AtDelim
  <2>3. CASE Goes(c) /\ ~(AtDelim(c[1]) /\ AtDelim(c[2]))
    <3>1. c \notin stops  BY <2>3
    <3>2. next[c] = <<IF ~AtDelim(c[1]) THEN c[1] - 1 ELSE c[1],
                      IF ~AtDelim(c[2]) THEN c[2] + 1 ELSE c[2]>>
      OBVIOUS
    <3> HIDE DEF next, stops
    <3>3. f[c] = f[next[c]]  BY <1>9, <3>1
    <3> QED  BY <2>3, <3>2, <3>3 DEF AtDelim
  <2> QED  BY <2>1, <2>2, <2>3
<1>11. loop = Whole(loop)
  <2> HIDE DEF Whole
  <2> QED  BY <1>10, Zenon
<1> HIDE DEF loop
<1>12. \A c \in D : f[c] = loop[c]
  <2>1. ASSUME NEW c \in D
        PROVE  \/ f[c] = loop[c]
               \/ /\ next[c] \in D /\ rank[next[c]] < rank[c]
                  /\ f[next[c]] = loop[next[c]] => f[c] = loop[c]
    <3>1. f[c] = Whole(f)[c] /\ loop[c] = Whole(loop)[c]  BY <1>10, <1>11
    <3>2. CASE c \in stops  BY <3>1, <3>2 DEF AtDelim
    <3>3. CASE c \notin stops
      <4>1. Goes(c) /\ ~(AtDelim(c[1]) /\ AtDelim(c[2]))  BY <3>3
      <4>2. next[c] = <<IF ~AtDelim(c[1]) THEN c[1] - 1 ELSE c[1],
                        IF ~AtDelim(c[2]) THEN c[2] + 1 ELSE c[2]>>
        OBVIOUS
      <4> HIDE DEF next
      <4>3. loop[c] = loop[next[c]] /\ f[c] = f[next[c]]  BY <3>1, <4>1, <4>2 DEF AtDelim
      <4> QED  BY <1>4, <3>3, <4>3
    <3> QED  BY <3>2, <3>3
  <2> HIDE DEF D, N, rank, next
  <2>2. AgreeIfNext(D, N, rank, next, f, loop)
    <3>1. N \in Nat  BY <1>1 DEF N
    <3> QED  BY <1>3, <2>1, <3>1 DEF AgreeIfNext
  <2> QED  BY <2>2, RecursionsAgree
<1>13. Settled(text, l, r) = loop[<<l, r>>]  BY Zenon DEF Settled, loop, size
<1> DEFINE Right(c) == RestsAt(f[c], text, c[1], c[2])
           Wrong == {k \in 0 .. N : \E c \in D : rank[c] = k /\ ~Right(c)}
<1>14. Wrong = {}
  <2> SUFFICES ASSUME Wrong # {} PROVE FALSE  OBVIOUS
  <2>1. PICK k \in Wrong : \A e \in Wrong : k <= e
    <3>1. Wrong \subseteq Nat  BY <1>1
    <3> HIDE DEF Wrong
    <3> QED  BY <3>1, LeastNatural
  <2>2. PICK c \in D : rank[c] = k /\ ~Right(c)  BY <2>1
  <2>3. /\ c[1] \in Int /\ c[2] \in Int /\ c = <<c[1], c[2]>>
        /\ -Reach <= c[1] /\ c[1] <= size /\ 0 <= c[2] /\ c[2] <= size + Reach
    BY <1>2
  <2>4. CASE ~Goes(c)
    <3>1. f[c] = c  BY <1>9, <2>4
    <3>2. c[1] <= 0 \/ size <= c[2]
      <4>1. ~(c[1] > 0 /\ c[2] < size)  BY <2>4
      <4> HIDE DEF D, N, rank, next, stops, value, step, Right, Wrong, Goes, Whole
      <4> QED  BY <1>1, <2>3, <4>1
    <3>3. <<c[1], c[2]>> \in Int \X Int  BY <2>3
    <3>4. c \in Int \X Int  BY <2>3, <3>3
    <3>5. c[1] <= c[1] /\ c[2] <= c[2]  BY <2>3
    <3> HIDE DEF D, N, rank, next, stops, value, step, Goes, Whole
    <3>6. RestsAt(c, text, c[1], c[2])  BY <3>2, <3>4, <3>5 DEF RestsAt, size
    <3> QED  BY <2>2, <3>1, <3>6
  <2>5. CASE Goes(c) /\ AtDelim(c[1]) /\ AtDelim(c[2])
    <3>1. f[c] = <<c[1] + 1, c[2]>>  BY <1>9, <2>5
    <3>2. c[1] > 0 /\ c[2] < size   BY <2>3, <2>5
    <3>3. AtDelim(c[1]) /\ AtDelim(c[2])  BY <2>5
    <3> HIDE DEF D, N, rank, next, stops, value, step, Goes, Whole
    <3>4. c[1] \in 1 .. c[1] /\ c[2] \in c[2] .. size - 1  BY <1>1, <2>3, <3>2, WithinIs
    <3>5. RestsAt(f[c], text, c[1], c[2])  BY <3>1, <3>3, <3>4 DEF RestsAt, size, AtDelim
    <3> QED  BY <2>2, <3>5
  <2>6. CASE Goes(c) /\ ~(AtDelim(c[1]) /\ AtDelim(c[2]))
    <3>1. c \notin stops  BY <2>6
    <3>2. next[c] \in D /\ rank[next[c]] < rank[c]  BY <1>4, <3>1
    <3>3. f[c] = f[next[c]]  BY <1>9, <3>1
    <3>4. Right(next[c])
      <4>0. N \in Nat
        <5> HIDE DEF Right, Wrong, D, rank, next, stops, value, step, Goes, Whole
        <5> QED  BY <1>1
      <4>1. rank[next[c]] \in 0 .. N /\ rank[c] \in 0 .. N /\ N \in Nat
        <5> HIDE DEF Right, Wrong, D, N, rank, next, stops, value, step, Goes, Whole
        <5> QED  BY <1>3, <3>2, <4>0
      <4>2. ~ (k <= rank[next[c]])  BY <2>2, <3>2, <4>1
      <4> HIDE DEF Right, D, N, rank, next
      <4>3. rank[next[c]] \notin Wrong  BY <2>1, <4>2
      <4> QED  BY <3>2, <4>1, <4>3
    <3> DEFINE d == next[c]
    <3>5. d[1] <= c[1] /\ c[2] <= d[2] /\ d[1] \in Int /\ d[2] \in Int
      <4>1. next[c] = <<IF ~AtDelim(c[1]) THEN c[1] - 1 ELSE c[1],
                        IF ~AtDelim(c[2]) THEN c[2] + 1 ELSE c[2]>>
        OBVIOUS
      <4> HIDE DEF next
      <4> QED  BY <2>3, <4>1
    <3> HIDE DEF d
    <3>6. RestsAt(f[c], text, d[1], d[2])  BY <3>3, <3>4 DEF d
    <3>7. RestsAt(f[c], text, c[1], c[2])
      <4>1. CASE /\ f[c] \in Int \X Int
                 /\ f[c][1] <= d[1] /\ d[2] <= f[c][2]
                 /\ f[c][1] <= 0 \/ Len(text) <= f[c][2]
        <5>1. f[c][1] \in Int /\ f[c][2] \in Int  BY <4>1
        <5>2. f[c][1] <= c[1] /\ c[2] <= f[c][2]
          <6> DEFINE x == f[c][1]
                     y == f[c][2]
          <6>1. x \in Int /\ y \in Int /\ x <= d[1] /\ d[2] <= y  BY <4>1, <5>1
          <6>2. c[1] \in Int /\ c[2] \in Int  BY <2>3
          <6> HIDE DEF x, y, D, N, rank, next, stops, value, step, Goes, Whole, Right, Wrong
          <6>3. x <= c[1] /\ c[2] <= y  BY <3>5, <6>1, <6>2
          <6> QED  BY <6>3 DEF x, y
        <5> QED  BY <4>1, <5>2 DEF RestsAt
      <4>2. ASSUME NEW a \in 1 .. d[1], NEW b \in d[2] .. Len(text) - 1,
                   f[c] = <<a + 1, b>>, IsDelim(text, a), IsDelim(text, b)
            PROVE  RestsAt(f[c], text, c[1], c[2])
        <5>1. c[1] > 0 /\ c[2] < size  BY <2>6
        <5> HIDE DEF D, N, rank, next, stops, value, step, Goes, Whole, Right, Wrong
        <5>4. /\ size \in Int /\ c[1] \in Int /\ c[2] \in Int /\ d[1] \in Int /\ d[2] \in Int
              /\ d[1] <= c[1] /\ c[2] <= d[2] /\ c[1] > 0 /\ c[2] < size
          BY <1>1, <2>3, <3>5, <5>1
        <5>2. a \in 1 .. c[1]  BY <5>4
        <5>5. b \in d[2] .. size - 1  BY DEF size
        <5>6. b \in c[2] .. size - 1  BY <5>4, <5>5
        <5>3. a \in 1 .. c[1] /\ b \in c[2] .. Len(text) - 1  BY <5>2, <5>6 DEF size
        <5> QED  BY <4>2, <5>3 DEF RestsAt
      <4> QED  BY <3>6, <4>1, <4>2 DEF RestsAt
    <3> QED  BY <2>2, <3>7
  <2> QED  BY <2>4, <2>5, <2>6
<1>15. <<l, r>> \in D /\ rank[<<l, r>>] \in 0 .. N
  <2>1. <<l, r>> \in D  BY DEF size
  <2> HIDE DEF D, N, rank
  <2> QED  BY <1>3, <2>1
<1>16. Right(<<l, r>>)  BY <1>14, <1>15
<1> QED  BY <1>12, <1>13, <1>15, <1>16

-----------------------------------------------------------------------------
(* Sequences put one after the other                                        *)

\* What the first pieces make together.
Accumulates(acc, seqs, T) ==
    /\ acc \in [0 .. Len(seqs) -> Seq(T)]
    /\ acc[0] = <<>>
    /\ \A i \in 1 .. Len(seqs) : acc[i] = acc[i - 1] \o seqs[i]

\* FlattenSeq puts the pieces one after the other.
LEMMA FlattenIs ==
  ASSUME NEW T, NEW seqs \in Seq(Seq(T))
  PROVE  \E acc : Accumulates(acc, seqs, T) /\ FlattenSeq(seqs) = acc[Len(seqs)]
<1> DEFINE n == Len(seqs)
           D == 1 .. n
           V == Seq(T)
           Whole(f) == [i \in D |-> IF i = 1 THEN seqs[i] ELSE f[i - 1] \o seqs[i]]
           rank == [i \in D |-> i]
           stops == {i \in D : i = 1}
           value == [i \in D |-> seqs[i]]
           next == [i \in D |-> i - 1]
           step == [cv \in D \X V |-> cv[2] \o seqs[cv[1]]]
           loop == CHOOSE f : f = Whole(f)
<1>1. n \in Nat /\ \A i \in D : seqs[i] \in V  OBVIOUS
<1>2. CASE n = 0
  <2>1. seqs = <<>>  BY <1>2, EmptySeq
  <2>2. FlattenSeq(seqs) = <<>>  BY <1>2, <2>1 DEF FlattenSeq
  <2> DEFINE acc == [i \in 0 .. 0 |-> <<>>]
  <2>3. Accumulates(acc, seqs, T) /\ acc[0] = <<>>  BY <1>2 DEF Accumulates
  <2> QED  BY <1>2, <2>2, <2>3
<1>3. CASE n # 0
  <2>1. rank \in [D -> 0 .. n] /\ \A c \in stops : value[c] \in V
    BY <1>1
  <2>2. ASSUME NEW c \in D, c \notin stops
        PROVE  next[c] \in D /\ rank[next[c]] < rank[c] /\ \A v \in V : step[<<c, v>>] \in V
    <3>1. next[c] \in D /\ rank[next[c]] < rank[c]  BY <1>1, <2>2
    <3>2. ASSUME NEW v \in V  PROVE step[<<c, v>>] \in V
      <4>1. step[<<c, v>>] = v \o seqs[c]  OBVIOUS
      <4>2. seqs[c] \in Seq(T)  BY <1>1
      <4> QED  BY <4>1, <4>2
    <3> QED  BY <3>1, <3>2
  <2>3. IsRecursion(D, V, n, rank, stops, value, next, step)
    <3>1. \A c \in D : c \in stops => value[c] \in V  BY <1>1
    <3> HIDE DEF D, V, n, rank, stops, value, next, step
    <3> QED  BY <1>1, <2>1, <2>2, <3>1 DEF IsRecursion
  <2>4. PICK f : Solves(f, D, V, stops, value, next, step)
    <3> HIDE DEF D, V, n, rank, stops, value, next, step
    <3> QED  BY <2>3, RecursionExists
  <2>5. /\ f \in [D -> V]
        /\ \A c \in D : f[c] = IF c \in stops THEN value[c] ELSE step[<<c, f[next[c]]>>]
    <3> HIDE DEF D, V, stops, value, next, step
    <3> QED  BY <2>4 DEF Solves
  <2>6. ASSUME NEW i \in D  PROVE f[i] = IF i = 1 THEN seqs[i] ELSE f[i - 1] \o seqs[i]
    <3>1. CASE i = 1
      <4>1. i \in stops /\ value[i] = seqs[i]  BY <3>1
      <4> QED  BY <2>5, <3>1, <4>1
    <3>2. CASE i # 1
      <4>1. i \notin stops /\ next[i] = i - 1 /\ i - 1 \in D  BY <1>1, <3>2
      <4>2. f[i - 1] \in V  BY <2>5, <4>1
      <4>3. step[<<i, f[i - 1]>>] = f[i - 1] \o seqs[i]  BY <4>2
      <4>4. f[i] = step[<<i, f[i - 1]>>]  BY <2>5, <4>1
      <4> QED  BY <3>2, <4>3, <4>4
    <3> QED  BY <3>1, <3>2
  <2>7. f = Whole(f)  BY <2>5, <2>6
  <2>8. loop = Whole(loop)
    <3> HIDE DEF Whole
    <3> QED  BY <2>7, Zenon
  <2>9. FlattenSeq(seqs) = loop[n]  BY <1>3, Zenon DEF FlattenSeq
  <2> HIDE DEF loop
  <2>10. \A c \in D : f[c] = loop[c]
    <3>1. ASSUME NEW c \in D
          PROVE  \/ f[c] = loop[c]
                 \/ /\ next[c] \in D /\ rank[next[c]] < rank[c]
                    /\ f[next[c]] = loop[next[c]] => f[c] = loop[c]
      <4>1. loop[c] = IF c = 1 THEN seqs[c] ELSE loop[c - 1] \o seqs[c]  BY <2>8
      <4>2. CASE c = 1  BY <2>6, <4>1, <4>2
      <4>3. CASE c # 1
        <5>1. next[c] = c - 1 /\ next[c] \in D /\ rank[next[c]] < rank[c]  BY <1>1, <4>3
        <5> QED  BY <2>6, <4>1, <4>3, <5>1
      <4> QED  BY <4>2, <4>3
    <3> HIDE DEF D, n, rank, next
    <3>2. AgreeIfNext(D, n, rank, next, f, loop)  BY <1>1, <2>1, <3>1 DEF AgreeIfNext
    <3> QED  BY <3>2, RecursionsAgree
  <2> DEFINE acc == [i \in 0 .. n |-> IF i = 0 THEN <<>> ELSE f[i]]
  <2>11. acc \in [0 .. n -> Seq(T)]
    <3>1. \A i \in 0 .. n : i # 0 => i \in D  OBVIOUS
    <3> QED  BY <2>5, <3>1
  <2>12. acc[0] = <<>> /\ n \in D /\ acc[n] = f[n]  BY <1>1, <1>3
  <2>13. ASSUME NEW i \in 1 .. n  PROVE acc[i] = acc[i - 1] \o seqs[i]
    <3>1. acc[i] = f[i] /\ seqs[i] \in Seq(T)  BY <1>1
    <3>2. CASE i = 1
      <4>1. acc[i - 1] = <<>>  BY <1>1, <3>2
      <4>2. <<>> \o seqs[i] = seqs[i]  BY <3>1, ConcatEmptySeq
      <4> QED  BY <2>6, <3>1, <3>2, <4>1, <4>2
    <3>3. CASE i # 1
      <4>1. acc[i - 1] = f[i - 1]  BY <1>1, <3>3
      <4> QED  BY <2>6, <3>1, <3>3, <4>1
    <3> QED  BY <3>2, <3>3
  <2> HIDE DEF acc
  <2>14. Accumulates(acc, seqs, T)  BY <2>11, <2>12, <2>13 DEF Accumulates
  <2> QED  BY <2>9, <2>10, <2>12, <2>14
<1> QED  BY <1>2, <1>3

\* The pieces of two lists make what those of the first and those of the second make.
LEMMA FlattenConcat ==
  ASSUME NEW T, NEW s \in Seq(Seq(T)), NEW t \in Seq(Seq(T))
  PROVE  /\ FlattenSeq(s) \in Seq(T)
         /\ FlattenSeq(s \o t) = FlattenSeq(s) \o FlattenSeq(t)
<1> DEFINE m == Len(s)
           n == Len(t)
           V == Seq(T)
           all == s \o t
<1>1. m \in Nat /\ n \in Nat  OBVIOUS
<1>2. /\ all \in Seq(V) /\ Len(all) = m + n
      /\ \A i \in 1 .. m + n : all[i] = IF i <= m THEN s[i] ELSE t[i - m]
  <2> HIDE DEF V
  <2> QED  BY ConcatProperties DEF V
<1> HIDE DEF all
<1>3. PICK f : Accumulates(f, s, T) /\ FlattenSeq(s) = f[m]  BY FlattenIs
<1>4. PICK g : Accumulates(g, t, T) /\ FlattenSeq(t) = g[n]  BY FlattenIs
<1>5. PICK h : Accumulates(h, all, T) /\ FlattenSeq(all) = h[m + n]  BY <1>2, FlattenIs
<1>6. /\ f \in [0 .. m -> V] /\ f[0] = <<>>
      /\ \A i \in 1 .. m : f[i] = f[i - 1] \o s[i]
  BY <1>3 DEF Accumulates
<1>7. /\ g \in [0 .. n -> V] /\ g[0] = <<>>
      /\ \A i \in 1 .. n : g[i] = g[i - 1] \o t[i]
  BY <1>4 DEF Accumulates
<1>8. /\ h \in [0 .. m + n -> V] /\ h[0] = <<>>
      /\ \A i \in 1 .. m + n : h[i] = h[i - 1] \o all[i]
  BY <1>2, <1>5 DEF Accumulates
<1> HIDE DEF m, n
<1>9. h[m] = f[m]
  <2> DEFINE Same == {i \in 0 .. m : h[i] = f[i]}
  <2>1. 0 \in Same  BY <1>1, <1>6, <1>8
  <2>2. ASSUME NEW i \in 0 .. m - 1, i \in Same  PROVE i + 1 \in Same
    <3>1. i + 1 \in 1 .. m /\ i + 1 \in 1 .. m + n /\ (i + 1) - 1 = i /\ i + 1 <= m
          /\ i + 1 \in 0 .. m
      BY <1>1
    <3>2. all[i + 1] = s[i + 1]  BY <1>2, <3>1
    <3>3. h[i + 1] = h[i] \o all[i + 1] /\ f[i + 1] = f[i] \o s[i + 1]  BY <1>6, <1>8, <3>1
    <3> QED  BY <2>2, <3>1, <3>2, <3>3
  <2> HIDE DEF Same
  <2>3. 0 .. m \subseteq Same  BY <1>1, <2>1, <2>2, Induction
  <2>4. m \in 0 .. m  BY <1>1
  <2> QED  BY <2>3, <2>4 DEF Same
<1>10. h[m + n] = f[m] \o g[n]
  <2> DEFINE Same == {i \in 0 .. n : h[m + i] = f[m] \o g[i]}
  <2>0. f[m] \in Seq(T)  BY <1>1, <1>6
  <2>1. 0 \in Same
    <3>1. f[m] \o <<>> = f[m]  BY <2>0, ConcatEmptySeq
    <3>2. m + 0 = m /\ 0 \in 0 .. n  BY <1>1
    <3> QED  BY <1>7, <1>9, <3>1, <3>2
  <2>2. ASSUME NEW i \in 0 .. n - 1, i \in Same  PROVE i + 1 \in Same
    <3>1. /\ i + 1 \in 1 .. n /\ m + (i + 1) \in 1 .. m + n /\ (i + 1) - 1 = i
          /\ (m + (i + 1)) - 1 = m + i /\ ~ (m + (i + 1) <= m) /\ (m + (i + 1)) - m = i + 1
          /\ i + 1 \in 0 .. n /\ i \in 0 .. n
      BY <1>1
    <3>2. all[m + (i + 1)] = t[i + 1]  BY <1>2, <3>1
    <3>3. h[m + (i + 1)] = h[m + i] \o t[i + 1] /\ g[i + 1] = g[i] \o t[i + 1]
      BY <1>7, <1>8, <3>1, <3>2
    <3>4. h[m + i] = f[m] \o g[i]  BY <2>2
    <3>5. g[i] \in Seq(T) /\ t[i + 1] \in Seq(T)
      <4>1. \A j \in 1 .. Len(t) : t[j] \in Seq(T)  OBVIOUS
      <4> QED  BY <1>7, <3>1, <4>1 DEF n
    <3>6. (f[m] \o g[i]) \o t[i + 1] = f[m] \o (g[i] \o t[i + 1])
      <4> DEFINE a == f[m]
                 b == g[i]
                 c == t[i + 1]
      <4>1. a \in Seq(T) /\ b \in Seq(T) /\ c \in Seq(T)  BY <2>0, <3>5
      <4> HIDE DEF a, b, c
      <4>2. (a \o b) \o c = a \o (b \o c)  BY <4>1, ConcatAssociative
      <4> QED  BY <4>2 DEF a, b, c
    <3> QED  BY <3>1, <3>3, <3>4, <3>6
  <2> HIDE DEF Same
  <2>3. 0 .. n \subseteq Same  BY <1>1, <2>1, <2>2, Induction
  <2>4. n \in 0 .. n  BY <1>1
  <2> QED  BY <2>3, <2>4 DEF Same
<1> QED  BY <1>1, <1>3, <1>4, <1>5, <1>6, <1>10 DEF all

\* Pieces of one element each make the sequence of those.
LEMMA FlattenSingles ==
  ASSUME NEW T, NEW text \in Seq(T), NEW seqs \in Seq(Seq(T)), Len(seqs) = Len(text),
         \A i \in 1 .. Len(text) : seqs[i] = <<text[i]>>
  PROVE  FlattenSeq(seqs) = text
<1> DEFINE n == Len(text)
<1>1. n \in Nat  OBVIOUS
<1>2. PICK f : Accumulates(f, seqs, T) /\ FlattenSeq(seqs) = f[n]  BY FlattenIs
<1>3. /\ f \in [0 .. n -> Seq(T)] /\ f[0] = <<>>
      /\ \A i \in 1 .. n : f[i] = f[i - 1] \o <<text[i]>>
  BY <1>2 DEF Accumulates
<1> DEFINE Same == {i \in 0 .. n : Len(f[i]) = i /\ \A j \in 1 .. i : f[i][j] = text[j]}
<1>4. 0 \in Same  BY <1>1, <1>3
<1>5. ASSUME NEW i \in 0 .. n - 1, i \in Same  PROVE i + 1 \in Same
  <2>1. i + 1 \in 1 .. n /\ i + 1 \in 0 .. n /\ (i + 1) - 1 = i /\ i \in 0 .. n  BY <1>1
  <2>2. text[i + 1] \in T  BY <2>1
  <2>3. f[i] \in Seq(T) /\ <<text[i + 1]>> \in Seq(T) /\ Len(<<text[i + 1]>>) = 1
        /\ <<text[i + 1]>>[1] = text[i + 1]
    <3>1. f[i] \in Seq(T)  BY <1>3, <2>1
    <3> DEFINE x == text[i + 1]
    <3>2. x \in T  BY <2>2
    <3> HIDE DEF x
    <3>3. <<x>> \in Seq(T) /\ Len(<<x>>) = 1 /\ <<x>>[1] = x  BY <3>2
    <3> QED  BY <3>1, <3>3 DEF x
  <2>4. f[i + 1] = f[i] \o <<text[i + 1]>>  BY <1>3, <2>1
  <2> DEFINE one == <<text[i + 1]>>
  <2> HIDE DEF one
  <2>5. /\ Len(f[i] \o one) = Len(f[i]) + Len(one)
        /\ \A j \in 1 .. Len(f[i]) + Len(one) :
             (f[i] \o one)[j] = IF j <= Len(f[i]) THEN f[i][j] ELSE one[j - Len(f[i])]
    BY <2>3, ConcatProperties DEF one
  <2>6. Len(f[i]) = i /\ Len(one) = 1 /\ one[1] = text[i + 1]  BY <1>5, <2>3 DEF one
  <2>7. Len(f[i + 1]) = i + 1  BY <2>4, <2>5, <2>6 DEF one
  <2>8. ASSUME NEW j \in 1 .. i + 1  PROVE f[i + 1][j] = text[j]
    <3>1. CASE j <= i
      <4>1. j \in 1 .. i /\ f[i + 1][j] = f[i][j]  BY <2>4, <2>5, <2>6, <3>1 DEF one
      <4> QED  BY <1>5, <4>1
    <3>2. CASE j = i + 1
      <4>1. j \in 1 .. Len(f[i]) + Len(one) /\ ~(j <= Len(f[i])) /\ j - Len(f[i]) = 1
        BY <1>1, <2>6, <3>2
      <4>2. (f[i] \o one)[j] = one[j - Len(f[i])]  BY <2>5, <4>1
      <4>3. f[i + 1][j] = one[1]  BY <2>4, <4>1, <4>2 DEF one
      <4> QED  BY <2>6, <3>2, <4>3
    <3> QED  BY <3>1, <3>2
  <2> QED  BY <2>1, <2>7, <2>8
<1> HIDE DEF Same
<1>6. 0 .. n \subseteq Same  BY <1>1, <1>4, <1>5, Induction
<1>7. n \in 0 .. n  BY <1>1
<1>8. Len(f[n]) = n /\ \A j \in 1 .. n : f[n][j] = text[j]  BY <1>6, <1>7 DEF Same
<1>9. f[n] \in Seq(T)  BY <1>3, <1>7
<1> QED  BY <1>2, <1>8, <1>9, SeqEqual

\* A sequence is a function of its indices.
LEMMA IsSequence ==
  ASSUME NEW C, NEW n \in Nat, NEW f \in [1 .. n -> C]
  PROVE  f \in Seq(C) /\ Len(f) = n
OBVIOUS

\* A sequence behind another.
LEMMA ConcatIs ==
  ASSUME NEW C, NEW s \in Seq(C), NEW t \in Seq(C)
  PROVE  /\ s \o t \in Seq(C) /\ Len(s) \in Nat /\ Len(t) \in Nat
         /\ Len(s \o t) = Len(s) + Len(t)
         /\ \A i \in 1 .. Len(s) : (s \o t)[i] = s[i]
         /\ \A i \in 1 .. Len(t) : (s \o t)[Len(s) + i] = t[i]
         /\ \A i \in Len(s) + 1 .. Len(s) + Len(t) : (s \o t)[i] = t[i - Len(s)]
<1>1. Len(s) \in Nat /\ Len(t) \in Nat  OBVIOUS
<1> DEFINE st == s \o t
<1>2. /\ st \in Seq(C) /\ Len(st) = Len(s) + Len(t)
      /\ \A i \in 1 .. Len(s) + Len(t) : st[i] = IF i <= Len(s) THEN s[i] ELSE t[i - Len(s)]
  BY ConcatProperties
<1> HIDE DEF st
<1>3. \A i \in 1 .. Len(s) : st[i] = s[i]  BY <1>1, <1>2
<1>4. \A i \in Len(s) + 1 .. Len(s) + Len(t) : st[i] = t[i - Len(s)]  BY <1>1, <1>2
<1>5. ASSUME NEW i \in 1 .. Len(t)  PROVE st[Len(s) + i] = t[i]
  <2>1. Len(s) + i \in Len(s) + 1 .. Len(s) + Len(t) /\ (Len(s) + i) - Len(s) = i  BY <1>1
  <2> QED  BY <1>4, <2>1
<1> QED  BY <1>1, <1>2, <1>3, <1>4, <1>5 DEF st

\* What is quoted around an offset: nothing, the beginning of the text up to somewhere behind
\* it, or what stands between two delimiters on both sides of it.
LEMMA WindowIs ==
  ASSUME NEW C, NEW text \in Seq(C), NEW idx \in Nat
  PROVE  \/ Window(text, idx) = <<0, 0>>
         \/ \E b \in idx + 1 .. Len(text) - 1 : Window(text, idx) = <<0, b>>
         \/ \E a \in 1 .. idx - 1, b \in idx + 1 .. Len(text) - 1 :
              Window(text, idx) = <<a + 1, b>> /\ IsDelim(text, a) /\ IsDelim(text, b)
<1> DEFINE c == Settled(text, idx - Reach, idx + Reach)
           n == Len(text)
<1>0. n \in Nat /\ Reach \in Nat /\ Reach >= 1  BY ReachAssumption
<1>1. CASE n <= idx \/ ~Usable(text, c[1], c[2])  BY <1>1 DEF Window
<1>2. CASE ~(n <= idx) /\ Usable(text, c[1], c[2])
  <2>1. Window(text, idx) = c  BY <1>2 DEF Window
  <2>2. c[1] >= 0 /\ c[2] < n  BY <1>2 DEF Usable
  <2>3. idx - Reach \in -Reach .. n /\ idx + Reach \in 0 .. n + Reach  BY <1>0, <1>2
  <2> DEFINE l == idx - Reach
             r == idx + Reach
  <2>4. RestsAt(c, text, l, r)  BY <2>3, SettledIs
  <2>5. l \in Int /\ r \in Int /\ l <= idx - 1 /\ idx + 1 <= r  BY <1>0
  <2> HIDE DEF l, r, c, n
  <2>6. CASE /\ c \in Int \X Int
             /\ c[1] <= l /\ r <= c[2]
             /\ c[1] <= 0 \/ n <= c[2]
    <3>1. c = <<c[1], c[2]>> /\ c[1] \in Int /\ c[2] \in Int  BY <2>6
    <3>2. c[1] = 0 /\ c[2] \in idx + 1 .. n - 1  BY <1>0, <2>2, <2>5, <2>6, <3>1
    <3>3. c = <<0, c[2]>>  BY <3>1, <3>2
    <3> QED  BY <2>1, <3>2, <3>3 DEF n
  <2>7. ASSUME NEW a \in 1 .. l, NEW b \in r .. n - 1,
               c = <<a + 1, b>>, IsDelim(text, a), IsDelim(text, b)
        PROVE  \E aa \in 1 .. idx - 1, bb \in idx + 1 .. n - 1 :
                 Window(text, idx) = <<aa + 1, bb>> /\ IsDelim(text, aa) /\ IsDelim(text, bb)
    <3>1. a \in 1 .. idx - 1 /\ b \in idx + 1 .. n - 1  BY <1>0, <2>5
    <3> QED  BY <2>1, <2>7, <3>1
  <2> QED  BY <2>4, <2>6, <2>7 DEF RestsAt, n
<1> QED  BY <1>1, <1>2

\* A text with a part in it.
Holds(T, text, part) == \E x, y \in Seq(T) : text = (x \o part) \o y

\* Taking a part of it that stands in a part.
LEMMA PartHolds ==
  ASSUME NEW C, NEW text \in Seq(C),
         NEW a \in 0 .. Len(text), NEW b \in a .. Len(text),
         NEW c \in b .. Len(text), NEW d \in c .. Len(text)
  PROVE  Holds(C, SubSeq(text, a + 1, d), SubSeq(text, b + 1, c))
<1>1. SubSeq(text, a + 1, b) \o SubSeq(text, b + 1, c) = SubSeq(text, a + 1, c)
  <2>1. a + 1 \in 1 .. Len(text) + 1 /\ b \in (a + 1) - 1 .. Len(text)  OBVIOUS
  <2> DEFINE m == a + 1
  <2>2. m \in 1 .. Len(text) + 1 /\ b \in m - 1 .. Len(text) /\ c \in b .. Len(text)  BY <2>1
  <2> HIDE DEF m
  <2>3. SubSeq(text, m, b) \o SubSeq(text, b + 1, c) = SubSeq(text, m, c)
    BY <2>2, ConcatAdjacentSubSeq
  <2> QED  BY <2>3 DEF m
<1>2. SubSeq(text, a + 1, c) \o SubSeq(text, c + 1, d) = SubSeq(text, a + 1, d)
  <2>1. a + 1 \in 1 .. Len(text) + 1 /\ c \in (a + 1) - 1 .. Len(text)  OBVIOUS
  <2> DEFINE m == a + 1
  <2>2. m \in 1 .. Len(text) + 1 /\ c \in m - 1 .. Len(text) /\ d \in c .. Len(text)  BY <2>1
  <2> HIDE DEF m
  <2>3. SubSeq(text, m, c) \o SubSeq(text, c + 1, d) = SubSeq(text, m, d)
    BY <2>2, ConcatAdjacentSubSeq
  <2> QED  BY <2>3 DEF m
<1>3. SubSeq(text, a + 1, b) \in Seq(C) /\ SubSeq(text, c + 1, d) \in Seq(C)
  <2>1. c \in 0 .. Len(text)  OBVIOUS
  <2> QED  BY <2>1, PartIs
<1> QED  BY <1>1, <1>2, <1>3 DEF Holds

\* It is a part of the text.
LEMMA HeldIsPart ==
  ASSUME NEW C, NEW text, NEW part \in Seq(C), Holds(C, text, part)
  PROVE  IsPartOf(part, text)
<1>1. PICK x \in Seq(C), y \in Seq(C) : text = (x \o part) \o y  BY DEF Holds
<1> DEFINE xp == x \o part
           i == Len(x)
           m == Len(part)
<1>2. /\ xp \in Seq(C) /\ Len(xp) = i + m
      /\ \A k \in 1 .. i + m : xp[k] = IF k <= i THEN x[k] ELSE part[k - i]
  BY ConcatProperties
<1>3. i \in Nat /\ m \in Nat /\ Len(y) \in Nat  OBVIOUS
<1> HIDE DEF xp
<1>4. /\ text \in Seq(C) /\ Len(text) = i + m + Len(y)
      /\ \A k \in 1 .. i + m : text[k] = xp[k]
  <2>1. xp \in Seq(C)  BY <1>2
  <2> HIDE DEF i, m
  <2>2. /\ xp \o y \in Seq(C) /\ Len(xp \o y) = Len(xp) + Len(y)
        /\ \A k \in 1 .. Len(xp) : (xp \o y)[k] = xp[k]
    BY <2>1, ConcatIs, Zenon
  <2>3. text = xp \o y  BY <1>1 DEF xp
  <2> QED  BY <1>2, <2>2, <2>3
<1> HIDE DEF i, m
<1>5. i \in 0 .. Len(text) /\ i + m \in i .. Len(text)  BY <1>3, <1>4
<1> DEFINE p == SubSeq(text, i + 1, i + m)
<1>6. p \in Seq(C) /\ Len(p) = (i + m) - i /\ \A k \in 1 .. (i + m) - i : p[k] = text[i + k]
  BY <1>4, <1>5, PartIs
<1> HIDE DEF p
<1>7. Len(p) = m /\ \A k \in 1 .. m : p[k] = text[i + k]
  <2>1. (i + m) - i = m  BY <1>3
  <2> QED  BY <1>6, <2>1
<1>8. ASSUME NEW k \in 1 .. m  PROVE p[k] = part[k]
  <2>1. i + k \in 1 .. i + m /\ ~(i + k <= i) /\ (i + k) - i = k  BY <1>3
  <2> QED  BY <1>2, <1>4, <1>7, <2>1
<1>9. p = part  BY <1>6, <1>7, <1>8, SeqEqual DEF m
<1>10. i \in 0 .. Len(text) - m  BY <1>3, <1>4
<1> QED  BY <1>9, <1>10 DEF IsPartOf, p, m

\* What becomes of each character.
IsPiece(piece, C, T) == piece \in [C -> Seq(T)]

\* Each character of a text in turn becomes a piece.
Pieces(text, piece) == [i \in DOMAIN text |-> piece[text[i]]]

\* The pieces of a text, each the image of a character, make a text.
LEMMA PiecesIs ==
  ASSUME NEW C, NEW T, NEW piece, IsPiece(piece, C, T), NEW text \in Seq(C)
  PROVE  /\ Pieces(text, piece) \in Seq(Seq(T))
         /\ Len(Pieces(text, piece)) = Len(text)
         /\ \A i \in 1 .. Len(text) : Pieces(text, piece)[i] = piece[text[i]]
<1> DEFINE V == Seq(T)
           p == Pieces(text, piece)
<1>1. DOMAIN text = 1 .. Len(text) /\ Len(text) \in Nat /\ \A i \in 1 .. Len(text) : text[i] \in C
  OBVIOUS
<1>2. p = [i \in 1 .. Len(text) |-> piece[text[i]]]  BY <1>1 DEF Pieces
<1>3. \A i \in 1 .. Len(text) : piece[text[i]] \in V  BY <1>1 DEF IsPiece
<1> HIDE DEF V, p
<1>4. p \in [1 .. Len(text) -> V]  BY <1>2, <1>3
<1>5. p \in Seq(V) /\ Len(p) = Len(text)  BY <1>1, <1>4, IsSequence
<1> QED  BY <1>2, <1>5 DEF V, p

\* What such a change makes of a text that holds a part holds what it makes of the part.
LEMMA PiecesHold ==
  ASSUME NEW C, NEW T, NEW piece, IsPiece(piece, C, T), NEW text \in Seq(C), NEW part \in Seq(C),
         Holds(C, text, part)
  PROVE  /\ FlattenSeq(Pieces(part, piece)) \in Seq(T)
         /\ FlattenSeq(Pieces(text, piece)) \in Seq(T)
         /\ Holds(T, FlattenSeq(Pieces(text, piece)), FlattenSeq(Pieces(part, piece)))
<1> DEFINE P(t) == Pieces(t, piece)
           F(t) == FlattenSeq(P(t))
<1>1. ASSUME NEW s \in Seq(C), NEW t \in Seq(C)
      PROVE  s \o t \in Seq(C) /\ F(s) \in Seq(T) /\ F(s \o t) = F(s) \o F(t)
  <2> DEFINE V == Seq(T)
             st == s \o t
  <2>1. /\ st \in Seq(C) /\ Len(st) = Len(s) + Len(t)
        /\ \A i \in 1 .. Len(s) + Len(t) : st[i] = IF i <= Len(s) THEN s[i] ELSE t[i - Len(s)]
    BY ConcatProperties
  <2>2. Len(s) \in Nat /\ Len(t) \in Nat  OBVIOUS
  <2> HIDE DEF st
  <2> DEFINE a == P(s)
             b == P(t)
             ab == P(st)
  <2>3. /\ a \in Seq(V) /\ Len(a) = Len(s) /\ \A i \in 1 .. Len(s) : a[i] = piece[s[i]]
        /\ b \in Seq(V) /\ Len(b) = Len(t) /\ \A i \in 1 .. Len(t) : b[i] = piece[t[i]]
        /\ ab \in Seq(V) /\ Len(ab) = Len(st) /\ \A i \in 1 .. Len(st) : ab[i] = piece[st[i]]
    <3>1. a \in Seq(V) /\ Len(a) = Len(s) /\ \A i \in 1 .. Len(s) : a[i] = piece[s[i]]
      BY PiecesIs
    <3>2. b \in Seq(V) /\ Len(b) = Len(t) /\ \A i \in 1 .. Len(t) : b[i] = piece[t[i]]
      BY PiecesIs
    <3>3. ab \in Seq(V) /\ Len(ab) = Len(st) /\ \A i \in 1 .. Len(st) : ab[i] = piece[st[i]]
      BY <2>1, PiecesIs
    <3> QED  BY <3>1, <3>2, <3>3
  <2> HIDE DEF V, a, b, ab
  <2>4. /\ a \o b \in Seq(V) /\ Len(a \o b) = Len(a) + Len(b)
        /\ \A i \in 1 .. Len(a) : (a \o b)[i] = a[i]
        /\ \A i \in Len(a) + 1 .. Len(a) + Len(b) : (a \o b)[i] = b[i - Len(a)]
    <3>1. a \in Seq(V) /\ b \in Seq(V)  BY <2>3
    <3> QED  BY <3>1, ConcatIs, Zenon
  <2>5. ASSUME NEW i \in 1 .. Len(ab)  PROVE ab[i] = (a \o b)[i]
    <3>1. i \in 1 .. Len(s) + Len(t)  BY <2>1, <2>3
    <3>2. CASE i <= Len(s)
      <4>1. i \in 1 .. Len(s)  BY <2>2, <3>1, <3>2
      <4>2. (a \o b)[i] = piece[s[i]]  BY <2>3, <2>4, <4>1
      <4>3. st[i] = s[i]  BY <2>1, <3>1, <3>2
      <4> QED  BY <2>1, <2>3, <3>1, <4>2, <4>3
    <3>3. CASE ~(i <= Len(s))
      <4>1. i - Len(s) \in 1 .. Len(t) /\ i \in Len(s) + 1 .. Len(s) + Len(t)
        BY <2>2, <3>1, <3>3
      <4>2. (a \o b)[i] = b[i - Len(s)]  BY <2>3, <2>4, <4>1
      <4>3. st[i] = t[i - Len(s)]  BY <2>1, <3>1, <3>3
      <4> QED  BY <2>1, <2>3, <3>1, <4>1, <4>2, <4>3
    <3> QED  BY <3>2, <3>3
  <2>6. Len(ab) = Len(a \o b)  BY <2>1, <2>3, <2>4
  <2>7. ab = a \o b  BY <2>3, <2>4, <2>5, <2>6, SeqEqual
  <2>8. FlattenSeq(a) \in Seq(T) /\ FlattenSeq(a \o b) = FlattenSeq(a) \o FlattenSeq(b)
    BY <2>3, FlattenConcat DEF V
  <2> QED  BY <2>1, <2>7, <2>8 DEF a, b, ab, st
<1> HIDE DEF F
<1>2. PICK x \in Seq(C), y \in Seq(C) : text = (x \o part) \o y  BY DEF Holds
<1>3. x \o part \in Seq(C) /\ F(x \o part) = F(x) \o F(part)  BY <1>1
<1>4. text \in Seq(C) /\ F(text) = F(x \o part) \o F(y)  BY <1>1, <1>2, <1>3
<1>5. F(x) \in Seq(T) /\ F(y) \in Seq(T) /\ F(part) \in Seq(T) /\ F(text) \in Seq(T)  BY <1>1
<1>6. F(text) = (F(x) \o F(part)) \o F(y)  BY <1>3, <1>4
<1>7. Holds(T, F(text), F(part))  BY <1>5, <1>6 DEF Holds
<1> QED  BY <1>5, <1>7 DEF F

\* lrtrim keeps what has no blanks in it.
LEMMA TrimHolds ==
  ASSUME NEW C, NEW text \in Seq(C), NEW part \in Seq(C), Holds(C, text, part), Len(part) > 0,
         \A i \in 1 .. Len(part) : part[i] \notin Blanks
  PROVE  Lrtrim(text) \in Seq(C) /\ Holds(C, Lrtrim(text), part)
<1> DEFINE kept == {i \in DOMAIN text : text[i] \notin Blanks}
           first == CHOOSE i \in kept : \A j \in kept : i <= j
           last == CHOOSE i \in kept : \A j \in kept : i >= j
           n == Len(text)
           m == Len(part)
<1>1. n \in Nat /\ m \in Nat /\ DOMAIN text = 1 .. n /\ m > 0  OBVIOUS
<1>2. PICK k \in 0 .. n - m : SubSeq(text, k + 1, k + m) = part
  BY HeldIsPart DEF IsPartOf
<1>3. k + m \in k .. n /\ k \in 0 .. n /\ (k + m) - k = m  BY <1>1
<1>4. \A i \in 1 .. m : text[k + i] = part[i]
  <2> DEFINE p == SubSeq(text, k + 1, k + m)
             b == k + m
  <2>1. b \in k .. n  BY <1>3
  <2> HIDE DEF b
  <2>2. \A i \in 1 .. b - k : SubSeq(text, k + 1, b)[i] = text[k + i]  BY <1>3, <2>1, PartIs
  <2> QED  BY <1>2, <1>3, <2>2 DEF b
<1>5. k + 1 \in kept /\ k + m \in kept
  <2>1. k + 1 \in 1 .. n /\ k + m \in 1 .. n /\ 1 \in 1 .. m /\ m \in 1 .. m  BY <1>1
  <2>2. text[k + 1] = part[1] /\ text[k + m] = part[m]  BY <1>4, <2>1
  <2> QED  BY <1>1, <2>1, <2>2
<1>6. kept \subseteq 1 .. n /\ kept # {}  BY <1>1, <1>5
<1> HIDE DEF kept
<1>7. first \in kept /\ \A j \in kept : first <= j
  <2>1. kept \subseteq Nat  BY <1>6
  <2>2. PICK i \in kept : \A j \in kept : i <= j  BY <1>6, <2>1, LeastNatural
  <2> QED  BY <2>2
<1>8. last \in kept /\ \A j \in kept : last >= j
  <2> DEFINE R == {n - i : i \in kept}
  <2>1. R \subseteq Nat /\ R # {}  BY <1>1, <1>6
  <2>2. PICK d \in R : \A e \in R : d <= e
    <3> HIDE DEF R
    <3> QED  BY <2>1, LeastNatural
  <2>3. PICK i \in kept : d = n - i  OBVIOUS
  <2>4. ASSUME NEW j \in kept  PROVE i >= j
    <3>1. n - j \in R /\ i \in 1 .. n /\ j \in 1 .. n  BY <1>6
    <3>2. n - i <= n - j  BY <2>2, <2>3, <3>1
    <3> QED  BY <1>1, <3>1, <3>2
  <2>5. \E i0 \in kept : \A j \in kept : i0 >= j  BY <2>4
  <2> QED  BY <2>5
<1>9. Lrtrim(text) = SubSeq(text, first, last)
  BY <1>6, Zenon DEF Lrtrim, kept
<1> HIDE DEF first, last
<1> DEFINE a == first - 1
<1>10. /\ a \in 0 .. n /\ k \in a .. n /\ k + m \in k .. n /\ last \in k + m .. n
       /\ a + 1 = first /\ last \in a .. n
  <2>1. first \in 1 .. n /\ last \in 1 .. n  BY <1>6, <1>7, <1>8
  <2>2. first <= k + 1 /\ last >= k + m  BY <1>5, <1>7, <1>8
  <2> QED  BY <1>1, <1>3, <2>1, <2>2
<1> DEFINE b == k + m
<1> HIDE DEF a, b
<1>11. b \in k .. n /\ last \in b .. n  BY <1>10 DEF b
<1>12. Holds(C, SubSeq(text, a + 1, last), SubSeq(text, k + 1, b))  BY <1>10, <1>11, PartHolds
<1>13. SubSeq(text, a + 1, last) \in Seq(C)  BY <1>10, PartIs
<1> QED  BY <1>2, <1>9, <1>10, <1>12, <1>13 DEF b

\* What is quoted of a part is in what is quoted of the text, if it has nothing in it that
\* removeControlChars or lrtrim would take.
LEMMA QuoteHolds ==
  ASSUME NEW C, NEW text \in Seq(C), NEW part \in Seq(C), Holds(C, text, part), Len(part) > 0,
         \A i \in 1 .. Len(part) : part[i] \notin Blanks \union Controls
  PROVE  IsPartOf(Escape(part), Escape(Lrtrim(RemoveControlChars(text))))
<1> DEFINE clean == [c \in C |-> IF c \in Controls THEN <<>> ELSE <<c>>]
           T == C \union {Backslash}
           quoted == [c \in C |-> IF c \in Escaped THEN <<Backslash, c>> ELSE <<c>>]
<1>1. IsPiece(clean, C, C)  BY DEF IsPiece
<1>2. IsPiece(quoted, C, T)
  <2>1. ASSUME NEW c \in C  PROVE quoted[c] \in Seq(T)
    <3>1. c \in T /\ Backslash \in T  OBVIOUS
    <3> HIDE DEF T
    <3>2. <<c>> \in Seq(T) /\ <<Backslash, c>> \in Seq(T)  BY <3>1
    <3> QED  BY <3>2
  <2> QED  BY <2>1 DEF IsPiece
<1>3. ASSUME NEW t \in Seq(C)
      PROVE  /\ RemoveControlChars(t) = FlattenSeq(Pieces(t, clean))
             /\ Escape(t) = FlattenSeq(Pieces(t, quoted))
  <2>1. \A i \in DOMAIN t : t[i] \in C  OBVIOUS
  <2>2. Pieces(t, clean) = [i \in DOMAIN t |-> IF t[i] \in Controls THEN <<>> ELSE <<t[i]>>]
    BY <2>1 DEF Pieces
  <2>3. Pieces(t, quoted)
          = [i \in DOMAIN t |-> IF t[i] \in Escaped THEN <<Backslash, t[i]>> ELSE <<t[i]>>]
    BY <2>1 DEF Pieces
  <2> QED  BY <2>2, <2>3 DEF RemoveControlChars, Escape
<1> HIDE DEF clean, quoted, T
<1>4. RemoveControlChars(part) = part
  <2> DEFINE seqs == Pieces(part, clean)
  <2>1. /\ seqs \in Seq(Seq(C)) /\ Len(seqs) = Len(part)
        /\ \A i \in 1 .. Len(part) : seqs[i] = clean[part[i]]
    BY <1>1, PiecesIs
  <2>2. \A i \in 1 .. Len(part) : clean[part[i]] = <<part[i]>>
    <3>1. \A i \in 1 .. Len(part) : part[i] \in C /\ part[i] \notin Controls  OBVIOUS
    <3> QED  BY <3>1 DEF clean
  <2> HIDE DEF seqs
  <2>3. FlattenSeq(seqs) = part  BY <2>1, <2>2, FlattenSingles
  <2> QED  BY <1>3, <2>3 DEF seqs
<1> DEFINE cleared == RemoveControlChars(text)
<1>5. cleared \in Seq(C) /\ Holds(C, cleared, part)
  <2>1. FlattenSeq(Pieces(text, clean)) \in Seq(C)
        /\ Holds(C, FlattenSeq(Pieces(text, clean)), FlattenSeq(Pieces(part, clean)))
    BY <1>1, PiecesHold
  <2> QED  BY <1>3, <1>4, <2>1
<1> HIDE DEF cleared
<1> DEFINE trimmed == Lrtrim(cleared)
<1>6. trimmed \in Seq(C) /\ Holds(C, trimmed, part)  BY <1>5, TrimHolds
<1> HIDE DEF trimmed
<1>7. /\ FlattenSeq(Pieces(part, quoted)) \in Seq(T)
      /\ Holds(T, FlattenSeq(Pieces(trimmed, quoted)), FlattenSeq(Pieces(part, quoted)))
  BY <1>2, <1>6, PiecesHold
<1>8. IsPartOf(Escape(part), Escape(trimmed))
  <2>1. IsPartOf(FlattenSeq(Pieces(part, quoted)), FlattenSeq(Pieces(trimmed, quoted)))
    BY <1>7, HeldIsPart
  <2> QED  BY <1>3, <1>6, <2>1
<1> QED  BY <1>8 DEF trimmed, cleared

\* A context holds the token it is the context of.
LEMMA ContextRight == ASSUME file \in Seq(FileChars) PROVE ContextHoldsToken
<1> DEFINE text == View(file)
           n == Len(text)
<1>1. text \in Seq(FileChars)  BY ViewIs
<1> HIDE DEF text
<1>2. n \in Nat  BY <1>1
<1>3. ASSUME NEW idx \in 0 .. n + 1
      PROVE  LET w == Window(text, idx) IN
             /\ 0 <= w[1] /\ w[1] <= w[2] /\ w[2] <= n
             /\ w[1] > 0 => IsDelim(text, w[1] - 1) /\ IsDelim(text, w[2])
  <2> DEFINE w == Window(text, idx)
  <2>0. idx \in Nat  BY <1>2
  <2>1. \/ w = <<0, 0>>
        \/ \E b \in idx + 1 .. n - 1 : w = <<0, b>>
        \/ \E a \in 1 .. idx - 1, b \in idx + 1 .. n - 1 :
              w = <<a + 1, b>> /\ IsDelim(text, a) /\ IsDelim(text, b)
    BY <1>1, <2>0, WindowIs
  <2> HIDE DEF w
  <2>2. CASE w = <<0, 0>>  BY <1>2, <2>2 DEF w
  <2>3. ASSUME NEW b \in idx + 1 .. n - 1, w = <<0, b>>
        PROVE  0 <= w[1] /\ w[1] <= w[2] /\ w[2] <= n /\ ~(w[1] > 0)
    BY <1>2, <2>0, <2>3
  <2>4. ASSUME NEW a \in 1 .. idx - 1, NEW b \in idx + 1 .. n - 1,
               w = <<a + 1, b>>, IsDelim(text, a), IsDelim(text, b)
        PROVE  /\ 0 <= w[1] /\ w[1] <= w[2] /\ w[2] <= n
               /\ IsDelim(text, w[1] - 1) /\ IsDelim(text, w[2])
    <3>1. w[1] = a + 1 /\ w[2] = b /\ (a + 1) - 1 = a  BY <2>4
    <3>2. 0 <= a + 1 /\ a + 1 <= b /\ b <= n  BY <1>2, <2>0
    <3> QED  BY <2>4, <3>1, <3>2
  <2> QED  BY <2>1, <2>2, <2>3, <2>4 DEF w
<1>4. ASSUME NEW w \in Words(text), Window(text, w[2]) # <<0, 0>>
      PROVE  /\ Window(text, w[2])[1] <= w[1] /\ w[2] <= Window(text, w[2])[2]
             /\ IsPartOf(Escape(Word(text, w)), Context(text, w[2]))
  <2> DEFINE u == Window(text, w[2])
             part == Word(text, w)
             p == w[1]
             q == w[2]
  <2>1. /\ p \in 0 .. n /\ q \in 0 .. n /\ p < q
        /\ \A i \in p + 1 .. q : text[i] \in WordChars
    BY DEF Words
  <2> HIDE DEF p, q
  <2>2. \/ \E b \in q + 1 .. n - 1 : u = <<0, b>>
        \/ \E a \in 1 .. q - 1, b \in q + 1 .. n - 1 : u = <<a + 1, b>> /\ IsDelim(text, a)
    <3>0. q \in Nat  BY <2>1
    <3> DEFINE v == Window(text, q)
    <3>1. \/ v = <<0, 0>>
          \/ \E b \in q + 1 .. n - 1 : v = <<0, b>>
          \/ \E a \in 1 .. q - 1, b \in q + 1 .. n - 1 :
                v = <<a + 1, b>> /\ IsDelim(text, a) /\ IsDelim(text, b)
      BY <1>1, <3>0, WindowIs
    <3>2. v = u  BY DEF q
    <3> HIDE DEF v
    <3> QED  BY <1>4, <3>1, <3>2
  <2>3. u[1] \in 0 .. p /\ u[2] \in q .. n
    <3>1. ASSUME NEW b \in q + 1 .. n - 1, u = <<0, b>>
          PROVE  u[1] \in 0 .. p /\ u[2] \in q .. n
      <4>1. u[1] = 0 /\ u[2] = b  BY <3>1
      <4> HIDE DEF u
      <4> QED  BY <1>2, <2>1, <4>1
    <3>2. ASSUME NEW a \in 1 .. q - 1, NEW b \in q + 1 .. n - 1,
                 u = <<a + 1, b>>, IsDelim(text, a)
          PROVE  u[1] \in 0 .. p /\ u[2] \in q .. n
      <4>1. u[1] = a + 1 /\ u[2] = b  BY <3>2
      <4> HIDE DEF u
      <4>2. text[a + 1] \notin WordChars  BY <3>2, BlanksAssumption DEF IsDelim
      <4>3. a + 1 \notin p + 1 .. q  BY <2>1, <4>2
      <4>4. a + 1 <= p  BY <1>2, <2>1, <4>3
      <4> QED  BY <1>2, <2>1, <4>1, <4>4
    <3> QED  BY <2>2, <3>1, <3>2
  <2> DEFINE c == u[1]
             d == u[2]
  <2>4. c \in 0 .. n /\ p \in c .. n /\ q \in p .. n /\ d \in q .. n
    <3> HIDE DEF u
    <3> QED  BY <1>2, <2>1, <2>3
  <2>5. Context(text, q) = Escape(Lrtrim(RemoveControlChars(SubSeq(text, c + 1, d))))
        /\ part = SubSeq(text, p + 1, q)
    BY DEF Context, Word, p, q
  <2> HIDE DEF c, d, u, part
  <2>6. Holds(FileChars, SubSeq(text, c + 1, d), SubSeq(text, p + 1, q))
    BY <1>1, <2>4, PartHolds
  <2>7. /\ part \in Seq(FileChars) /\ Len(part) = q - p
        /\ \A i \in 1 .. q - p : part[i] = text[p + i]
    BY <1>1, <2>1, <2>4, <2>5, PartIs
  <2>8. \A i \in 1 .. Len(part) : part[i] \notin Blanks \union Controls
    <3> SUFFICES ASSUME NEW i \in 1 .. Len(part)  PROVE part[i] \notin Blanks \union Controls
      OBVIOUS
    <3>1. p + i \in p + 1 .. q /\ i \in 1 .. q - p  BY <2>1, <2>7
    <3>2. part[i] \in WordChars  BY <2>1, <2>7, <3>1
    <3> QED  BY <3>2, BlanksAssumption
  <2>9. Len(part) > 0  BY <2>1, <2>7
  <2>10. SubSeq(text, c + 1, d) \in Seq(FileChars)
    <3>1. d \in c .. n /\ c \in 0 .. n  BY <2>4
    <3> QED  BY <1>1, <3>1, PartIs
  <2> DEFINE around == SubSeq(text, c + 1, d)
  <2>11. around \in Seq(FileChars) /\ Holds(FileChars, around, part)  BY <2>5, <2>6, <2>10
  <2> HIDE DEF around
  <2>12. IsPartOf(Escape(part), Escape(Lrtrim(RemoveControlChars(around))))
    BY <2>7, <2>8, <2>9, <2>11, QuoteHolds
  <2>13. u[1] <= p /\ q <= u[2]  BY <2>1, <2>3
  <2> QED  BY <2>5, <2>12, <2>13 DEF around, part, u, p, q
<1> QED  BY <1>3, <1>4 DEF ContextHoldsToken, text

-----------------------------------------------------------------------------
(* Numbers and their digits                                                 *)

\* The powers of Base are numbers, grow, and are larger than their exponents.
LEMMA Powers ==
  /\ \A d \in 0 .. MaxDigits : Base ^ d \in Nat /\ Base ^ d >= d + 1
  /\ \A d \in 0 .. MaxDigits - 1 : Base ^ (d + 1) >= 2 * Base ^ d
<1> USE PowersAssumption, BaseAssumption
<1>1. \A d \in 0 .. MaxDigits - 1 : Base ^ d \in Nat => Base ^ (d + 1) >= 2 * Base ^ d
  <2> SUFFICES ASSUME NEW d \in 0 .. MaxDigits - 1, Base ^ d \in Nat
               PROVE  Base ^ (d + 1) >= 2 * Base ^ d
    OBVIOUS
  <2>1. \A p \in Nat : Base * p >= 2 * p  OBVIOUS
  <2> QED  BY <2>1
<1>2. \A d \in 0 .. MaxDigits : Base ^ d \in Nat /\ Base ^ d >= d + 1
  <2> DEFINE Wrong == {d \in 0 .. MaxDigits : ~ (Base ^ d \in Nat /\ Base ^ d >= d + 1)}
  <2> SUFFICES ASSUME Wrong # {} PROVE FALSE  OBVIOUS
  <2>1. PICK d \in Wrong : \A y \in Wrong : d <= y
    <3>1. Wrong \subseteq Nat  OBVIOUS
    <3> HIDE DEF Wrong
    <3> QED  BY <3>1, LeastNatural
  <2>2. d # 0  OBVIOUS
  <2>3. d - 1 \in 0 .. MaxDigits - 1 /\ (d - 1) + 1 = d /\ d \in Nat  BY <2>2
  <2>4. d - 1 \notin Wrong  BY <2>1, <2>3
  <2>5. Base ^ (d - 1) \in Nat /\ Base ^ (d - 1) >= d  BY <2>3, <2>4
  <2>6. Base ^ d = Base * Base ^ (d - 1)  BY <2>3
  <2>7. Base ^ d >= 2 * Base ^ (d - 1)  BY <1>1, <2>3, <2>5
  <2>8. Base ^ d \in Nat
    <3>1. \A p \in Nat : Base * p \in Nat  OBVIOUS
    <3> QED  BY <2>5, <2>6, <3>1
  <2>9. Base ^ d >= d + 1  BY <2>2, <2>3, <2>5, <2>7, <2>8
  <2> QED  BY <2>8, <2>9
<1>3. \A d \in 0 .. MaxDigits - 1 : Base ^ (d + 1) >= 2 * Base ^ d  BY <1>1, <1>2
<1> QED  BY <1>2, <1>3

\* What Digits chooses.
LEMMA DigitsOf ==
  ASSUME NEW n \in Nat, n < Base ^ MaxDigits
  PROVE  /\ Digits(n) \in 1 .. MaxDigits
         /\ n < Base ^ Digits(n)
         /\ Digits(n) = 1 \/ Base ^ (Digits(n) - 1) <= n
<1> DEFINE Enough == {d \in 1 .. MaxDigits : n < Base ^ d}
<1>1. MaxDigits \in Nat \ {0}  BY PowersAssumption
<1>2. MaxDigits \in Enough  BY <1>1
<1>3. Enough \subseteq Nat  OBVIOUS
<1>4. PICK d \in Enough : \A y \in Enough : d <= y
  <2> HIDE DEF Enough
  <2> QED  BY <1>2, <1>3, LeastNatural
<1>5. d = 1 \/ Base ^ (d - 1) <= n
  <2> SUFFICES ASSUME d # 1 PROVE Base ^ (d - 1) <= n  OBVIOUS
  <2>1. d - 1 \in 1 .. MaxDigits /\ d - 1 < d /\ d \in Nat  BY <1>1
  <2>2. d - 1 \notin Enough  BY <1>4, <2>1
  <2>3. Base ^ (d - 1) \in Nat  BY <1>1, <2>1, Powers
  <2> QED  BY <2>1, <2>2, <2>3
<1> DEFINE Right(e) == n < Base ^ e /\ (e = 1 \/ Base ^ (e - 1) <= n)
<1>6. \E e \in 1 .. MaxDigits : Right(e)  BY <1>5
<1>7. Digits(n) = CHOOSE e \in 1 .. MaxDigits : Right(e)  BY DEF Digits
<1> HIDE DEF Right
<1>8. Digits(n) \in 1 .. MaxDigits /\ Right(Digits(n))  BY <1>6, <1>7
<1> QED  BY <1>8 DEF Right

\* Powers do not shrink.
LEMMA PowersGrow ==
  ASSUME NEW d \in 0 .. MaxDigits, NEW e \in 0 .. MaxDigits, d <= e
  PROVE  Base ^ d <= Base ^ e
<1> DEFINE Wrong == {x \in 0 .. MaxDigits : d <= x /\ ~ (Base ^ d <= Base ^ x)}
<1> SUFFICES ASSUME Wrong # {} PROVE FALSE  OBVIOUS
<1>0. MaxDigits \in Nat  BY PowersAssumption
<1>1. PICK x \in Wrong : \A y \in Wrong : x <= y
  <2>1. Wrong \subseteq Nat  OBVIOUS
  <2> HIDE DEF Wrong
  <2> QED  BY <2>1, LeastNatural
<1>2. Base ^ d \in Nat /\ Base ^ x \in Nat  BY Powers
<1>3. x # d  BY <1>2
<1>4. x - 1 \in 0 .. MaxDigits - 1 /\ d <= x - 1 /\ (x - 1) + 1 = x /\ x \in Nat
  BY <1>0, <1>3
<1>5. Base ^ d <= Base ^ (x - 1)  BY <1>0, <1>1, <1>4
<1>6. Base ^ (x - 1) \in Nat /\ Base ^ x >= 2 * Base ^ (x - 1)  BY <1>0, <1>4, Powers
<1> QED  BY <1>2, <1>5, <1>6

\* A frame is one byte shorter than it declares, or just as long.
LEMMA FrameLengthIs ==
  ASSUME NEW p \in Nat, Fits(p)
  PROVE  /\ DeclaredSize(p) \in Nat /\ FrameLength(p) \in Nat
         /\ FrameLength(p) \in {DeclaredSize(p) - 1, DeclaredSize(p)}
<1> DEFINE d == Digits(p)
           s == DeclaredSize(p)
           e == Digits(s)
<1>0. MaxDigits \in Nat \ {0} /\ Base ^ MaxDigits \in Nat  BY PowersAssumption, Powers
<1>1. p + MaxDigits + 1 < Base ^ MaxDigits  BY DEF Fits
<1>2. p < Base ^ MaxDigits  BY <1>0, <1>1
<1>3. /\ d \in 1 .. MaxDigits /\ p < Base ^ d
      /\ d = 1 \/ Base ^ (d - 1) <= p
  BY <1>2, DigitsOf
<1> HIDE DEF d
<1>4. s = p + d + 1  BY DEF DeclaredSize, d
<1>5. s \in Nat /\ s < Base ^ MaxDigits  BY <1>0, <1>1, <1>3, <1>4
<1> HIDE DEF s
<1>6. /\ e \in 1 .. MaxDigits /\ s < Base ^ e
      /\ e = 1 \/ Base ^ (e - 1) <= s
  BY <1>5, DigitsOf
<1> HIDE DEF e
<1>7. e >= d
  <2> SUFFICES ASSUME e < d PROVE FALSE  BY <1>3, <1>6
  <2>1. d # 1 /\ d - 1 \in 0 .. MaxDigits /\ e \in 0 .. MaxDigits /\ e <= d - 1
    BY <1>0, <1>3, <1>6
  <2>2. Base ^ e <= Base ^ (d - 1)  BY <2>1, PowersGrow
  <2>3. Base ^ e \in Nat /\ Base ^ (d - 1) \in Nat  BY <2>1, Powers
  <2>4. Base ^ (d - 1) <= p  BY <1>3, <2>1
  <2> QED  BY <1>3, <1>4, <1>5, <1>6, <2>2, <2>3, <2>4
<1>8. e <= d + 1
  <2> SUFFICES ASSUME e > d + 1 PROVE FALSE  BY <1>3, <1>6
  <2>1. d \in 0 .. MaxDigits - 1 /\ d + 1 \in 0 .. MaxDigits /\ e - 1 \in 0 .. MaxDigits
        /\ d + 1 <= e - 1 /\ e # 1 /\ d \in 0 .. MaxDigits
    BY <1>0, <1>3, <1>6
  <2>2. Base ^ (d + 1) <= Base ^ (e - 1)  BY <2>1, PowersGrow
  <2>3. Base ^ (d + 1) >= 2 * Base ^ d /\ Base ^ d >= d + 1  BY <2>1, Powers
  <2>4. Base ^ d \in Nat /\ Base ^ (d + 1) \in Nat /\ Base ^ (e - 1) \in Nat  BY <2>1, Powers
  <2>5. Base ^ (e - 1) <= s  BY <1>6, <2>1
  <2> QED  BY <1>3, <1>4, <2>2, <2>3, <2>4, <2>5
<1>9. FrameLength(p) = e + p  BY DEF FrameLength, e, s
<1>10. s \in Nat /\ e + p \in Nat /\ e + p \in {s - 1, s}
  BY <1>3, <1>4, <1>5, <1>6, <1>7, <1>8
<1> QED  BY <1>9, <1>10 DEF s

\* Dividing by a product.
LEMMA DivDiv ==
  ASSUME NEW n \in Nat, NEW q \in Nat \ {0}, NEW b \in Nat \ {0}
  PROVE  (n \div q) \div b = n \div (b * q)
<1> DEFINE x == n \div q
           r == n % q
           y == x \div b
           s == x % b
<1>1. x \in Nat /\ r \in 0 .. q - 1 /\ n = q * x + r  OBVIOUS
<1> HIDE DEF x, r
<1>2. y \in Nat /\ s \in 0 .. b - 1 /\ x = b * y + s  BY <1>1
<1> HIDE DEF y, s
<1>3. n = (b * q) * y + (q * s + r)  BY <1>1, <1>2
<1>4. q * s + r \in 0 .. (b * q) - 1
  <2>1. q * s <= q * (b - 1) /\ q * s >= 0  BY <1>1, <1>2
  <2>2. q * (b - 1) = b * q - q  OBVIOUS
  <2>3. q * s \in Int /\ b * q \in Int /\ r \in Int  BY <1>1, <1>2
  <2> DEFINE u == q * s
             v == b * q
  <2>4. u \in Int /\ v \in Int /\ u >= 0 /\ u <= v - q /\ r >= 0 /\ r <= q - 1 /\ r \in Int
    BY <1>1, <2>1, <2>2, <2>3
  <2> HIDE DEF u, v
  <2>5. u + r \in 0 .. v - 1  BY <2>4
  <2> QED  BY <2>5 DEF u, v
<1> DEFINE p == b * q
           t == q * s + r
<1>5. p \in Nat \ {0} /\ t \in 0 .. p - 1 /\ n = p * y + t  BY <1>3, <1>4
<1> HIDE DEF p, t
<1>6. n \div p = y  BY <1>2, <1>5
<1> QED  BY <1>6 DEF x, y, p

\* What to_string writes: digits only, and their number.
LEMMA SizeTextIs ==
  ASSUME NEW n \in Nat, n < Base ^ MaxDigits
  PROVE  /\ SizeText(n) \in Seq(Range(DigitChars))
         /\ Len(SizeText(n)) = Digits(n)
         /\ \A i \in 1 .. Digits(n) :
              SizeText(n)[i] = DigitChars[((n \div Base ^ (Digits(n) - i)) % Base) + 1]
<1> DEFINE d == Digits(n)
           D == Range(DigitChars)
           t == SizeText(n)
<1>1. d \in 1 .. MaxDigits /\ MaxDigits \in Nat  BY DigitsOf, PowersAssumption
<1>2. t = [i \in 1 .. d |-> DigitChars[((n \div Base ^ (d - i)) % Base) + 1]]  BY DEF SizeText
<1> HIDE DEF d, t
<1>3. ASSUME NEW i \in 1 .. d  PROVE t[i] \in D
  <2>1. d - i \in 0 .. MaxDigits  BY <1>1
  <2>2. Base ^ (d - i) \in Nat \ {0}
    <3>1. Base ^ (d - i) \in Nat /\ Base ^ (d - i) >= (d - i) + 1  BY <2>1, Powers
    <3> QED  BY <2>1, <3>1
  <2> DEFINE q == Base ^ (d - i)
             v == (n \div q) % Base
  <2>3. v \in 0 .. Base - 1
    <3>1. q \in Nat \ {0}  BY <2>2
    <3> HIDE DEF q
    <3>2. n \div q \in Nat  BY <3>1
    <3> QED  BY <3>2, BaseAssumption
  <2>4. t[i] = DigitChars[v + 1]  BY <1>2
  <2> HIDE DEF v
  <2>5. v + 1 \in DOMAIN DigitChars
    <3>1. DOMAIN DigitChars = 1 .. Base  BY DigitsAssumption
    <3> QED  BY <2>3, <3>1, BaseAssumption
  <2> QED  BY <2>4, <2>5 DEF Range
<1>4. t \in [1 .. d -> D]
  <2> HIDE DEF D
  <2> QED  BY <1>2, <1>3
<1>5. d \in Nat  BY <1>1
<1>6. t \in Seq(D) /\ Len(t) = d  BY <1>4, <1>5, IsSequence
<1> QED  BY <1>2, <1>6 DEF d, t, D

\* What std::stoul makes of the first part.
NumberOf(part) ==
    LET value(d) == (CHOOSE n \in DOMAIN DigitChars : DigitChars[n] = d) - 1
        ends == {i \in DOMAIN part : part[i] \notin Range(DigitChars)}
        digits == IF ends = {} THEN Len(part) ELSE Min(ends) - 1
        number[i \in 0 .. digits] ==
          IF i = 0 THEN 0 ELSE number[i - 1] * Base + value(part[i])
    IN IF digits = 0 THEN NoValue ELSE number[digits]

\* The number that the header begins with, if its first part is what to_string wrote of it.
LEMMA NumberIs ==
  ASSUME NEW n \in Nat, n < Base ^ MaxDigits, NEW header,
         Split(header, Dashes, TRUE)[1] = SizeText(n)
  PROVE  DeserializeSize(header) = n
<1> DEFINE part == SizeText(n)
           d == Digits(n)
           value(c) == (CHOOSE k \in DOMAIN DigitChars : DigitChars[k] = c) - 1
           ends == {i \in DOMAIN part : part[i] \notin Range(DigitChars)}
           Whole(f) == [i \in 0 .. d |-> IF i = 0 THEN 0 ELSE f[i - 1] * Base + value(part[i])]
           number == CHOOSE f : f = Whole(f)
           left == [i \in 0 .. d |-> n \div Base ^ (d - i)]
<1>1. /\ part \in Seq(Range(DigitChars)) /\ Len(part) = d
      /\ \A i \in 1 .. d : part[i] = DigitChars[((n \div Base ^ (d - i)) % Base) + 1]
  BY SizeTextIs
<1>2. /\ d \in 1 .. MaxDigits /\ MaxDigits \in Nat /\ n < Base ^ d /\ Base \in Nat \ {0, 1}
  BY DigitsOf, PowersAssumption, BaseAssumption
<1>3. ends = {}
  <2> DEFINE D == Range(DigitChars)
  <2>1. part \in Seq(D)  BY <1>1
  <2> HIDE DEF D, part
  <2>2. \A i \in DOMAIN part : part[i] \in D  BY <2>1
  <2> QED  BY <2>2 DEF D
<1>4. DeserializeSize(header) = number[d]
  <2>1. (IF ends = {} THEN Len(part) ELSE Min(ends) - 1) = d  BY <1>1, <1>3
  <2>2. ~(d = 0)  BY <1>2
  <2> DEFINE digits == IF ends = {} THEN Len(part) ELSE Min(ends) - 1
             count[i \in 0 .. digits] == IF i = 0 THEN 0 ELSE count[i - 1] * Base + value(part[i])
  <2>3. DeserializeSize(header) = IF digits = 0 THEN NoValue ELSE count[digits]
    <3>1. DeserializeSize(header) = NumberOf(Split(header, Dashes, TRUE)[1])
      BY Zenon DEF DeserializeSize, NumberOf
    <3>2. NumberOf(part) = IF digits = 0 THEN NoValue ELSE count[digits]
      BY Zenon DEF NumberOf
    <3> QED  BY <3>1, <3>2
  <2>4. digits = d  BY <2>1
  <2>5. DeserializeSize(header) = count[digits]
    <3> HIDE DEF count, digits
    <3> QED  BY <2>2, <2>3, <2>4
  <2>6. count = number  BY <2>4
  <2> QED  BY <2>4, <2>5, <2>6
<1>5. \A v \in 0 .. Base - 1 : value(DigitChars[v + 1]) = v
  <2> SUFFICES ASSUME NEW v \in 0 .. Base - 1  PROVE value(DigitChars[v + 1]) = v  OBVIOUS
  <2>1. DOMAIN DigitChars = 1 .. Base  BY DigitsAssumption
  <2>2. v + 1 \in DOMAIN DigitChars  BY <1>2, <2>1
  <2> DEFINE k == CHOOSE k \in DOMAIN DigitChars : DigitChars[k] = DigitChars[v + 1]
  <2>3. k \in DOMAIN DigitChars /\ DigitChars[k] = DigitChars[v + 1]  BY <2>2
  <2> HIDE DEF k
  <2>4. k = v + 1  BY <2>2, <2>3, DigitsAssumption DEF IsInjective
  <2>5. k - 1 = v  BY <2>4
  <2> QED  BY <2>5 DEF k
<1>6. \A i \in 0 .. d : left[i] \in Nat
  <2> SUFFICES ASSUME NEW i \in 0 .. d  PROVE n \div Base ^ (d - i) \in Nat  OBVIOUS
  <2>1. d - i \in 0 .. MaxDigits  BY <1>2
  <2>2. Base ^ (d - i) \in Nat /\ Base ^ (d - i) >= (d - i) + 1  BY <2>1, Powers
  <2> DEFINE q == Base ^ (d - i)
  <2>3. q \in Nat \ {0}  BY <2>1, <2>2
  <2> HIDE DEF q
  <2>4. n \div q \in Nat  BY <2>3
  <2> QED  BY <2>4 DEF q
<1>7. left[0] = 0
  <2> DEFINE q == Base ^ d
  <2>1. d \in 0 .. MaxDigits /\ d - 0 = d /\ 0 \in 0 .. d  BY <1>2
  <2>2. q \in Nat  BY <2>1, Powers
  <2>3. n < q  BY <1>2
  <2>4. left[0] = n \div q  BY <2>1
  <2> HIDE DEF q, left
  <2>5. n \div q = 0  BY <2>2, <2>3
  <2> QED  BY <2>4, <2>5
<1>8. ASSUME NEW i \in 1 .. d  PROVE left[i] = left[i - 1] * Base + value(part[i])
  <2> DEFINE e == d - i
             q == Base ^ e
             x == n \div q
  <2>1. e \in 0 .. MaxDigits - 1 /\ d - (i - 1) = e + 1 /\ e \in 0 .. MaxDigits
        /\ i \in 0 .. d /\ i - 1 \in 0 .. d
    BY <1>2
  <2>2. q \in Nat \ {0}
    <3>1. q \in Nat /\ q >= e + 1  BY <2>1, Powers
    <3> QED  BY <2>1, <3>1
  <2>3. Base ^ (e + 1) = Base * q  BY <2>1, PowersAssumption
  <2>4. x \in Nat
    <3> HIDE DEF q
    <3> QED  BY <2>2
  <2>5. left[i] = x  BY <2>1
  <2>6. left[i - 1] = n \div (Base * q)  BY <2>1, <2>3
  <2>7. n \div (Base * q) = x \div Base
    <3> HIDE DEF q
    <3> QED  BY <1>2, <2>2, DivDiv
  <2>8. part[i] = DigitChars[(x % Base) + 1]  BY <1>1
  <2> HIDE DEF x, left, q, e
  <2>9. x % Base \in 0 .. Base - 1 /\ x = (x \div Base) * Base + (x % Base)
    <3>1. x = Base * (x \div Base) + (x % Base) /\ x % Base \in 0 .. Base - 1  BY <1>2, <2>4
    <3>2. x \div Base \in Nat  BY <1>2, <2>4
    <3>3. Base * (x \div Base) = (x \div Base) * Base  BY <1>2, <3>2
    <3> QED  BY <3>1, <3>3
  <2>10. value(part[i]) = x % Base
    <3>1. value(DigitChars[(x % Base) + 1]) = x % Base  BY <1>5, <2>9
    <3> QED  BY <2>8, <3>1
  <2> HIDE DEF value
  <2> QED  BY <2>5, <2>6, <2>7, <2>9, <2>10
<1> HIDE DEF value
<1>9. left = Whole(left)
  <2>1. \A i \in 0 .. d : left[i] = IF i = 0 THEN 0 ELSE left[i - 1] * Base + value(part[i])
    <3> SUFFICES ASSUME NEW i \in 0 .. d
                 PROVE  left[i] = IF i = 0 THEN 0 ELSE left[i - 1] * Base + value(part[i])
      OBVIOUS
    <3>1. CASE i = 0  BY <1>7, <3>1
    <3>2. CASE i # 0
      <4>1. i \in 1 .. d  BY <1>2, <3>2
      <4> HIDE DEF left
      <4> QED  BY <1>8, <3>2, <4>1
    <3> QED  BY <3>1, <3>2
  <2>2. DOMAIN left = 0 .. d /\ left = [i \in 0 .. d |-> left[i]]  OBVIOUS
  <2> HIDE DEF left
  <2> QED  BY <2>1, <2>2
<1>10. number = Whole(number)
  <2> HIDE DEF Whole, left
  <2> QED  BY <1>9, Zenon
<1> HIDE DEF number
<1> DEFINE Same == {i \in 0 .. d : number[i] = left[i]}
<1>11. 0 \in Same
  <2>1. 0 \in 0 .. d  BY <1>2
  <2>2. number[0] = 0  BY <1>10, <2>1
  <2> HIDE DEF left
  <2> QED  BY <1>7, <2>1, <2>2
<1>12. ASSUME NEW i \in 0 .. d - 1, i \in Same  PROVE i + 1 \in Same
  <2>1. i + 1 \in 1 .. d /\ i + 1 \in 0 .. d /\ (i + 1) - 1 = i /\ i + 1 # 0  BY <1>2
  <2>2. number[i + 1] = number[i] * Base + value(part[i + 1])
    <3>1. \A j \in 0 .. d :
            number[j] = IF j = 0 THEN 0 ELSE number[j - 1] * Base + value(part[j])
      BY <1>10
    <3> QED  BY <2>1, <3>1
  <2> HIDE DEF left
  <2>3. left[i + 1] = left[i] * Base + value(part[i + 1])  BY <1>8, <2>1
  <2> QED  BY <1>12, <2>1, <2>2, <2>3
<1>13. number[d] = left[d]
  <2>1. d \in Nat /\ d \in 0 .. d  BY <1>2
  <2> HIDE DEF Same, d
  <2>2. 0 .. d \subseteq Same  BY <1>11, <1>12, <2>1, Induction
  <2> QED  BY <2>1, <2>2 DEF Same
<1>14. left[d] = n
  <2>1. d \in 0 .. d /\ d - d = 0  BY <1>2
  <2>2. left[d] = n \div Base ^ 0  BY <2>1
  <2>3. left[d] = n \div 1  BY <2>2, PowersAssumption
  <2> HIDE DEF left
  <2> QED  BY <2>3
<1> QED  BY <1>4, <1>13, <1>14

-----------------------------------------------------------------------------
(* split                                                                    *)

\* Where the part that begins at first may end.
Ends(src, first, delim) == {i \in first .. Len(src) : EndsPart(src, first, i, delim)}

\* The loop of split as an equation for the parts from each character on.
IsSplit(from, src, delim, C) ==
    /\ from \in [1 .. Len(src) + Len(delim) -> Seq(Seq(C))]
    /\ \A first \in 1 .. Len(src) + Len(delim) :
         from[first] =
           IF Ends(src, first, delim) = {} THEN <<SubSeq(src, first, Len(src))>>
           ELSE <<SubSeq(src, first, Min(Ends(src, first, delim)) - 1)>>
                \o from[Min(Ends(src, first, delim)) + Len(delim)]

\* The loop of split has a solution, and split is its parts from the first character on.
LEMMA SplitFrom ==
  ASSUME NEW C, NEW src \in Seq(C), NEW delim, Len(delim) \in Nat \ {0}
  PROVE  \E from : /\ IsSplit(from, src, delim, C)
                   /\ \A skipBody \in BOOLEAN :
                        Split(src, delim, skipBody) =
                          IF skipBody /\ Len(from[1]) > 2 THEN SubSeq(from[1], 1, 2) ELSE from[1]
<1> DEFINE n == Len(src)
           b == Len(delim)
           D == 1 .. n + b
           V == Seq(Seq(C))
           E(first) == Ends(src, first, delim)
           end(first) == Min(E(first))
           Whole(f) == [first \in D |->
                          IF E(first) = {} THEN <<SubSeq(src, first, n)>>
                          ELSE <<SubSeq(src, first, end(first) - 1)>> \o f[end(first) + b]]
           N == n + b
           rank == [first \in D |-> n + b - first]
           stops == {first \in D : E(first) = {}}
           value == [first \in D |-> <<SubSeq(src, first, n)>>]
           next == [first \in D |-> end(first) + b]
           step == [cv \in D \X V |-> <<SubSeq(src, cv[1], end(cv[1]) - 1)>> \o cv[2]]
           loop == CHOOSE f : f = Whole(f)
<1>1. n \in Nat /\ b \in Nat /\ b >= 1 /\ N \in Nat  OBVIOUS
<1>2. ASSUME NEW first \in D, E(first) # {}
      PROVE  end(first) \in first .. n
  <2>1. E(first) \subseteq first .. n  BY DEF Ends
  <2> HIDE DEF E
  <2>2. E(first) \subseteq Nat  BY <1>1, <2>1
  <2>3. Min(E(first)) \in E(first)  BY <1>2, <2>2, MinIsLeast
  <2> QED  BY <2>1, <2>3
<1> HIDE DEF E, end, b
<1>3. \A first \in D, k \in Int : k <= n => SubSeq(src, first, k) \in Seq(C)
  <2> SUFFICES ASSUME NEW first \in D, NEW k \in Int, k <= n
               PROVE  SubSeq(src, first, k) \in Seq(C)
    OBVIOUS
  <2>1. \A i \in first .. k : src[i] \in C  BY <1>1
  <2>2. first \in Int  OBVIOUS
  <2> HIDE DEF D
  <2> QED  BY <2>1, <2>2, SubSeqProperties
<1>4. \A x \in Seq(C) : <<x>> \in V  OBVIOUS
<1>5. ASSUME NEW c \in D  PROVE value[c] \in V
  <2>1. SubSeq(src, c, n) \in Seq(C)  BY <1>1, <1>3
  <2> HIDE DEF V
  <2> QED  BY <1>4, <2>1
<1>6. ASSUME NEW c \in D, E(c) # {}
      PROVE  /\ next[c] = end(c) + b /\ end(c) + b \in D /\ rank[end(c) + b] < rank[c]
             /\ \A v \in V : /\ step[<<c, v>>] = <<SubSeq(src, c, end(c) - 1)>> \o v
                             /\ step[<<c, v>>] \in V
  <2>1. end(c) \in c .. n  BY <1>2, <1>6
  <2>2. end(c) + b \in D  BY <1>1, <2>1
  <2>3. n + b - (end(c) + b) < n + b - c  BY <1>1, <2>1
  <2>4. rank[end(c) + b] < rank[c]  BY <2>2, <2>3
  <2>5. ASSUME NEW v \in V
        PROVE  step[<<c, v>>] = <<SubSeq(src, c, end(c) - 1)>> \o v /\ step[<<c, v>>] \in V
    <3>1. step[<<c, v>>] = <<SubSeq(src, c, end(c) - 1)>> \o v
      <4> HIDE DEF V
      <4> QED  OBVIOUS
    <3>2. end(c) - 1 \in Int /\ end(c) - 1 <= n  BY <1>1, <2>1
    <3>3. <<SubSeq(src, c, end(c) - 1)>> \in V  BY <1>3, <1>4, <3>2
    <3> DEFINE x == <<SubSeq(src, c, end(c) - 1)>>
               W == Seq(C)
    <3>4. x \in Seq(W) /\ v \in Seq(W)  BY <3>3
    <3> HIDE DEF x, W
    <3>5. x \o v \in Seq(W)  BY <3>4, ConcatIs
    <3> QED  BY <3>1, <3>5 DEF x, W
  <2> QED  BY <2>2, <2>4, <2>5
<1>7. \A c \in D : rank[c] \in 0 .. N  BY <1>1
<1>8. IsRecursion(D, V, N, rank, stops, value, next, step)
  <2>1. rank \in [D -> 0 .. N]  BY <1>7
  <2>2. \A c \in D : c \notin stops => E(c) # {}  OBVIOUS
  <2> HIDE DEF D, V, N, rank, stops, value, next, step
  <2> QED  BY <1>1, <1>5, <1>6, <2>1, <2>2 DEF IsRecursion
<1>9. PICK f : Solves(f, D, V, stops, value, next, step)
  <2> HIDE DEF D, V, N, rank, stops, value, next, step
  <2> QED  BY <1>8, RecursionExists
<1>10. /\ f \in [D -> V]
       /\ \A c \in D : f[c] = IF c \in stops THEN value[c] ELSE step[<<c, f[next[c]]>>]
  <2> HIDE DEF D, V, stops, value, next, step
  <2> QED  BY <1>9 DEF Solves
<1>11. ASSUME NEW c \in D
       PROVE  f[c] = IF E(c) = {} THEN <<SubSeq(src, c, n)>>
                     ELSE <<SubSeq(src, c, end(c) - 1)>> \o f[end(c) + b]
  <2>1. CASE E(c) = {}
    <3>1. c \in stops /\ value[c] = <<SubSeq(src, c, n)>>  BY <2>1
    <3> HIDE DEF stops, value
    <3> QED  BY <1>10, <2>1, <3>1
  <2>2. CASE E(c) # {}
    <3>1. c \notin stops  BY <2>2
    <3>2. f[c] = step[<<c, f[end(c) + b]>>]
      <4>1. next[c] = end(c) + b  BY <1>6, <2>2
      <4> HIDE DEF stops, value, next, step
      <4> QED  BY <1>10, <3>1, <4>1
    <3>3. f[end(c) + b] \in V  BY <1>6, <1>10, <2>2
    <3> HIDE DEF D, V, step
    <3> QED  BY <1>6, <2>2, <3>2, <3>3
  <2> QED  BY <2>1, <2>2
<1>12. f = Whole(f)
  <2> HIDE DEF D, V
  <2> QED  BY <1>10, <1>11
<1>13. loop = Whole(loop)
  <2> HIDE DEF Whole
  <2> QED  BY <1>12, Zenon
<1>14. \A skipBody \in BOOLEAN :
         Split(src, delim, skipBody) =
           IF skipBody /\ Len(loop[1]) > 2 THEN SubSeq(loop[1], 1, 2) ELSE loop[1]
  BY Zenon DEF Split, Skip, E, end, b, Ends
<1> HIDE DEF loop
<1>15. \A c \in D : f[c] = loop[c]
  <2>1. ASSUME NEW c \in D
        PROVE  \/ f[c] = loop[c]
               \/ /\ next[c] \in D /\ rank[next[c]] < rank[c]
                  /\ f[next[c]] = loop[next[c]] => f[c] = loop[c]
    <3>1. loop[c] = IF E(c) = {} THEN <<SubSeq(src, c, n)>>
                    ELSE <<SubSeq(src, c, end(c) - 1)>> \o loop[end(c) + b]
      BY <1>13
    <3>2. CASE E(c) = {}  BY <1>11, <3>1, <3>2
    <3>3. CASE E(c) # {}
      <4>1. next[c] = end(c) + b /\ end(c) + b \in D /\ rank[end(c) + b] < rank[c]
        BY <1>6, <3>3
      <4> HIDE DEF D, V, next, rank, n
      <4> QED  BY <1>11, <3>1, <3>3, <4>1
    <3> QED  BY <3>2, <3>3
  <2>2. rank \in [D -> 0 .. N]  BY <1>7
  <2> HIDE DEF D, N, rank, next
  <2>3. AgreeIfNext(D, N, rank, next, f, loop)  BY <1>1, <2>1, <2>2 DEF AgreeIfNext
  <2> QED  BY <2>3, RecursionsAgree
<1>16. 1 \in D  BY <1>1
<1>17. IsSplit(f, src, delim, C)
  <2> HIDE DEF V
  <2> QED  BY <1>10, <1>11 DEF IsSplit, E, end, b, V
<1> HIDE DEF D
<1> QED  BY <1>14, <1>15, <1>16, <1>17

\* What stands in a text from a character on.
StandsAt(src, first, part) == \A i \in 1 .. Len(part) : src[(first - 1) + i] = part[i]

\* What a text goes on with from a character on.
GoesOn(src, first, rest) ==
    /\ Len(src) = (first - 1) + Len(rest)
    /\ \A i \in 1 .. Len(rest) : src[(first - 1) + i] = rest[i]

\* A part that no boundary begins in, before the one that ends it.
Unbroken(part) == \A i \in 2 .. Len(part) : ~Matches(part \o Boundary, i, Boundary)

\* What comes after the first of two pieces.
LEMMA GoesOnAfter ==
  ASSUME NEW C, NEW src \in Seq(C), NEW s \in Seq(C), NEW t \in Seq(C),
         NEW first \in Nat \ {0}, GoesOn(src, first, s \o t)
  PROVE  GoesOn(src, first + Len(s), t) /\ StandsAt(src, first, s)
<1> DEFINE m == Len(s)
           n == Len(t)
           st == s \o t
<1>1. /\ m \in Nat /\ n \in Nat /\ Len(st) = m + n
      /\ \A i \in 1 .. m : st[i] = s[i]
      /\ \A i \in 1 .. n : st[m + i] = t[i]
  BY ConcatIs
<1> HIDE DEF m, n, st
<1>2. /\ Len(src) = (first - 1) + (m + n)
      /\ \A i \in 1 .. m + n : src[(first - 1) + i] = st[i]
  BY <1>1 DEF GoesOn, st
<1>3. Len(src) = ((first + m) - 1) + n  BY <1>1, <1>2
<1>4. ASSUME NEW i \in 1 .. n  PROVE src[((first + m) - 1) + i] = t[i]
  <2>1. m + i \in 1 .. m + n /\ (first - 1) + (m + i) = ((first + m) - 1) + i  BY <1>1
  <2> QED  BY <1>1, <1>2, <2>1
<1>5. ASSUME NEW i \in 1 .. m  PROVE src[(first - 1) + i] = s[i]
  <2>1. i \in 1 .. m + n  BY <1>1
  <2> QED  BY <1>1, <1>2, <2>1
<1> QED  BY <1>3, <1>4, <1>5 DEF GoesOn, StandsAt, m, n

\* The text in which a part is looked for is long enough to see that no boundary begins there.
LEMMA NoMatch ==
  ASSUME NEW C, NEW src \in Seq(C), NEW s \in Seq(C),
         NEW first \in Nat \ {0}, NEW i \in 1 .. Len(s),
         \A k \in 1 .. Len(s) : src[(first - 1) + k] = s[k],
         (first - 1) + Len(s) <= Len(src),
         NEW B \in Seq(C), ~Matches(s, i, B)
  PROVE  ~Matches(src, (first - 1) + i, B)
<1>1. PICK j \in DOMAIN B : i + j - 1 <= Len(s) /\ s[i + j - 1] # B[j]
  BY DEF Matches
<1>2. j \in 1 .. Len(B) /\ Len(B) \in Nat /\ Len(s) \in Nat /\ Len(src) \in Nat  OBVIOUS
<1>3. /\ i + j - 1 \in 1 .. Len(s)
      /\ (first - 1) + (i + j - 1) = ((first - 1) + i) + j - 1
      /\ ((first - 1) + i) + j - 1 <= Len(src)
  BY <1>1, <1>2
<1>4. src[((first - 1) + i) + j - 1] # B[j]  BY <1>1, <1>3
<1> QED  BY <1>3, <1>4 DEF Matches

\* Where the part after one that begins at first does.
After(first, part) == first + Len(part) + Len(Boundary)

\* The parts from first on are a part and those of the rest.
PartThenRest(from, src, first, part, rest) ==
    /\ from[first] = <<part>> \o from[After(first, part)]
    /\ GoesOn(src, After(first, part), rest)
    /\ After(first, part) \in Nat \ {0}

\* A part that a boundary ends.
LEMMA PartEnds ==
  ASSUME NEW C, NEW src \in Seq(C), Boundary \in Seq(C), NEW from,
         IsSplit(from, src, Boundary, C),
         NEW part \in Seq(C), NEW rest \in Seq(C), NEW first \in Nat \ {0},
         Len(part) > 0, Unbroken(part), GoesOn(src, first, (part \o Boundary) \o rest)
  PROVE  PartThenRest(from, src, first, part, rest)
<1> DEFINE B == Boundary
           m == Len(part)
           b == Len(Boundary)
           n == Len(src)
           pB == part \o B
           k == first + m
<1>1. /\ pB \in Seq(C) /\ m \in Nat /\ b \in Nat /\ Len(pB) = m + b /\ n \in Nat
      /\ \A i \in 1 .. m : pB[i] = part[i]
      /\ \A i \in 1 .. b : pB[m + i] = B[i]
  BY ConcatIs
<1>2. b > 0
  <2>1. Len(Dashes) <= b /\ Len(Dashes) > 0  BY BoundaryAssumption DEF IsPrefix
  <2>2. Len(Dashes) \in Nat  BY BoundaryAssumption
  <2> QED  BY <1>1, <2>1, <2>2
<1> HIDE DEF pB
<1>3. /\ GoesOn(src, first + Len(pB), rest)
      /\ \A i \in 1 .. m + b : src[(first - 1) + i] = pB[i]
  <2>1. GoesOn(src, first, pB \o rest)  BY DEF pB
  <2>2. GoesOn(src, first + Len(pB), rest) /\ StandsAt(src, first, pB)
    <3>1. pB \in Seq(C)  BY <1>1
    <3> QED  BY <2>1, <3>1, GoesOnAfter
  <2> QED  BY <1>1, <2>2 DEF StandsAt
<1>4. (first - 1) + (m + b) <= n
  <2>1. n = ((first + Len(pB)) - 1) + Len(rest) /\ Len(rest) \in Nat  BY <1>3 DEF GoesOn
  <2> HIDE DEF m, b, n
  <2> QED  BY <1>1, <2>1
<1>5. Matches(src, k, B) /\ k # first
  <2> SUFFICES ASSUME NEW j \in 1 .. b  PROVE src[k + j - 1] = B[j]
    <3>1. DOMAIN B = 1 .. b  OBVIOUS
    <3>2. k # first
      <4>1. m > 0  OBVIOUS
      <4> HIDE DEF m
      <4> QED  BY <1>1, <4>1
    <3> QED  BY <3>1, <3>2 DEF Matches
  <2> HIDE DEF m, b
  <2>1. m + j \in 1 .. m + b /\ (first - 1) + (m + j) = (first + m) + j - 1  BY <1>1
  <2> QED  BY <1>1, <1>3, <2>1
<1>6. ASSUME NEW i \in first .. k - 1  PROVE ~EndsPart(src, first, i, B)
  <2>1. CASE i = first  BY <2>1 DEF EndsPart
  <2>2. CASE i # first
    <3> DEFINE h == i - (first - 1)
    <3>1. h \in 2 .. m /\ h \in 1 .. m + b /\ (first - 1) + h = i  BY <1>1, <2>2
    <3>2. ~Matches(pB, h, B)  BY <3>1 DEF Unbroken, pB
    <3> HIDE DEF h, m, b, n
    <3>3. ~Matches(src, (first - 1) + h, B)
      <4>1. h \in 1 .. Len(pB) /\ (first - 1) + Len(pB) <= Len(src)  BY <1>1, <1>4, <3>1 DEF n
      <4>2. \A x \in 1 .. Len(pB) : src[(first - 1) + x] = pB[x]  BY <1>1, <1>3
      <4> QED  BY <1>1, <3>2, <4>1, <4>2, NoMatch
    <3> QED  BY <3>1, <3>3 DEF EndsPart
  <2> QED  BY <2>1, <2>2
<1> DEFINE E == Ends(src, first, B)
<1>7. k \in E /\ E \subseteq Nat /\ \A y \in E : k <= y
  <2>1. k \in first .. n  BY <1>1, <1>2, <1>4
  <2>2. k \in E  BY <1>5, <2>1 DEF Ends, EndsPart
  <2>3. ASSUME NEW y \in E  PROVE y \in Nat /\ k <= y
    <3>1. y \in first .. n /\ EndsPart(src, first, y, B)  BY DEF Ends
    <3>2. y \notin first .. k - 1  BY <1>6, <3>1
    <3> QED  BY <1>1, <3>1, <3>2
  <2> QED  BY <2>2, <2>3
<1> HIDE DEF E
<1>8. Min(E) = k  BY <1>7, MinIs
<1>9. first \in 1 .. n + b  BY <1>1, <1>2, <1>4
<1>10. from[first] = <<SubSeq(src, first, k - 1)>> \o from[k + b]
  <2>1. from[first] = IF E = {} THEN <<SubSeq(src, first, n)>>
                      ELSE <<SubSeq(src, first, Min(E) - 1)>> \o from[Min(E) + b]
    BY <1>9 DEF IsSplit, E
  <2> HIDE DEF k
  <2> QED  BY <1>7, <1>8, <2>1
<1>11. SubSeq(src, first, k - 1) = part
  <2> DEFINE a == first - 1
             c == k - 1
  <2>1. a \in 0 .. n /\ c \in a .. n /\ c - a = m /\ a + 1 = first  BY <1>1, <1>4
  <2> HIDE DEF a, c
  <2>2. /\ SubSeq(src, a + 1, c) \in Seq(C) /\ Len(SubSeq(src, a + 1, c)) = c - a
        /\ \A i \in 1 .. c - a : SubSeq(src, a + 1, c)[i] = src[a + i]
    BY <2>1, PartIs
  <2>3. \A i \in 1 .. m : src[a + i] = part[i]
    <3>1. \A i \in 1 .. m : i \in 1 .. m + b  BY <1>1
    <3> HIDE DEF m, b
    <3> QED  BY <1>1, <1>3, <3>1 DEF a
  <2> DEFINE q == SubSeq(src, a + 1, c)
  <2> HIDE DEF q
  <2>4. q \in Seq(C) /\ Len(q) = Len(part) /\ \A i \in 1 .. Len(q) : q[i] = part[i]
    BY <2>1, <2>2, <2>3 DEF q
  <2>5. q = part  BY <2>4, SeqEqual
  <2> QED  BY <2>1, <2>5 DEF q, c
<1>12. first + Len(pB) = first + m + b /\ k + b = first + m + b  BY <1>1
<1>13. from[first] = <<part>> \o from[first + m + b]  BY <1>10, <1>11, <1>12
<1>14. GoesOn(src, first + m + b, rest)  BY <1>3, <1>12
<1>15. first + m + b \in Nat \ {0}  BY <1>1
<1>16. After(first, part) = first + m + b  BY DEF After
<1> HIDE DEF m, b
<1> QED  BY <1>13, <1>14, <1>15, <1>16 DEF PartThenRest

\* The part that is left when no boundary begins in it, or is cut off by its end.
LEMMA LastPart ==
  ASSUME NEW C, NEW src \in Seq(C), Boundary \in Seq(C), NEW from,
         IsSplit(from, src, Boundary, C),
         NEW rest \in Seq(C), NEW first \in Nat \ {0}, GoesOn(src, first, rest),
         \A i \in 2 .. Len(rest) : ~Matches(rest, i, Boundary)
  PROVE  from[first] = <<rest>>
<1> DEFINE b == Len(Boundary)
           n == Len(src)
           m == Len(rest)
<1>1. n = (first - 1) + m /\ n \in Nat /\ m \in Nat /\ b \in Nat
      /\ \A i \in 1 .. m : src[(first - 1) + i] = rest[i]
  BY DEF GoesOn
<1>2. b > 0
  <2>1. Len(Dashes) <= b /\ Len(Dashes) > 0  BY BoundaryAssumption DEF IsPrefix
  <2>2. Len(Dashes) \in Nat  BY BoundaryAssumption
  <2> QED  BY <1>1, <2>1, <2>2
<1>3. Ends(src, first, Boundary) = {}
  <2> SUFFICES ASSUME NEW i \in first .. n, EndsPart(src, first, i, Boundary)  PROVE FALSE
    BY DEF Ends
  <2> DEFINE h == i - (first - 1)
  <2>1. i # first  BY DEF EndsPart
  <2>2. h \in 2 .. m /\ h \in 1 .. m /\ (first - 1) + h = i /\ (first - 1) + m <= n
    BY <1>1, <2>1
  <2>3. ~Matches(rest, h, Boundary)  BY <2>2
  <2> HIDE DEF h
  <2>4. ~Matches(src, (first - 1) + h, Boundary)  BY <1>1, <2>2, <2>3, NoMatch
  <2> QED  BY <2>2, <2>4 DEF EndsPart
<1>4. first \in 1 .. n + b  BY <1>1, <1>2
<1>5. from[first] = <<SubSeq(src, first, n)>>  BY <1>3, <1>4 DEF IsSplit
<1>6. SubSeq(src, first, n) = rest
  <2> DEFINE a == first - 1
             q == SubSeq(src, a + 1, n)
  <2>1. a \in 0 .. n /\ n \in a .. n /\ n - a = m /\ a + 1 = first  BY <1>1
  <2> HIDE DEF a
  <2>2. q \in Seq(C) /\ Len(q) = n - a /\ \A i \in 1 .. n - a : q[i] = src[a + i]
    BY <2>1, PartIs
  <2> HIDE DEF q
  <2>3. Len(q) = Len(rest) /\ \A i \in 1 .. Len(q) : q[i] = rest[i]
    BY <1>1, <2>1, <2>2 DEF a
  <2>4. q = rest  BY <2>2, <2>3, SeqEqual
  <2> QED  BY <2>1, <2>4 DEF q
<1> QED  BY <1>5, <1>6

\* The first part of a header, digits before as much of the boundary as is there.
LEMMA HeaderPart ==
  ASSUME NEW C, NEW digits \in Seq(Range(DigitChars)), Len(digits) > 0,
         digits \in Seq(C), NEW rest \in Seq(C), Boundary \in Seq(C),
         \A j \in 1 .. Len(Boundary) : j <= Len(rest) => rest[j] = Boundary[j]
  PROVE  Split(digits \o rest, Dashes, TRUE)[1] = digits
<1> DEFINE src == digits \o rest
           d == Len(digits)
           n == Len(src)
           s == Len(Dashes)
<1>1. /\ src \in Seq(C) /\ d \in Nat /\ Len(rest) \in Nat /\ n = d + Len(rest)
      /\ \A i \in 1 .. d : src[i] = digits[i]
      /\ \A i \in 1 .. Len(rest) : src[d + i] = rest[i]
  BY ConcatIs
<1> HIDE DEF src
<1>2. /\ s \in Nat \ {0} /\ s <= Len(Boundary) /\ Len(Boundary) \in Nat
      /\ \A j \in 1 .. s : Dashes[j] = Boundary[j]
  <2>1. s \in Nat \ {0} /\ s <= Len(Boundary) /\ Len(Boundary) \in Nat
        /\ SubSeq(Dashes, 1, s) = SubSeq(Boundary, 1, s)
    BY BoundaryAssumption DEF IsPrefix
  <2> DEFINE P == Range(Boundary)
  <2>2. Dashes \in Seq(P) /\ Boundary \in Seq(P)  BY BoundaryAssumption
  <2> HIDE DEF P, s
  <2>3. 0 \in 0 .. Len(Dashes) /\ s \in 0 .. Len(Dashes) /\ 0 \in 0 .. Len(Boundary)
        /\ s \in 0 .. Len(Boundary) /\ s - 0 = s /\ 0 + 1 = 1
    BY <2>1 DEF s
  <2>4. \A j \in 1 .. s : SubSeq(Dashes, 1, s)[j] = Dashes[j]
    <3>1. \A j \in 1 .. s - 0 : SubSeq(Dashes, 0 + 1, s)[j] = Dashes[0 + j]
      BY <2>2, <2>3, PartIs
    <3> QED  BY <2>1, <2>3, <3>1
  <2>5. \A j \in 1 .. s : SubSeq(Boundary, 1, s)[j] = Boundary[j]
    <3>1. \A j \in 1 .. s - 0 : SubSeq(Boundary, 0 + 1, s)[j] = Boundary[0 + j]
      BY <2>2, <2>3, PartIs
    <3> QED  BY <2>1, <2>3, <3>1
  <2> QED  BY <2>1, <2>4, <2>5 DEF s
<1>8. PICK from : /\ IsSplit(from, src, Dashes, C)
                  /\ \A skipBody \in BOOLEAN :
                       Split(src, Dashes, skipBody) =
                         IF skipBody /\ Len(from[1]) > 2 THEN SubSeq(from[1], 1, 2) ELSE from[1]
  BY <1>1, <1>2, SplitFrom
<1>3. /\ IsSplit(from, src, Dashes, C)
      /\ Split(src, Dashes, TRUE) =
           IF Len(from[1]) > 2 THEN SubSeq(from[1], 1, 2) ELSE from[1]
  BY <1>8
<1> DEFINE E == Ends(src, 1, Dashes)
<1>4. \A i \in 1 .. d : ~Matches(src, i, Dashes)
  <2> SUFFICES ASSUME NEW i \in 1 .. d  PROVE ~Matches(src, i, Dashes)  OBVIOUS
  <2>1. digits[i] \in Range(DigitChars)
    <3> DEFINE D == Range(DigitChars)
    <3> HIDE DEF D
    <3>1. digits \in Seq(D)  BY DEF D
    <3>2. digits[i] \in D  BY <3>1
    <3> QED  BY <3>2 DEF D
  <2>4. 1 \in 1 .. s  BY <1>2
  <2>5. Dashes[1] \notin Range(DigitChars)  BY <1>2, <2>4, BetweenAssumption
  <2>2. src[i] # Dashes[1]  BY <1>1, <2>1, <2>5
  <2>3. 1 \in DOMAIN Dashes /\ i + 1 - 1 = i /\ i <= n
    <3>1. DOMAIN Dashes = 1 .. s  BY BoundaryAssumption
    <3> HIDE DEF n, d, s
    <3> QED  BY <1>1, <1>2, <3>1
  <2> QED  BY <2>2, <2>3 DEF Matches
<1>5. from[1] \in Seq(Seq(C)) /\ Len(from[1]) > 0 /\ from[1][1] = digits
  <2>1. 1 \in 1 .. n + s  BY <1>1, <1>2
  <2>2. from \in [1 .. n + s -> Seq(Seq(C))]
        /\ from[1] = IF E = {} THEN <<SubSeq(src, 1, n)>>
                     ELSE <<SubSeq(src, 1, Min(E) - 1)>> \o from[Min(E) + s]
    BY <1>3, <2>1 DEF IsSplit
  <2>3. SubSeq(src, 1, d) = digits
    <3> DEFINE q == SubSeq(src, 0 + 1, d)
    <3>1. 0 \in 0 .. n /\ d \in 0 .. n /\ d - 0 = d /\ 0 + 1 = 1  BY <1>1
    <3>2. q \in Seq(C) /\ Len(q) = d - 0 /\ \A i \in 1 .. d - 0 : q[i] = src[0 + i]
      <4> HIDE DEF d
      <4> QED  BY <1>1, <3>1, PartIs
    <3> HIDE DEF q
    <3>3. Len(q) = Len(digits) /\ \A i \in 1 .. Len(q) : q[i] = digits[i]
      BY <1>1, <3>1, <3>2
    <3>4. q = digits  BY <3>2, <3>3, SeqEqual
    <3> QED  BY <3>1, <3>4 DEF q
  <2>4. CASE Len(rest) = 0
    <3>1. n = d  BY <1>1, <2>4
    <3>2. E = {}  BY <1>4, <3>1 DEF Ends, EndsPart
    <3>3. from[1] = <<digits>>  BY <2>2, <2>3, <3>1, <3>2
    <3>4. from[1] \in Seq(Seq(C))  BY <2>1, <2>2
    <3> QED  BY <3>3, <3>4
  <2>5. CASE Len(rest) # 0
    <3>1. d + 1 \in E
      <4>1. d + 1 \in 1 .. n /\ d + 1 # 1  BY <1>1, <2>5
      <4>2. Matches(src, d + 1, Dashes)
        <5>0. DOMAIN Dashes = 1 .. s  BY BoundaryAssumption
        <5> SUFFICES ASSUME NEW j \in 1 .. s, (d + 1) + j - 1 <= n
                     PROVE  src[(d + 1) + j - 1] = Dashes[j]
          BY <5>0 DEF Matches
        <5>1. (d + 1) + j - 1 = d + j /\ j \in 1 .. Len(rest) /\ j \in 1 .. Len(Boundary)
              /\ j <= Len(rest)
          <6> HIDE DEF d, n, s
          <6> QED  BY <1>1, <1>2
        <5> QED  BY <1>1, <1>2, <5>1
      <4> QED  BY <4>1, <4>2 DEF Ends, EndsPart
    <3>2. E \subseteq Nat /\ \A y \in E : d + 1 <= y
      <4> SUFFICES ASSUME NEW y \in E  PROVE y \in Nat /\ d + 1 <= y  OBVIOUS
      <4>1. y \in 1 .. n /\ Matches(src, y, Dashes)  BY DEF Ends, EndsPart
      <4>2. y \notin 1 .. d  BY <1>4, <4>1
      <4> QED  BY <1>1, <4>1, <4>2
    <3> HIDE DEF E
    <3>3. Min(E) = d + 1  BY <3>1, <3>2, MinIs
    <3>4. from[1] = <<digits>> \o from[(d + 1) + s]
      <4>1. (d + 1) - 1 = d  BY <1>1
      <4> QED  BY <2>2, <2>3, <3>1, <3>3, <4>1
    <3>5. (d + 1) + s \in 1 .. n + s  BY <1>1, <1>2, <2>5
    <3> DEFINE W == Seq(C)
               more == from[(d + 1) + s]
               one == <<digits>>
    <3>6. more \in Seq(W)  BY <2>2, <3>5
    <3>7. one \in Seq(W) /\ Len(one) = 1 /\ one[1] = digits  OBVIOUS
    <3> HIDE DEF W, more, one
    <3>8. one \o more \in Seq(W) /\ Len(one \o more) = 1 + Len(more) /\ Len(more) \in Nat
          /\ \A i \in 1 .. Len(one) : (one \o more)[i] = one[i]
      <4>1. one \o more \in Seq(W) /\ Len(one \o more) = Len(one) + Len(more) /\ Len(more) \in Nat
            /\ \A i \in 1 .. Len(one) : (one \o more)[i] = one[i]
        BY <3>6, <3>7, ConcatIs, Zenon
      <4> QED  BY <3>7, <4>1
    <3>9. Len(one \o more) > 0 /\ (one \o more)[1] = digits  BY <3>7, <3>8
    <3> QED  BY <3>4, <3>8, <3>9 DEF W, more, one
  <2> QED  BY <2>4, <2>5
<1>6. CASE Len(from[1]) > 2
  <2> DEFINE W == Seq(C)
             parts == from[1]
             e == 2
  <2>1. parts \in Seq(W) /\ Len(parts) > 2 /\ parts[1] = digits  BY <1>5, <1>6
  <2> HIDE DEF W, parts
  <2>2. 0 \in 0 .. Len(parts) /\ e \in 0 .. Len(parts) /\ 1 \in 1 .. e - 0 /\ 0 + 1 = 1
    BY <2>1
  <2> HIDE DEF e
  <2>3. SubSeq(parts, 0 + 1, e)[1] = parts[0 + 1]  BY <2>1, <2>2, PartIs
  <2> QED  BY <1>3, <1>6, <2>1, <2>2, <2>3 DEF parts, e, src
<1>7. CASE ~(Len(from[1]) > 2)  BY <1>3, <1>5, <1>7 DEF src
<1> QED  BY <1>6, <1>7

-----------------------------------------------------------------------------
(* Frames                                                                   *)

\* The characters of frames.
FrameChars ==
    Range(DigitChars) \union Range(Boundary) \union {"h", "{", "}"} \union ContentChars
    \union Range(MetaOK) \union Range(MetaPacket) \union Range(MetaMessage)

\* Everything a frame is put together from is made of them.
LEMMA FrameCharsAre ==
  /\ Boundary \in Seq(FrameChars) /\ Len(Boundary) \in Nat \ {0}
  /\ \A t \in Seq(Range(DigitChars)) : t \in Seq(FrameChars)
  /\ \A meta \in {MetaOK, MetaPacket, MetaMessage} : meta \in Seq(FrameChars)
<1> DEFINE F == FrameChars
           R == Range(DigitChars)
           Q == Range(Boundary)
<1>1. Boundary \in Seq(F)
  <2>1. Q \subseteq F  BY DEF FrameChars
  <2>2. Boundary \in Seq(Q)  BY BoundaryAssumption
  <2> HIDE DEF F, Q
  <2> QED  BY <2>1, <2>2, SeqMonotonic
<1>2. Len(Boundary) \in Nat \ {0}
  <2>1. Len(Dashes) <= Len(Boundary) /\ Len(Dashes) > 0 /\ Len(Dashes) \in Nat
    BY BoundaryAssumption DEF IsPrefix
  <2>2. Len(Boundary) \in Nat  BY <1>1
  <2> QED  BY <2>1, <2>2
<1>3. ASSUME NEW t \in Seq(R)  PROVE t \in Seq(F)
  <2>1. R \subseteq F  BY DEF FrameChars
  <2> HIDE DEF F, R
  <2> QED  BY <2>1, SeqMonotonic
<1>4. ASSUME NEW meta \in {MetaOK, MetaPacket, MetaMessage}  PROVE meta \in Seq(F)
  <2> DEFINE M == Range(meta)
  <2>1. M \subseteq F  BY DEF FrameChars
  <2>2. meta \in Seq(M)  BY BetweenAssumption
  <2> HIDE DEF F, M
  <2> QED  BY <2>1, <2>2, SeqMonotonic
<1> QED  BY <1>1, <1>2, <1>3, <1>4

\* Nothing is broken by a boundary that has not the character it begins with.
LEMMA UnbrokenIs ==
  ASSUME NEW C, NEW part \in Seq(C), Boundary \in Seq(C),
         \A i \in 1 .. Len(part) : part[i] # Boundary[1]
  PROVE  Unbroken(part) /\ \A i \in 1 .. Len(part) : ~Matches(part, i, Boundary)
<1> DEFINE pB == part \o Boundary
           m == Len(part)
<1>1. /\ m \in Nat /\ Len(pB) = m + Len(Boundary)
      /\ \A i \in 1 .. m : pB[i] = part[i]
  BY ConcatIs
<1>2. 1 \in DOMAIN Boundary /\ Len(Boundary) \in Nat  BY FrameCharsAre
<1> HIDE DEF pB
<1>3. ASSUME NEW i \in 1 .. m  PROVE ~Matches(part, i, Boundary) /\ ~Matches(pB, i, Boundary)
  <2>1. i + 1 - 1 = i /\ i <= m /\ i <= Len(pB)  BY <1>1, <1>2
  <2>2. part[i] # Boundary[1] /\ pB[i] # Boundary[1]  BY <1>1
  <2> HIDE DEF m
  <2> QED  BY <1>2, <2>1, <2>2 DEF Matches, m
<1>4. \A i \in 2 .. m : i \in 1 .. m  OBVIOUS
<1> QED  BY <1>3, <1>4 DEF Unbroken, pB

\* A text that is two texts one after the other.
IsConcat(st, s, t, C) ==
    /\ st \in Seq(C) /\ Len(st) = Len(s) + Len(t)
    /\ \A i \in 1 .. Len(s) : st[i] = s[i]
    /\ \A i \in Len(s) + 1 .. Len(s) + Len(t) : st[i] = t[i - Len(s)]

\* A concatenation has the characters of both.
LEMMA ConcatHas ==
  ASSUME NEW C, NEW s \in Seq(C), NEW t \in Seq(C)
  PROVE  IsConcat(s \o t, s, t, C)
BY ConcatIs DEF IsConcat

\* The beginning of a text.
FirstOf(text, k) == SubSeq(text, 1, k)

\* It has the characters of the text.
LEMMA FirstOfIs ==
  ASSUME NEW C, NEW text \in Seq(C), NEW k \in Nat, k <= Len(text)
  PROVE  /\ FirstOf(text, k) \in Seq(C) /\ Len(FirstOf(text, k)) = k
         /\ \A i \in 1 .. k : FirstOf(text, k)[i] = text[i]
<1> DEFINE u == SubSeq(text, 0 + 1, k)
<1>1. 0 \in 0 .. Len(text) /\ k \in 0 .. Len(text) /\ k - 0 = k /\ 0 + 1 = 1
      /\ \A i \in 1 .. k : 0 + i = i
  OBVIOUS
<1>2. u \in Seq(C) /\ Len(u) = k - 0 /\ \A i \in 1 .. k - 0 : u[i] = text[0 + i]
  BY <1>1, PartIs
<1> HIDE DEF u
<1>3. u \in Seq(C) /\ Len(u) = k /\ \A i \in 1 .. k : u[i] = text[i]  BY <1>1, <1>2
<1>4. FirstOf(text, k) = u  BY <1>1 DEF FirstOf, u
<1> QED  BY <1>3, <1>4

\* The beginning of two pieces that has the first of them.
LEMMA CutConcat ==
  ASSUME NEW C, NEW s \in Seq(C), NEW t \in Seq(C), NEW k \in Nat, k <= Len(t)
  PROVE  FirstOf(s \o t, Len(s) + k) = s \o FirstOf(t, k)
<1> DEFINE st == s \o t
           m == Len(s)
           n == m + k
           u == FirstOf(t, k)
           v == FirstOf(st, n)
           su == s \o u
<1>1. /\ st \in Seq(C) /\ m \in Nat /\ Len(t) \in Nat /\ Len(st) = m + Len(t)
      /\ \A i \in 1 .. m : st[i] = s[i]
      /\ \A i \in 1 .. Len(t) : st[m + i] = t[i]
  BY ConcatIs
<1> HIDE DEF st
<1>2. u \in Seq(C) /\ Len(u) = k /\ \A i \in 1 .. k : u[i] = t[i]  BY FirstOfIs
<1>3. v \in Seq(C) /\ Len(v) = n /\ \A i \in 1 .. n : v[i] = st[i]
  <2>1. n \in Nat /\ n <= Len(st)  BY <1>1
  <2> HIDE DEF n
  <2> QED  BY <1>1, <2>1, FirstOfIs
<1> HIDE DEF u, v
<1>4. /\ su \in Seq(C) /\ Len(su) = m + Len(u)
      /\ \A i \in 1 .. m : su[i] = s[i]
      /\ \A i \in m + 1 .. m + Len(u) : su[i] = u[i - m]
  <2>1. u \in Seq(C)  BY <1>2
  <2>2. IsConcat(s \o u, s, u, C)  BY <2>1, ConcatHas
  <2> QED  BY <2>2 DEF IsConcat
<1> HIDE DEF su, m
<1>5. n \in Nat /\ k \in Nat  BY <1>1
<1>6. Len(v) = Len(su)  BY <1>2, <1>3, <1>4
<1>7. ASSUME NEW i \in 1 .. Len(v)  PROVE v[i] = su[i]
  <2>0. i \in 1 .. n  BY <1>3
  <2>1. v[i] = st[i]  BY <1>3, <2>0
  <2>2. CASE i <= m
    <3>1. i \in 1 .. m  BY <1>1, <2>0, <2>2
    <3> QED  BY <1>1, <1>4, <2>1, <3>1
  <2>3. CASE ~(i <= m)
    <3>1. /\ i - m \in 1 .. k /\ i - m \in 1 .. Len(t) /\ m + (i - m) = i
          /\ i \in m + 1 .. m + Len(u)
      BY <1>1, <1>2, <1>5, <2>0, <2>3
    <3>2. st[i] = t[i - m]  BY <1>1, <3>1
    <3>3. su[i] = u[i - m] /\ u[i - m] = t[i - m]  BY <1>2, <1>4, <3>1
    <3> QED  BY <2>1, <3>2, <3>3
  <2> QED  BY <2>2, <2>3
<1>8. v = su  BY <1>3, <1>4, <1>6, <1>7, SeqEqual
<1> QED  BY <1>8 DEF su, st, u, v, n, m

\* What is between boundaries, and what follows the last of them.
ThreePieces(x, y, z) == (x \o Boundary) \o ((y \o Boundary) \o z)
FourPieces(w, x, y, z) == (w \o Boundary) \o ThreePieces(x, y, z)

\* Cutting off no more than what follows the last boundary.
CutsLast(all, size, z, cut) ==
    /\ Len(all) = size + Len(z)
    /\ \A k \in 0 .. Len(z) : FirstOf(all, size + k) = cut[k]

\* Cutting off no more than the last of three pieces cuts that one,
LEMMA ThreePiecesAre ==
  ASSUME NEW C, Boundary \in Seq(C), NEW x \in Seq(C), NEW y \in Seq(C), NEW z \in Seq(C)
  PROVE  /\ ThreePieces(x, y, z) \in Seq(C) /\ (y \o Boundary) \o z \in Seq(C)
         /\ CutsLast(ThreePieces(x, y, z), Len(x) + Len(y) + 2 * Len(Boundary), z,
                     [k \in 0 .. Len(z) |-> ThreePieces(x, y, FirstOf(z, k))])
<1> DEFINE B == Boundary
           b == Len(B)
           xB == x \o B
           yB == y \o B
           yBz == yB \o z
           all == xB \o yBz
           m == Len(x) + Len(y) + 2 * b
<1>1. xB \in Seq(C) /\ Len(xB) = Len(x) + b /\ yB \in Seq(C) /\ Len(yB) = Len(y) + b
      /\ Len(x) \in Nat /\ Len(y) \in Nat /\ b \in Nat /\ Len(z) \in Nat
  BY ConcatIs
<1> HIDE DEF xB, yB, b
<1>2. yBz \in Seq(C) /\ Len(yBz) = Len(yB) + Len(z)  BY <1>1, ConcatIs
<1> HIDE DEF yBz
<1>3. all \in Seq(C) /\ Len(all) = Len(xB) + Len(yBz)  BY <1>1, <1>2, ConcatIs
<1>4. Len(all) = m + Len(z)  BY <1>1, <1>2, <1>3
<1> HIDE DEF all
<1>5. ASSUME NEW k \in 0 .. Len(z)
      PROVE  FirstOf(all, m + k) = xB \o (yB \o FirstOf(z, k))
  <2> DEFINE j == Len(yB) + k
  <2>1. j \in Nat /\ j <= Len(yBz) /\ Len(xB) + j = m + k  BY <1>1, <1>2
  <2> HIDE DEF j, m
  <2>2. FirstOf(xB \o yBz, Len(xB) + j) = xB \o FirstOf(yBz, j)
    BY <1>1, <1>2, <2>1, CutConcat
  <2>3. FirstOf(yB \o z, Len(yB) + k) = yB \o FirstOf(z, k)
    <3>1. k \in Nat /\ k <= Len(z)  BY <1>1
    <3> QED  BY <1>1, <3>1, CutConcat
  <2>4. FirstOf(yBz, j) = yB \o FirstOf(z, k)  BY <2>3 DEF j, yBz
  <2>5. FirstOf(all, Len(xB) + j) = xB \o (yB \o FirstOf(z, k))  BY <2>2, <2>4 DEF all
  <2> QED  BY <2>1, <2>5
<1>6. ThreePieces(x, y, z) = all  BY DEF ThreePieces, all, xB, yBz, yB
<1>7. \A t : ThreePieces(x, y, t) = xB \o (yB \o t)  BY DEF ThreePieces, xB, yB
<1>8. (y \o Boundary) \o z = yBz  BY DEF yBz, yB
<1>9. CutsLast(all, m, z, [k \in 0 .. Len(z) |-> ThreePieces(x, y, FirstOf(z, k))])
  <2> HIDE DEF m
  <2> QED  BY <1>4, <1>5, <1>7 DEF CutsLast
<1> QED  BY <1>2, <1>3, <1>6, <1>8, <1>9 DEF b, m

\* and so it is with four.
LEMMA FourPiecesAre ==
  ASSUME NEW C, Boundary \in Seq(C),
         NEW w \in Seq(C), NEW x \in Seq(C), NEW y \in Seq(C), NEW z \in Seq(C)
  PROVE  /\ FourPieces(w, x, y, z) \in Seq(C)
         /\ CutsLast(FourPieces(w, x, y, z), Len(w) + Len(x) + Len(y) + 3 * Len(Boundary), z,
                     [k \in 0 .. Len(z) |-> FourPieces(w, x, y, FirstOf(z, k))])
<1> DEFINE B == Boundary
           b == Len(B)
           wB == w \o B
           three == ThreePieces(x, y, z)
           all == wB \o three
           m == Len(x) + Len(y) + 2 * b
           n == Len(w) + Len(x) + Len(y) + 3 * b
           cut == [k \in 0 .. Len(z) |-> ThreePieces(x, y, FirstOf(z, k))]
<1>1. wB \in Seq(C) /\ Len(wB) = Len(w) + b /\ Len(w) \in Nat /\ b \in Nat
      /\ Len(x) \in Nat /\ Len(y) \in Nat /\ Len(z) \in Nat
  BY ConcatIs
<1>2. three \in Seq(C) /\ CutsLast(three, m, z, cut)  BY ThreePiecesAre
<1> HIDE DEF wB, three, b, cut
<1>3. all \in Seq(C) /\ Len(all) = Len(wB) + Len(three)  BY <1>1, <1>2, ConcatIs
<1>4. Len(three) = m + Len(z)  BY <1>2 DEF CutsLast
<1>5. Len(all) = n + Len(z)  BY <1>1, <1>3, <1>4
<1> HIDE DEF all
<1>6. ASSUME NEW k \in 0 .. Len(z)
      PROVE  FirstOf(all, n + k) = wB \o ThreePieces(x, y, FirstOf(z, k))
  <2> DEFINE j == m + k
  <2>1. j \in Nat /\ j <= Len(three) /\ Len(wB) + j = n + k  BY <1>1, <1>4
  <2>2. FirstOf(three, j) = ThreePieces(x, y, FirstOf(z, k))  BY <1>2 DEF CutsLast, cut
  <2> HIDE DEF j, n
  <2>3. FirstOf(wB \o three, Len(wB) + j) = wB \o FirstOf(three, j)
    BY <1>1, <1>2, <2>1, CutConcat
  <2> QED  BY <2>1, <2>2, <2>3 DEF all
<1>7. FourPieces(w, x, y, z) = all  BY DEF FourPieces, all, wB, three
<1>8. \A t : FourPieces(w, x, y, t) = wB \o ThreePieces(x, y, t)  BY DEF FourPieces, wB
<1>9. CutsLast(all, n, z, [k \in 0 .. Len(z) |-> FourPieces(w, x, y, FirstOf(z, k))])
  <2> HIDE DEF n
  <2> QED  BY <1>5, <1>6, <1>8 DEF CutsLast
<1> QED  BY <1>3, <1>7, <1>9 DEF b, n

\* A sequence of which the first and the others are known.
LEMMA OneAndMore ==
  ASSUME NEW W, NEW x \in W, NEW more \in Seq(W), NEW whole \in Seq(W),
         Len(whole) = Len(more) + 1, whole[1] = x,
         \A i \in 1 .. Len(more) : whole[i + 1] = more[i]
  PROVE  <<x>> \o more = whole
<1> DEFINE one == <<x>>
           all == one \o more
<1>1. one \in Seq(W) /\ Len(one) = 1 /\ one[1] = x  OBVIOUS
<1> HIDE DEF one
<1>2. IsConcat(all, one, more, W)  BY <1>1, ConcatHas
<1> HIDE DEF all
<1>3. /\ all \in Seq(W) /\ Len(all) = 1 + Len(more) /\ Len(more) \in Nat /\ all[1] = x
      /\ \A i \in 1 + 1 .. 1 + Len(more) : all[i] = more[i - 1]
  BY <1>1, <1>2 DEF IsConcat
<1>4. ASSUME NEW i \in 1 .. Len(all)  PROVE all[i] = whole[i]
  <2>1. CASE i = 1  BY <1>3, <2>1
  <2>2. CASE i # 1
    <3> DEFINE j == i - 1
    <3>1. j \in 1 .. Len(more) /\ j + 1 = i /\ i \in 1 + 1 .. 1 + Len(more)  BY <1>3, <2>2
    <3>2. all[i] = more[j]  BY <1>3, <3>1
    <3> HIDE DEF j
    <3> QED  BY <3>1, <3>2
  <2> QED  BY <2>1, <2>2
<1>5. all = whole
  <2>1. Len(all) = Len(whole)  BY <1>3
  <2> QED  BY <1>3, <1>4, <2>1, SeqEqual
<1> QED  BY <1>5 DEF all, one

\* Small tuples, put together:
LEMMA OneAndOne ==
  ASSUME NEW W, NEW x \in W, NEW y \in W
  PROVE  <<x>> \o <<y>> = <<x, y>>
<1>1. <<y>> \in Seq(W) /\ <<x, y>> \in Seq(W) /\ Len(<<x, y>>) = Len(<<y>>) + 1
      /\ <<x, y>>[1] = x /\ \A i \in 1 .. Len(<<y>>) : <<x, y>>[i + 1] = <<y>>[i]
  <2>1. Len(<<y>>) = 1 /\ Len(<<x, y>>) = 2  OBVIOUS
  <2>2. \A i \in 1 .. 1 : i = 1  OBVIOUS
  <2>3. <<x, y>>[1] = x /\ <<x, y>>[1 + 1] = y /\ <<y>>[1] = y  OBVIOUS
  <2>4. <<x, y>> \in Seq(W)  OBVIOUS
  <2> QED  BY <2>1, <2>2, <2>3, <2>4
<1> DEFINE more == <<y>>
           whole == <<x, y>>
<1> HIDE DEF more, whole
<1>2. <<x>> \o more = whole  BY <1>1, OneAndMore DEF more, whole
<1> QED  BY <1>2 DEF more, whole

\* of one and two,
LEMMA OneAndTwo ==
  ASSUME NEW W, NEW x \in W, NEW y \in W, NEW z \in W
  PROVE  <<x>> \o <<y, z>> = <<x, y, z>>
<1> DEFINE more == <<y, z>>
           whole == <<x, y, z>>
<1>1. more \in Seq(W) /\ whole \in Seq(W)  OBVIOUS
<1>2. Len(more) = 2 /\ Len(whole) = 3  OBVIOUS
<1>3. whole[1] = x /\ whole[2] = more[1] /\ whole[3] = more[2]  OBVIOUS
<1> HIDE DEF more, whole
<1>4. \A i \in 1 .. Len(more) : whole[i + 1] = more[i]
  <2>1. \A i \in 1 .. 2 : i = 1 \/ i = 2  OBVIOUS
  <2>2. 1 + 1 = 2 /\ 2 + 1 = 3  OBVIOUS
  <2> QED  BY <1>2, <1>3, <2>1, <2>2
<1>5. Len(whole) = Len(more) + 1  BY <1>2
<1>6. <<x>> \o more = whole  BY <1>1, <1>3, <1>4, <1>5, OneAndMore
<1> QED  BY <1>6 DEF more, whole

\* of one and three.
LEMMA OneAndThree ==
  ASSUME NEW W, NEW w \in W, NEW x \in W, NEW y \in W, NEW z \in W
  PROVE  <<w>> \o <<x, y, z>> = <<w, x, y, z>>
<1> DEFINE more == <<x, y, z>>
           whole == <<w, x, y, z>>
<1>1. more \in Seq(W) /\ whole \in Seq(W)  OBVIOUS
<1>2. Len(more) = 3 /\ Len(whole) = 4  OBVIOUS
<1>3. whole[1] = w /\ whole[2] = more[1] /\ whole[3] = more[2] /\ whole[4] = more[3]  OBVIOUS
<1> HIDE DEF more, whole
<1>4. \A i \in 1 .. Len(more) : whole[i + 1] = more[i]
  <2>1. \A i \in 1 .. 3 : i = 1 \/ i = 2 \/ i = 3  OBVIOUS
  <2>2. 1 + 1 = 2 /\ 2 + 1 = 3 /\ 3 + 1 = 4  OBVIOUS
  <2> QED  BY <1>2, <1>3, <2>1, <2>2
<1>5. Len(whole) = Len(more) + 1  BY <1>2
<1>6. <<w>> \o more = whole  BY <1>1, <1>3, <1>4, <1>5, OneAndMore
<1> QED  BY <1>6 DEF more, whole

\* A text that nothing ends a part in.
LastUnbroken(z) == \A i \in 2 .. Len(z) : ~Matches(z, i, Boundary)

\* What split makes of pieces, with no boundary in them.
LEMMA PiecesPart ==
  ASSUME NEW C, NEW src \in Seq(C), Boundary \in Seq(C), NEW from,
         IsSplit(from, src, Boundary, C), NEW first \in Nat \ {0},
         NEW x \in Seq(C), NEW y \in Seq(C), NEW z \in Seq(C),
         Len(x) > 0, Len(y) > 0, Unbroken(x), Unbroken(y), LastUnbroken(z),
         GoesOn(src, first, ThreePieces(x, y, z))
  PROVE  from[first] = <<x, y, z>>
<1> DEFINE k == After(first, x)
           l == After(k, y)
           yBz == (y \o Boundary) \o z
<1>1. yBz \in Seq(C)  BY ThreePiecesAre
<1>2. GoesOn(src, first, (x \o Boundary) \o yBz)  BY DEF ThreePieces
<1> HIDE DEF yBz
<1>3. PartThenRest(from, src, first, x, yBz)
  BY <1>1, <1>2, PartEnds
<1>4. from[first] = <<x>> \o from[k] /\ GoesOn(src, k, yBz) /\ k \in Nat \ {0}
  BY <1>3 DEF PartThenRest
<1> HIDE DEF k
<1>5. GoesOn(src, k, (y \o Boundary) \o z)  BY <1>4 DEF yBz
<1>6. PartThenRest(from, src, k, y, z)
  BY <1>4, <1>5, PartEnds
<1>7. from[k] = <<y>> \o from[l] /\ GoesOn(src, l, z) /\ l \in Nat \ {0}
  BY <1>6 DEF PartThenRest
<1> HIDE DEF l
<1>8. from[l] = <<z>>  BY <1>7, LastPart DEF LastUnbroken
<1> DEFINE W == Seq(C)
<1>9. x \in W /\ y \in W /\ z \in W  OBVIOUS
<1> HIDE DEF W
<1>10. from[k] = <<y, z>>  BY <1>7, <1>8, <1>9, OneAndOne
<1>11. from[first] = <<x, y, z>>  BY <1>4, <1>9, <1>10, OneAndTwo
<1> QED  BY <1>11

\* A text goes on with all of itself.
LEMMA GoesOnIsWhole ==
  ASSUME NEW C, NEW src \in Seq(C)
  PROVE  GoesOn(src, 1, src)
<1>1. /\ Len(src) \in Nat /\ Len(src) = (1 - 1) + Len(src)
      /\ \A i \in 1 .. Len(src) : (1 - 1) + i = i
  OBVIOUS
<1> QED  BY <1>1 DEF GoesOn

\* Three pieces become three parts,
LEMMA ThreeParts ==
  ASSUME NEW C, Boundary \in Seq(C),
         NEW x \in Seq(C), NEW y \in Seq(C), NEW z \in Seq(C),
         Len(x) > 0, Len(y) > 0, Unbroken(x), Unbroken(y),
         LastUnbroken(z)
  PROVE  Split(ThreePieces(x, y, z), Boundary, FALSE) = <<x, y, z>>
<1> DEFINE src == ThreePieces(x, y, z)
<1>1. src \in Seq(C)  BY ThreePiecesAre
<1>2. Len(Boundary) \in Nat \ {0}  BY FrameCharsAre
<1> HIDE DEF src
<1>3. PICK from : /\ IsSplit(from, src, Boundary, C)
                  /\ \A skipBody \in BOOLEAN :
                       Split(src, Boundary, skipBody) =
                         IF skipBody /\ Len(from[1]) > 2 THEN SubSeq(from[1], 1, 2) ELSE from[1]
  BY <1>1, <1>2, SplitFrom
<1>4. Split(src, Boundary, FALSE) = from[1]  BY <1>3
<1>5. GoesOn(src, 1, ThreePieces(x, y, z))  BY <1>1, GoesOnIsWhole DEF src
<1>6. from[1] = <<x, y, z>>  BY <1>1, <1>3, <1>5, PiecesPart
<1> QED  BY <1>4, <1>6 DEF src

\* The first two of four.
LEMMA FirstTwo ==
  ASSUME NEW W, NEW w \in W, NEW x \in W, NEW y \in W, NEW z \in W
  PROVE  SubSeq(<<w, x, y, z>>, 1, 2) = <<w, x>> /\ Len(<<w, x, y, z>>) = 4
<1> DEFINE p == <<w, x, y, z>>
           q == <<w, x>>
           s == SubSeq(p, 0 + 1, 2)
<1>1. p \in Seq(W) /\ q \in Seq(W)
  <2>1. \A i \in 1 .. 4 : p[i] \in W  OBVIOUS
  <2> QED  OBVIOUS
<1>2. Len(p) = 4 /\ Len(q) = 2 /\ p[1] = w /\ p[2] = x /\ q[1] = w /\ q[2] = x  OBVIOUS
<1> HIDE DEF p, q
<1>3. 0 \in 0 .. Len(p) /\ 2 \in 0 .. Len(p) /\ 2 - 0 = 2 /\ 0 + 1 = 1 /\ 0 + 2 = 2
  BY <1>2
<1>4. s \in Seq(W) /\ Len(s) = 2 - 0 /\ \A i \in 1 .. 2 - 0 : s[i] = p[0 + i]
  <2> DEFINE e == 2
  <2>1. e \in 0 .. Len(p) /\ e = 2  BY <1>2
  <2> HIDE DEF e
  <2>2. LET v == SubSeq(p, 0 + 1, e) IN
        v \in Seq(W) /\ Len(v) = e - 0 /\ \A i \in 1 .. e - 0 : v[i] = p[0 + i]
    BY <1>1, <1>3, <2>1, PartIs
  <2> QED  BY <2>1, <2>2
<1> HIDE DEF s
<1>5. Len(s) = Len(q) /\ \A i \in 1 .. Len(s) : s[i] = q[i]
  <2>1. Len(s) = 2 /\ s[1] = p[1] /\ s[2] = p[2]  BY <1>3, <1>4
  <2>2. \A i \in 1 .. 2 : i = 1 \/ i = 2  OBVIOUS
  <2> QED  BY <1>2, <2>1, <2>2
<1>6. s = q  BY <1>1, <1>4, <1>5, SeqEqual
<1> QED  BY <1>2, <1>3, <1>6 DEF s, p, q

\* What split makes of a text is four parts, or the first two of them.
InFour(src, w, x, y, z) ==
    /\ Split(src, Boundary, FALSE) = <<w, x, y, z>>
    /\ Split(src, Boundary, TRUE) = <<w, x>>

\* and four become four, or the first two of them if the body is skipped.
LEMMA FourParts ==
  ASSUME NEW C, Boundary \in Seq(C),
         NEW w \in Seq(C), NEW x \in Seq(C), NEW y \in Seq(C), NEW z \in Seq(C),
         Len(w) > 0, Len(x) > 0, Len(y) > 0, Unbroken(w), Unbroken(x), Unbroken(y),
         LastUnbroken(z)
  PROVE  InFour(FourPieces(w, x, y, z), w, x, y, z)
<1> DEFINE src == FourPieces(w, x, y, z)
           k == After(1, w)
           three == ThreePieces(x, y, z)
<1>1. src \in Seq(C) /\ three \in Seq(C)  BY FourPiecesAre, ThreePiecesAre
<1>2. Len(Boundary) \in Nat \ {0}  BY FrameCharsAre
<1> HIDE DEF src
<1>3. PICK from : /\ IsSplit(from, src, Boundary, C)
                  /\ \A skipBody \in BOOLEAN :
                       Split(src, Boundary, skipBody) =
                         IF skipBody /\ Len(from[1]) > 2 THEN SubSeq(from[1], 1, 2) ELSE from[1]
  BY <1>1, <1>2, SplitFrom
<1>4. Split(src, Boundary, FALSE) = from[1]  BY <1>3
<1>5. Split(src, Boundary, TRUE) = IF Len(from[1]) > 2 THEN SubSeq(from[1], 1, 2) ELSE from[1]
  BY <1>3
<1>6. GoesOn(src, 1, (w \o Boundary) \o three)  BY <1>1, GoesOnIsWhole DEF src, FourPieces
<1> HIDE DEF three
<1>7. from[1] = <<w>> \o from[k] /\ GoesOn(src, k, three) /\ k \in Nat \ {0}
  <2>1. 1 \in Nat \ {0}  OBVIOUS
  <2>2. PartThenRest(from, src, 1, w, three)
    <3>1. IsSplit(from, src, Boundary, C)  BY <1>3
    <3> QED  BY <1>1, <1>6, <2>1, <3>1, PartEnds
  <2> QED  BY <2>2 DEF PartThenRest
<1> HIDE DEF k
<1>8. from[k] = <<x, y, z>>  BY <1>1, <1>3, <1>7, PiecesPart DEF three
<1>9. from[1] = <<w, x, y, z>>
  <2> DEFINE W == Seq(C)
  <2>1. w \in W /\ x \in W /\ y \in W /\ z \in W  OBVIOUS
  <2> HIDE DEF W
  <2> QED  BY <1>7, <1>8, <2>1, OneAndThree
<1>10. SubSeq(<<w, x, y, z>>, 1, 2) = <<w, x>> /\ Len(<<w, x, y, z>>) = 4
  <2> DEFINE W == Seq(C)
  <2>1. w \in W /\ x \in W /\ y \in W /\ z \in W  OBVIOUS
  <2> HIDE DEF W
  <2> QED  BY <2>1, FirstTwo
<1>11. Split(src, Boundary, TRUE) = <<w, x>>
  <2> DEFINE all == <<w, x, y, z>>
             two == <<w, x>>
             e == 2
  <2>1. from[1] = all /\ SubSeq(all, 1, e) = two /\ Len(all) > e  BY <1>9, <1>10
  <2>2. Split(src, Boundary, TRUE) = IF Len(from[1]) > e THEN SubSeq(from[1], 1, e) ELSE from[1]
    BY <1>5
  <2> HIDE DEF all, two, e
  <2>3. Split(src, Boundary, TRUE) = two  BY <2>1, <2>2
  <2> QED  BY <2>3 DEF two
<1>12. InFour(src, w, x, y, z)  BY <1>4, <1>9, <1>11 DEF InFour
<1> QED  BY <1>12 DEF src

\* The JSON of a message that does not hold the boundary is unbroken by it, wherever the
\* boundary after it begins.
IsBraced(all, text, left, right, C) ==
    /\ all \in Seq(C) /\ Len(all) = Len(text) + 2
    /\ all[1] = left /\ all[Len(all)] = right /\ Unbroken(all)

\* A text without a boundary is not broken by one when braces are put around it, wherever the
\* boundary after it begins.
LEMMA BracedUnbroken ==
  ASSUME NEW C, NEW text \in Seq(C), Boundary \in Seq(C), NEW left \in C, NEW right \in C,
         right \notin Range(Boundary), ~IsPartOf(Boundary, text)
  PROVE  IsBraced(<<left>> \o text \o <<right>>, text, left, right, C)
<1> DEFINE n == Len(text)
           open == <<left>>
           close == <<right>>
           oc == open \o text
           Braced == oc \o close
           b == Len(Boundary)
<1>1. /\ open \in Seq(C) /\ Len(open) = 1 /\ open[1] = left
      /\ close \in Seq(C) /\ Len(close) = 1 /\ close[1] = right
      /\ n \in Nat /\ b \in Nat
  OBVIOUS
<1> HIDE DEF open, close
<1>2. IsConcat(oc, open, text, C)  BY <1>1, ConcatHas
<1> HIDE DEF oc
<1>3. oc \in Seq(C) /\ Len(oc) = 1 + n  BY <1>1, <1>2 DEF IsConcat
<1>4. IsConcat(Braced, oc, close, C)  BY <1>1, <1>3, ConcatHas
<1> HIDE DEF Braced
<1>5. Braced \in Seq(C) /\ Len(Braced) = n + 2  BY <1>1, <1>3, <1>4 DEF IsConcat
<1>6. Braced[1] = left
  <2>1. Braced[1] = oc[1]  BY <1>1, <1>3, <1>4 DEF IsConcat
  <2>2. oc[1] = open[1]  BY <1>1, <1>2 DEF IsConcat
  <2> QED  BY <1>1, <2>1, <2>2
<1>7. Braced[n + 2] = right
  <2>1. n + 2 \in Len(oc) + 1 .. Len(oc) + Len(close) /\ (n + 2) - Len(oc) = 1  BY <1>1, <1>3
  <2> QED  BY <1>1, <1>4, <2>1 DEF IsConcat
<1>8. ASSUME NEW i \in 1 .. n  PROVE Braced[1 + i] = text[i]
  <2>1. 1 + i \in 1 .. Len(oc) /\ 1 + i \in Len(open) + 1 .. Len(open) + n
        /\ (1 + i) - Len(open) = i
    BY <1>1, <1>3
  <2>2. Braced[1 + i] = oc[1 + i]  BY <1>4, <2>1 DEF IsConcat
  <2>3. oc[1 + i] = text[i]  BY <1>2, <2>1 DEF IsConcat
  <2> QED  BY <2>2, <2>3
<1> DEFINE bB == Braced \o Boundary
<1>9. IsConcat(bB, Braced, Boundary, C)  BY <1>5, ConcatHas
<1> HIDE DEF bB
<1>10. /\ bB[n + 2] = right /\ Len(bB) = n + 2 + b
       /\ \A i \in 1 .. n : bB[1 + i] = text[i]
  <2>1. \A i \in 1 .. n + 2 : bB[i] = Braced[i]  BY <1>5, <1>9 DEF IsConcat
  <2>2. Len(bB) = n + 2 + b  BY <1>5, <1>9 DEF IsConcat
  <2>3. n + 2 \in 1 .. n + 2 /\ \A i \in 1 .. n : 1 + i \in 1 .. n + 2  BY <1>1
  <2> HIDE DEF n
  <2> QED  BY <1>7, <1>8, <2>1, <2>2, <2>3
<1>11. ASSUME NEW i \in 2 .. n + 2, Matches(bB, i, Boundary)  PROVE FALSE
  <2>1. \A j \in 1 .. b : bB[i + j - 1] = Boundary[j]
    <3>1. DOMAIN Boundary = 1 .. b  OBVIOUS
    <3>2. \A j \in 1 .. b : i + j - 1 <= Len(bB)  BY <1>1, <1>10
    <3> QED  BY <1>11, <3>1, <3>2 DEF Matches
  <2>2. CASE n + 2 <= i + b - 1
    <3> DEFINE j == n + 3 - i
    <3>1. j \in 1 .. b /\ i + j - 1 = n + 2  BY <1>1, <2>2
    <3> HIDE DEF j
    <3>2. Boundary[j] = right  BY <1>10, <2>1, <3>1
    <3>3. Boundary[j] \in Range(Boundary)
      <4>1. DOMAIN Boundary = 1 .. b  OBVIOUS
      <4> QED  BY <3>1, <4>1 DEF Range
    <3> QED  BY <3>2, <3>3
  <2>3. CASE i + b - 1 < n + 2
    <3> DEFINE k == i - 2
               e == k + b
               p == SubSeq(text, k + 1, e)
    <3>1. k \in 0 .. n /\ e \in k .. n /\ e - k = b /\ k \in 0 .. n - b
      BY <1>1, <2>3
    <3> HIDE DEF k, e
    <3>2. p \in Seq(C) /\ Len(p) = e - k /\ \A j \in 1 .. e - k : p[j] = text[k + j]
      BY <3>1, PartIs
    <3> HIDE DEF p
    <3>3. ASSUME NEW j \in 1 .. b  PROVE p[j] = Boundary[j]
      <4>1. k + j \in 1 .. n /\ 1 + (k + j) = i + j - 1  BY <1>1, <2>3, <3>1 DEF k
      <4>2. bB[1 + (k + j)] = text[k + j]  BY <1>10, <4>1
      <4>3. bB[1 + (k + j)] = Boundary[j]  BY <2>1, <4>1
      <4> QED  BY <3>1, <3>2, <4>2, <4>3
    <3>4. p = Boundary  BY <3>1, <3>2, <3>3, SeqEqual
    <3> QED  BY <3>1, <3>4 DEF IsPartOf, p, e
  <2>4. (i + b - 1) \in Int /\ n + 2 \in Int  BY <1>1
  <2> QED  BY <2>2, <2>3, <2>4
<1>12. Unbroken(Braced)  BY <1>5, <1>11 DEF Unbroken, bB
<1>13. Braced = <<left>> \o text \o <<right>>  BY DEF Braced, oc, open, close
<1>14. IsBraced(Braced, text, left, right, C)  BY <1>5, <1>6, <1>7, <1>12 DEF IsBraced
<1> QED  BY <1>13, <1>14

\* Concatenation, to be reasoned about as a whole.
Cat(s, t) == s \o t

\* It is associative,
LEMMA CatAssoc ==
  ASSUME NEW C, NEW s \in Seq(C), NEW t \in Seq(C), NEW u \in Seq(C)
  PROVE  Cat(Cat(s, t), u) = Cat(s, Cat(t, u))
<1>1. (s \o t) \o u = s \o (t \o u)  OBVIOUS
<1> QED  BY <1>1 DEF Cat

\* and as long as both.
LEMMA CatIs ==
  ASSUME NEW C, NEW s \in Seq(C), NEW t \in Seq(C)
  PROVE  Cat(s, t) \in Seq(C) /\ Len(Cat(s, t)) = Len(s) + Len(t)
BY ConcatIs DEF Cat

\* What serialize puts together is pieces with boundaries between them.
Payload(h, y, meta) == Boundary \o h \o Boundary \o y \o Boundary \o meta

\* What a payload is made of.
IsPayload(all, h, y, meta, C) ==
    /\ all = Boundary \o ThreePieces(h, y, meta)
    /\ ThreePieces(h, y, meta) \in Seq(C) /\ all \in Seq(C)
    /\ Len(all) = Len(h) + Len(y) + 3 * Len(Boundary) + Len(meta)

\* The boundaries of a payload stand before each of its pieces.
LEMMA PayloadIs ==
  ASSUME NEW C, Boundary \in Seq(C), NEW h \in Seq(C), NEW y \in Seq(C), NEW meta \in Seq(C)
  PROVE  IsPayload(Payload(h, y, meta), h, y, meta, C)
<1> DEFINE B == Boundary
           hB == Cat(h, B)
           yB == Cat(y, B)
           BhB == Cat(Cat(B, h), B)
           yBz == Cat(yB, meta)
           three == Cat(hB, yBz)
<1>1. hB \in Seq(C) /\ yB \in Seq(C)  BY CatIs
<1>2. BhB = Cat(B, hB)  BY CatAssoc
<1> HIDE DEF hB
<1>3. BhB \in Seq(C)
  <2>1. Cat(B, hB) \in Seq(C)  BY <1>1, CatIs
  <2> QED  BY <1>2, <2>1
<1> HIDE DEF BhB
<1>4. Cat(Cat(BhB, y), B) = Cat(BhB, yB)  BY <1>3, CatAssoc
<1> HIDE DEF yB
<1>5. Cat(Cat(BhB, yB), meta) = Cat(BhB, yBz) /\ yBz \in Seq(C)
  <2>1. Cat(Cat(BhB, yB), meta) = Cat(BhB, yBz)  BY <1>1, <1>3, CatAssoc
  <2>2. yBz \in Seq(C)  BY <1>1, CatIs
  <2> QED  BY <2>1, <2>2
<1> HIDE DEF yBz
<1>6. Cat(Cat(B, hB), yBz) = Cat(B, three) /\ three \in Seq(C)
  <2>1. Cat(Cat(B, hB), yBz) = Cat(B, three)  BY <1>1, <1>5, CatAssoc
  <2>2. three \in Seq(C)  BY <1>1, <1>5, CatIs
  <2> QED  BY <2>1, <2>2
<1> HIDE DEF three
<1>7. Payload(h, y, meta) = Cat(Cat(Cat(BhB, y), B), meta)
  BY DEF Payload, BhB, Cat
<1>8. three = ThreePieces(h, y, meta)  BY DEF ThreePieces, three, hB, yBz, yB, Cat
<1>9. Payload(h, y, meta) = Cat(B, three)  BY <1>2, <1>4, <1>5, <1>6, <1>7
<1>10. Len(three) = Len(h) + Len(y) + 2 * Len(B) + Len(meta)
  BY <1>8, ThreePiecesAre DEF CutsLast
<1> DEFINE all == Cat(B, three)
<1>11. all \in Seq(C) /\ Len(all) = Len(B) + Len(three)  BY <1>6, CatIs
<1>12. Len(h) \in Nat /\ Len(y) \in Nat /\ Len(B) \in Nat /\ Len(meta) \in Nat  OBVIOUS
<1>13. Payload(h, y, meta) = all  BY <1>9
<1> HIDE DEF all
<1>14. Len(all) = Len(h) + Len(y) + 3 * Len(B) + Len(meta)  BY <1>10, <1>11, <1>12
<1>15. ThreePieces(h, y, meta) \in Seq(C)  BY <1>6, <1>8
<1>16. Payload(h, y, meta) = Boundary \o ThreePieces(h, y, meta)  BY <1>8, <1>9 DEF Cat
<1>17. IsPayload(Payload(h, y, meta), h, y, meta, C)
  BY <1>11, <1>13, <1>14, <1>15, <1>16 DEF IsPayload
<1> QED  BY <1>17

\* With the size in front, it has four of them.
LEMMA FrameIsPieces ==
  ASSUME NEW C, Boundary \in Seq(C), NEW num \in Seq(C),
         NEW h \in Seq(C), NEW y \in Seq(C), NEW meta \in Seq(C)
  PROVE  Cat(num, Payload(h, y, meta)) = FourPieces(num, h, y, meta)
<1> DEFINE three == ThreePieces(h, y, meta)
<1>1. three \in Seq(C) /\ Payload(h, y, meta) = Boundary \o three  BY PayloadIs DEF IsPayload
<1> HIDE DEF three
<1>2. Cat(Cat(num, Boundary), three) = Cat(num, Cat(Boundary, three))  BY <1>1, CatAssoc
<1>3. FourPieces(num, h, y, meta) = Cat(Cat(num, Boundary), three)
  BY DEF FourPieces, three, Cat
<1>4. Cat(num, Payload(h, y, meta)) = Cat(num, Cat(Boundary, three))  BY <1>1 DEF Cat
<1> QED  BY <1>2, <1>3, <1>4

-----------------------------------------------------------------------------
(* The size in front of a frame                                             *)

\* The powers that bound a frame.
LEMMA PrefixBounds ==
  /\ PrefixSize - 1 \in 1 .. MaxDigits /\ PrefixSize \in Nat /\ MaxDigits \in Nat
  /\ Base ^ (PrefixSize - 1) \in Nat /\ Base ^ MaxDigits \in Nat
  /\ Base ^ (PrefixSize - 1) <= Base ^ MaxDigits
<1> DEFINE p == PrefixSize - 1
<1>1. p \in 1 .. MaxDigits /\ MaxDigits \in Nat /\ PrefixSize \in Nat
  BY PrefixAssumption, PowersAssumption
<1> HIDE DEF p
<1>2. Base ^ p \in Nat /\ Base ^ MaxDigits \in Nat /\ Base ^ p <= Base ^ MaxDigits
  <2>1. p \in 0 .. MaxDigits /\ MaxDigits \in 0 .. MaxDigits /\ p <= MaxDigits  BY <1>1
  <2> QED  BY <2>1, Powers, PowersGrow
<1> QED  BY <1>1, <1>2 DEF p

\* A size that is in the bounds has fewer digits than the prefix.
LEMMA SizesShort ==
  ASSUME NEW n \in Nat, n < Base ^ (PrefixSize - 1)
  PROVE  /\ n < Base ^ MaxDigits /\ Digits(n) \in 1 .. PrefixSize - 1
         /\ PrefixSize - 1 \in 1 .. MaxDigits /\ PrefixSize \in Nat
<1> DEFINE p == PrefixSize - 1
<1>1. p \in 1 .. MaxDigits /\ MaxDigits \in Nat /\ PrefixSize \in Nat  BY PrefixBounds
<1>2. Base ^ p \in Nat /\ Base ^ MaxDigits \in Nat /\ Base ^ p <= Base ^ MaxDigits
  BY PrefixBounds
<1> HIDE DEF p
<1>3. n < Base ^ p  BY DEF p
<1>4. n < Base ^ MaxDigits  BY <1>2, <1>3
<1> DEFINE d == Digits(n)
<1>5. d \in 1 .. MaxDigits /\ (d = 1 \/ Base ^ (d - 1) <= n)  BY <1>4, DigitsOf
<1> HIDE DEF d
<1>6. d <= p
  <2> SUFFICES ASSUME d > p  PROVE FALSE  BY <1>1, <1>5
  <2> DEFINE e == d - 1
  <2>1. e \in 0 .. MaxDigits /\ p \in 0 .. MaxDigits /\ p <= e /\ d # 1  BY <1>1, <1>5
  <2>2. Base ^ e <= n  BY <1>5, <2>1
  <2> HIDE DEF e
  <2>3. Base ^ p <= Base ^ e /\ Base ^ e \in Nat  BY <2>1, Powers, PowersGrow
  <2> QED  BY <1>2, <1>3, <2>2, <2>3
<1>7. d \in 1 .. p  BY <1>1, <1>5, <1>6
<1> QED  BY <1>1, <1>4, <1>7 DEF d, p

\* What begins with a boundary, as far as it goes.
BoundaryFirst(rest) == \A j \in 1 .. Len(Boundary) : j <= Len(rest) => rest[j] = Boundary[j]

\* What deserializeSize reads is the size before a boundary, however much of it is there.
LEMMA SizeRead ==
  ASSUME NEW C, NEW n \in Nat, n < Base ^ (PrefixSize - 1), SizeText(n) \in Seq(C),
         Boundary \in Seq(C), NEW rest \in Seq(C), BoundaryFirst(rest)
  PROVE  DeserializeSize(SizeText(n) \o rest) = n
<1> DEFINE num == SizeText(n)
<1>1. n < Base ^ MaxDigits /\ Digits(n) \in 1 .. PrefixSize - 1 /\ PrefixSize \in Nat
  BY SizesShort
<1>2. num \in Seq(Range(DigitChars)) /\ Len(num) = Digits(n) /\ num \in Seq(C)
  BY <1>1, SizeTextIs
<1>3. Len(num) > 0  BY <1>1, <1>2
<1> HIDE DEF num
<1>4. Split(num \o rest, Dashes, TRUE)[1] = num
  <2>1. \A j \in 1 .. Len(Boundary) : j <= Len(rest) => rest[j] = Boundary[j]
    BY DEF BoundaryFirst
  <2> QED  BY <1>2, <1>3, <2>1, HeaderPart
<1> DEFINE header == num \o rest
<1>5. Split(header, Dashes, TRUE)[1] = SizeText(n)  BY <1>4 DEF num
<1> HIDE DEF header
<1>6. DeserializeSize(header) = n  BY <1>1, <1>5, NumberIs
<1> QED  BY <1>6 DEF header, num

\* The beginning of a boundary and more is the beginning of a boundary.
LEMMA BoundaryIsFirst ==
  ASSUME NEW C, Boundary \in Seq(C), NEW t \in Seq(C), NEW k \in Nat, k <= Len(Boundary \o t)
  PROVE  BoundaryFirst(FirstOf(Boundary \o t, k)) /\ FirstOf(Boundary \o t, k) \in Seq(C)
<1> DEFINE B == Boundary
           all == B \o t
           u == FirstOf(all, k)
<1>1. all \in Seq(C) /\ \A i \in 1 .. Len(B) : all[i] = B[i]  BY ConcatIs
<1> HIDE DEF all
<1>2. u \in Seq(C) /\ Len(u) = k /\ \A i \in 1 .. k : u[i] = all[i]
  <2>1. k <= Len(all)  BY DEF all
  <2> QED  BY <1>1, <2>1, FirstOfIs
<1> HIDE DEF u
<1>3. BoundaryFirst(u)
  <2> SUFFICES ASSUME NEW j \in 1 .. Len(B), j <= Len(u)  PROVE u[j] = B[j]
    BY DEF BoundaryFirst
  <2>1. j \in 1 .. k  BY <1>2
  <2> QED  BY <1>1, <1>2, <2>1
<1> QED  BY <1>2, <1>3 DEF u, all

\* The beginning of a text that is as long as the text.
LEMMA FirstOfAll ==
  ASSUME NEW C, NEW text \in Seq(C)
  PROVE  FirstOf(text, Len(text)) = text
<1> DEFINE k == Len(text)
           u == FirstOf(text, k)
<1>1. k \in Nat /\ k <= Len(text)  OBVIOUS
<1> HIDE DEF k
<1>2. u \in Seq(C) /\ Len(u) = k /\ \A i \in 1 .. k : u[i] = text[i]  BY <1>1, FirstOfIs
<1> HIDE DEF u
<1>3. u = text  BY <1>2, SeqEqual DEF k
<1> QED  BY <1>3 DEF u, k

\* Any beginning of a frame that has the whole size is enough to read it.
LEMMA HeaderRead ==
  ASSUME NEW C, NEW n \in Nat, n < Base ^ (PrefixSize - 1), SizeText(n) \in Seq(C),
         Boundary \in Seq(C), NEW t \in Seq(C),
         NEW k \in Nat, k >= Digits(n), k <= Len(SizeText(n) \o (Boundary \o t))
  PROVE  DeserializeSize(FirstOf(SizeText(n) \o (Boundary \o t), k)) = n
<1> DEFINE num == SizeText(n)
           rest == Boundary \o t
           j == k - Digits(n)
<1>1. n < Base ^ MaxDigits /\ Digits(n) \in 1 .. PrefixSize - 1 /\ PrefixSize \in Nat
  BY SizesShort
<1>2. num \in Seq(C) /\ Len(num) = Digits(n)  BY <1>1, SizeTextIs
<1>3. rest \in Seq(C) /\ Len(rest) \in Nat  BY ConcatIs
<1> HIDE DEF num, rest
<1>4. Len(num \o rest) = Len(num) + Len(rest)  BY <1>2, <1>3, ConcatIs
<1>5. k <= Len(num \o rest)  BY DEF num, rest
<1>6. j \in Nat /\ j <= Len(rest) /\ Len(num) + j = k  BY <1>1, <1>2, <1>3, <1>4, <1>5
<1> HIDE DEF j
<1>7. FirstOf(num \o rest, Len(num) + j) = num \o FirstOf(rest, j)  BY <1>2, <1>3, <1>6, CutConcat
<1>8. BoundaryFirst(FirstOf(rest, j)) /\ FirstOf(rest, j) \in Seq(C)
  BY <1>6, BoundaryIsFirst DEF rest
<1> DEFINE u == FirstOf(rest, j)
<1> HIDE DEF u
<1>9. DeserializeSize(num \o u) = n
  <2>1. u \in Seq(C) /\ BoundaryFirst(u)  BY <1>8 DEF u
  <2> QED  BY <2>1, SizeRead DEF num
<1>10. DeserializeSize(FirstOf(num \o rest, k)) = n  BY <1>6, <1>7, <1>9 DEF u
<1> QED  BY <1>10 DEF num, rest

\* What both ends need to know of a frame.
IsFrame(frame, num, h, y, meta, size) ==
    /\ frame = FourPieces(num, h, y, meta) /\ frame \in Seq(FrameChars)
    /\ num \in Seq(FrameChars) /\ Len(num) > 0 /\ Unbroken(num)
    /\ size \in Nat /\ DeserializeSize(frame) = size
    /\ \A header \in Headers(frame) : DeserializeSize(header) = size
    /\ Len(frame) \in Nat /\ Len(frame) \in {size - 1, size}

\* A number is written in digits, which no boundary begins with.
LEMMA NumberUnbroken ==
  ASSUME NEW n \in Nat, n < Base ^ MaxDigits
  PROVE  /\ SizeText(n) \in Seq(FrameChars) /\ Len(SizeText(n)) = Digits(n)
         /\ Digits(n) \in Nat \ {0} /\ Unbroken(SizeText(n))
<1> DEFINE num == SizeText(n)
           D == Range(DigitChars)
<1>1. num \in Seq(D) /\ Len(num) = Digits(n)  BY SizeTextIs
<1>2. num \in Seq(FrameChars)  BY <1>1, FrameCharsAre
<1>3. Digits(n) \in Nat \ {0}
  <2>1. Digits(n) \in 1 .. MaxDigits /\ MaxDigits \in Nat  BY DigitsOf, PowersAssumption
  <2> QED  BY <2>1
<1> HIDE DEF num
<1>4. \A i \in 1 .. Len(num) : num[i] # Boundary[1]
  <2>1. Boundary[1] \notin D  BY BetweenAssumption
  <2> HIDE DEF D
  <2>2. \A i \in 1 .. Len(num) : num[i] \in D  BY <1>1
  <2> QED  BY <2>1, <2>2
<1>5. Unbroken(num)
  <2>1. Boundary \in Seq(FrameChars)  BY FrameCharsAre
  <2> QED  BY <1>2, <1>4, <2>1, UnbrokenIs
<1> QED  BY <1>1, <1>2, <1>3, <1>5 DEF num

\* A frame of strings, and what its size is.
LEMMA FrameIs ==
  ASSUME NEW h \in Seq(FrameChars), NEW y \in Seq(FrameChars),
         NEW meta \in {MetaOK, MetaMessage},
         Len(h) <= MaxHandler, Len(y) <= MaxContent + 2
  PROVE  LET size == DeclaredSize(Len(Payload(h, y, meta)))
         IN IsFrame(Frame(h, y, meta), SizeText(size), h, y, meta, size)
<1> DEFINE F == FrameChars
           b == Len(Boundary)
           payload == Payload(h, y, meta)
           p == Len(payload)
           n == DeclaredSize(p)
           num == SizeText(n)
           frame == num \o payload
           X == Base ^ (PrefixSize - 1)
           three == ThreePieces(h, y, meta)
<1>1. /\ Boundary \in Seq(F) /\ b \in Nat \ {0} /\ meta \in Seq(F)
      /\ Len(h) \in Nat /\ Len(y) \in Nat /\ Len(meta) \in Nat
  <2>1. Boundary \in Seq(F) /\ b \in Nat \ {0} /\ meta \in Seq(F)  BY FrameCharsAre
  <2> QED  BY <2>1
<1>2. /\ payload = Boundary \o three /\ three \in Seq(F) /\ payload \in Seq(F)
      /\ p = Len(h) + Len(y) + 3 * b + Len(meta)
  <2>1. Boundary \in Seq(F) /\ meta \in Seq(F)  BY <1>1
  <2>2. IsPayload(Payload(h, y, meta), h, y, meta, F)  BY <2>1, PayloadIs
  <2> QED  BY <2>2 DEF IsPayload
<1>3. /\ PrefixSize - 1 \in 1 .. MaxDigits /\ PrefixSize \in Nat /\ MaxDigits \in Nat
      /\ X \in Nat /\ Base ^ MaxDigits \in Nat /\ X <= Base ^ MaxDigits
  BY PrefixBounds
<1>4. 3 * b + MaxHandler + MaxContent + 2 + Len(meta) + MaxDigits + 1 < X
  BY FramesAssumption
<1>5. MaxHandler \in Nat /\ MaxContent \in Nat  BY LengthsAssumption
<1>6. PrefixSize <= 3 * b  BY PrefixAssumption
<1>7. Frame(h, y, meta) = frame  BY DEF Frame, Payload
<1> HIDE DEF b, X, three, payload
<1>8. p \in Nat /\ p + MaxDigits + 1 < X /\ 3 * b <= p  BY <1>1, <1>2, <1>3, <1>4, <1>5
<1> HIDE DEF p
<1>9. Fits(p) /\ p < Base ^ MaxDigits  BY <1>3, <1>8 DEF Fits
<1>10. n \in Nat /\ FrameLength(p) \in {n - 1, n}  BY <1>8, <1>9, FrameLengthIs
<1>11. n < X
  <2>1. Digits(p) \in 1 .. MaxDigits  BY <1>8, <1>9, DigitsOf
  <2>2. n = p + Digits(p) + 1  BY DEF DeclaredSize
  <2> QED  BY <1>3, <1>8, <2>1, <2>2
<1>12. FrameLength(p) = Digits(n) + p  BY DEF FrameLength
<1> HIDE DEF n
<1>13. n < Base ^ MaxDigits  BY <1>3, <1>10, <1>11
<1>14. num \in Seq(F) /\ Len(num) = Digits(n) /\ Digits(n) \in Nat \ {0} /\ Unbroken(num)
  BY <1>10, <1>13, NumberUnbroken
<1>15. Digits(n) \in 1 .. PrefixSize - 1  BY <1>10, <1>11, SizesShort DEF X
<1>16. frame = FourPieces(num, h, y, meta)
  <2>1. num \in Seq(F) /\ Boundary \in Seq(F) /\ meta \in Seq(F)  BY <1>1, <1>14
  <2> HIDE DEF num
  <2>2. Cat(num, Payload(h, y, meta)) = FourPieces(num, h, y, meta)
    BY <2>1, FrameIsPieces
  <2> QED  BY <2>2 DEF payload, Cat
<1>17. frame \in Seq(F) /\ Len(frame) = Digits(n) + p
  <2>1. num \in Seq(F) /\ payload \in Seq(F)  BY <1>2, <1>14
  <2>2. frame \in Seq(F) /\ Len(frame) = Len(num) + Len(payload)
    <3> HIDE DEF num
    <3> QED  BY <2>1, ConcatIs
  <2> QED  BY <1>14, <2>2 DEF p
<1>18. Len(frame) \in Nat /\ Len(frame) \in {n - 1, n}
  <2> HIDE DEF frame
  <2> QED  BY <1>8, <1>10, <1>12, <1>14, <1>17
<1>19. ASSUME NEW k \in Nat, k >= Digits(n), k <= Len(frame)
       PROVE  DeserializeSize(FirstOf(frame, k)) = n
  <2>1. frame = SizeText(n) \o (Boundary \o three)  BY <1>2
  <2>2. n < Base ^ (PrefixSize - 1)  BY <1>11 DEF X
  <2>3. SizeText(n) \in Seq(F)  BY <1>14
  <2> HIDE DEF frame
  <2>4. k <= Len(SizeText(n) \o (Boundary \o three))  BY <1>19, <2>1
  <2>5. DeserializeSize(FirstOf(SizeText(n) \o (Boundary \o three), k)) = n
    BY <1>1, <1>2, <1>10, <1>19, <2>2, <2>3, <2>4, HeaderRead
  <2> QED  BY <2>1, <2>5
<1> HIDE DEF num, frame
<1>20. DeserializeSize(frame) = n
  <2>1. FirstOf(frame, Len(frame)) = frame  BY <1>17, FirstOfAll
  <2>2. Len(frame) >= Digits(n)  BY <1>8, <1>14, <1>17
  <2>3. DeserializeSize(FirstOf(frame, Len(frame))) = n  BY <1>18, <1>19, <2>2
  <2> QED  BY <2>1, <2>3
<1>21. ASSUME NEW header \in Headers(frame)  PROVE DeserializeSize(header) = n
  <2>1. PICK k \in {PrefixSize - 1, PrefixSize} : header = FirstOf(frame, k)
    BY DEF Headers, FirstOf
  <2>2. k \in Nat /\ k >= Digits(n) /\ k <= Len(frame)
    <3>1. Digits(n) <= PrefixSize - 1 /\ PrefixSize - 1 \in Nat /\ Digits(n) \in Nat
      BY <1>3, <1>14, <1>15
    <3>2. PrefixSize <= p /\ Len(frame) = Digits(n) + p  BY <1>1, <1>3, <1>6, <1>8, <1>17
    <3>3. k = PrefixSize - 1 \/ k = PrefixSize  OBVIOUS
    <3> QED  BY <1>3, <1>8, <3>1, <3>2, <3>3
  <2> QED  BY <1>19, <2>1, <2>2
<1>22. Len(num) > 0  BY <1>14
<1>23. IsFrame(frame, num, h, y, meta, n)
  BY <1>10, <1>14, <1>16, <1>17, <1>18, <1>20, <1>21, <1>22 DEF IsFrame
<1> QED  BY <1>7, <1>23 DEF num, n, p, payload

\* Metadata that are cut off still have nothing in them that a boundary begins with.
LEMMA MetaCut ==
  ASSUME NEW meta \in {MetaOK, MetaPacket, MetaMessage}, NEW k \in 0 .. Len(meta)
  PROVE  /\ FirstOf(meta, k) \in Seq(FrameChars) /\ Len(FirstOf(meta, k)) = k
         /\ \A i \in 1 .. k : FirstOf(meta, k)[i] = meta[i]
         /\ \A i \in 1 .. Len(FirstOf(meta, k)) : FirstOf(meta, k)[i] # Boundary[1]
         /\ LastUnbroken(FirstOf(meta, k))
<1> DEFINE u == FirstOf(meta, k)
           M == Range(meta)
<1>1. meta \in Seq(FrameChars) /\ Boundary \in Seq(FrameChars)  BY FrameCharsAre
<1>2. meta \in Seq(M) /\ Boundary[1] \notin M  BY BetweenAssumption
<1>3. \A i \in 1 .. Len(meta) : meta[i] # Boundary[1]
  <2> HIDE DEF M
  <2>1. \A i \in 1 .. Len(meta) : meta[i] \in M  BY <1>2
  <2> QED  BY <1>2, <2>1
<1>4. u \in Seq(FrameChars) /\ Len(u) = k /\ \A i \in 1 .. k : u[i] = meta[i]
  <2>1. k \in Nat /\ k <= Len(meta)  BY <1>1
  <2> QED  BY <1>1, <2>1, FirstOfIs
<1> HIDE DEF u
<1>5. \A i \in 1 .. Len(u) : u[i] # Boundary[1]  BY <1>1, <1>3, <1>4
<1>6. \A i \in 1 .. Len(u) : ~Matches(u, i, Boundary)  BY <1>1, <1>4, <1>5, UnbrokenIs
<1>7. LastUnbroken(u)
  <2>1. \A i \in 2 .. Len(u) : i \in 1 .. Len(u)  OBVIOUS
  <2> QED  BY <1>6, <2>1 DEF LastUnbroken
<1> QED  BY <1>4, <1>5, <1>7 DEF u

\* A frame that some of the metadata may be missing of, but not all.
IsCut(got, num, h, y, meta) ==
    \E k \in 1 .. Len(meta) : got = FourPieces(num, h, y, FirstOf(meta, k))

\* read cuts off one character of the metadata at most.
LEMMA CutFrame ==
  ASSUME NEW frame, NEW num, NEW h \in Seq(FrameChars), NEW y \in Seq(FrameChars),
         NEW meta \in {MetaOK, MetaMessage}, NEW size,
         IsFrame(frame, num, h, y, meta, size), NEW n \in ReadLengths(frame, size)
  PROVE  IsCut(SubSeq(frame, 1, n), num, h, y, meta)
<1> DEFINE m == Len(num) + Len(h) + Len(y) + 3 * Len(Boundary)
           cut == [k \in 0 .. Len(meta) |-> FourPieces(num, h, y, FirstOf(meta, k))]
           k == n - m
<1>1. Boundary \in Seq(FrameChars) /\ meta \in Seq(FrameChars) /\ num \in Seq(FrameChars)
  BY FrameCharsAre DEF IsFrame
<1>2. CutsLast(FourPieces(num, h, y, meta), m, meta, cut)  BY <1>1, FourPiecesAre
<1>3. Len(meta) >= 2 /\ Len(meta) \in Nat /\ m \in Nat
  <2>1. Len(meta) >= 2  BY BetweenAssumption
  <2> QED  BY <1>1, <2>1
<1>4. frame = FourPieces(num, h, y, meta) /\ size \in Nat /\ Len(frame) \in {size - 1, size}
  BY DEF IsFrame
<1> HIDE DEF m
<1>5. Len(frame) = m + Len(meta)  BY <1>2, <1>4 DEF CutsLast
<1>6. n \in {size - 1, size} /\ n \in 0 .. Len(frame)  BY DEF ReadLengths
<1>7. k \in 1 .. Len(meta) /\ k \in 0 .. Len(meta) /\ m + k = n
  BY <1>3, <1>4, <1>5, <1>6
<1> HIDE DEF k
<1>8. FirstOf(frame, m + k) = cut[k]  BY <1>2, <1>4, <1>7 DEF CutsLast
<1>9. SubSeq(frame, 1, n) = FourPieces(num, h, y, FirstOf(meta, k))
  BY <1>7, <1>8 DEF FirstOf
<1> QED  BY <1>7, <1>9 DEF IsCut

\* The ends of a text.
LEMMA HeadAndLast ==
  ASSUME NEW C, NEW y \in Seq(C), Len(y) >= 2
  PROVE  Head(y) = y[1] /\ Last(y) = y[Len(y)]
<1>1. y # <<>>  OBVIOUS
<1> QED  BY <1>1 DEF Last

\* The parts of a frame by their numbers.
LEMMA FourOf ==
  ASSUME NEW W, NEW w \in W, NEW x \in W, NEW y \in W, NEW z \in W
  PROVE  /\ Len(<<w, x, y, z>>) = 4 /\ <<w, x, y, z>>[2] = x /\ <<w, x, y, z>>[3] = y
         /\ Len(<<w, x>>) = 2 /\ <<w, x>>[2] = x
OBVIOUS

\* What the other side makes of a frame of four parts.
LEMMA FourArrive ==
  ASSUME NEW got, NEW w \in Seq(FrameChars), NEW x \in Seq(FrameChars),
         NEW y \in Seq(FrameChars), NEW z \in Seq(FrameChars),
         InFour(got, w, x, y, z), IsJson(y)
  PROVE  DeserializeHandler(got) = x /\ Deserialize(got) = Result("OK", x, y)
<1> DEFINE four == <<w, x, y, z>>
           two == <<w, x>>
<1>1. Len(four) = 4 /\ four[2] = x /\ four[3] = y /\ Len(two) = 2 /\ two[2] = x
  <2> DEFINE W == Seq(FrameChars)
  <2>1. w \in W /\ x \in W /\ y \in W /\ z \in W  OBVIOUS
  <2> HIDE DEF W
  <2> QED  BY <2>1, FourOf
<1>2. Split(got, Boundary, FALSE) = four /\ Split(got, Boundary, TRUE) = two
  BY DEF InFour
<1> HIDE DEF four, two
<1>3. DeserializeHandler(got) = x  BY <1>1, <1>2, Zenon DEF DeserializeHandler
<1>4. Deserialize(got) = Result("OK", x, y)
  BY <1>1, <1>2, Zenon DEF Deserialize, MetadataStatus
<1> QED  BY <1>3, <1>4

\* A message arrives, if nothing in it is broken by the boundary.
LEMMA FrameArrives ==
  ASSUME NEW frame, NEW num, NEW h \in Seq(FrameChars), NEW y \in Seq(FrameChars),
         NEW size, IsFrame(frame, num, h, y, MetaOK, size), NEW n \in ReadLengths(frame, size),
         Len(h) > 0, Len(y) > 0, Unbroken(h), Unbroken(y), IsJson(y)
  PROVE  /\ DeserializeHandler(SubSeq(frame, 1, n)) = h
         /\ Deserialize(SubSeq(frame, 1, n)) = Result("OK", h, y)
<1> DEFINE got == SubSeq(frame, 1, n)
<1>1. PICK k \in 1 .. Len(MetaOK) : got = FourPieces(num, h, y, FirstOf(MetaOK, k))
  <2>1. IsCut(got, num, h, y, MetaOK)  BY CutFrame
  <2> QED  BY <2>1 DEF IsCut
<1> HIDE DEF got
<1> DEFINE z == FirstOf(MetaOK, k)
<1>2. z \in Seq(FrameChars) /\ LastUnbroken(z)
  <2>1. k \in 0 .. Len(MetaOK)  OBVIOUS
  <2> QED  BY <2>1, MetaCut
<1> HIDE DEF z
<1>3. Boundary \in Seq(FrameChars) /\ num \in Seq(FrameChars) /\ Len(num) > 0 /\ Unbroken(num)
  BY FrameCharsAre DEF IsFrame
<1>4. InFour(FourPieces(num, h, y, z), num, h, y, z)  BY <1>2, <1>3, FourParts
<1>5. got = FourPieces(num, h, y, z)  BY <1>1 DEF z
<1>6. DeserializeHandler(got) = h /\ Deserialize(got) = Result("OK", h, y)
  <2>1. InFour(got, num, h, y, z)  BY <1>4, <1>5
  <2> QED  BY <1>2, <1>3, <2>1, FourArrive
<1> QED  BY <1>6 DEF got

\* A handler's name is unbroken.
LEMMA HandlerUnbroken ==
  ASSUME NEW h \in Seq({"h"}), Len(h) > 0
  PROVE  h \in Seq(FrameChars) /\ Unbroken(h)
<1> DEFINE H == {"h"}
<1>1. h \in Seq(FrameChars)
  <2>1. H \subseteq FrameChars  BY Zenon DEF FrameChars
  <2>2. h \in Seq(H)  OBVIOUS
  <2> HIDE DEF H
  <2> QED  BY <2>1, <2>2, SeqMonotonic
<1>2. Boundary[1] \notin H  BY FramesAssumption
<1>3. h \in Seq(H)  OBVIOUS
<1> HIDE DEF H
<1>4. \A i \in 1 .. Len(h) : h[i] # Boundary[1]  BY <1>2, <1>3
<1>5. Boundary \in Seq(FrameChars)  BY FrameCharsAre
<1>6. Unbroken(h)  BY <1>1, <1>4, <1>5, UnbrokenIs
<1> QED  BY <1>1, <1>6

\* The text of a message's JSON.
IsBody(y, text) ==
    /\ y \in Seq(FrameChars) /\ Len(y) = Len(text) + 2 /\ Unbroken(y) /\ IsJson(y)

\* The JSON of a message that does not hold the boundary.
LEMMA BodyIs ==
  ASSUME NEW text \in Seq(ContentChars), ~IsPartOf(Boundary, text)
  PROVE  IsBody(<<"{">> \o text \o <<"}">>, text)
<1>1. ASSUME NEW left, NEW right, left \in FrameChars, right \in FrameChars,
             right \notin Range(Boundary), text \in Seq(FrameChars)
      PROVE  LET y == <<left>> \o text \o <<right>> IN
             /\ y \in Seq(FrameChars) /\ Len(y) = Len(text) + 2 /\ Unbroken(y)
             /\ Len(y) >= 2 /\ Head(y) = left /\ Last(y) = right
  <2> DEFINE y == <<left>> \o text \o <<right>>
  <2>1. Boundary \in Seq(FrameChars)  BY FrameCharsAre
  <2>2. IsBraced(y, text, left, right, FrameChars)  BY <1>1, <2>1, BracedUnbroken
  <2> HIDE DEF y
  <2>3. /\ y \in Seq(FrameChars) /\ Len(y) = Len(text) + 2 /\ Unbroken(y)
        /\ y[1] = left /\ y[Len(y)] = right
    BY <2>2 DEF IsBraced
  <2>4. Len(y) >= 2  BY <1>1, <2>3
  <2>5. Head(y) = y[1] /\ Last(y) = y[Len(y)]  BY <2>3, <2>4, HeadAndLast
  <2>6. Head(y) = left /\ Last(y) = right  BY <2>3, <2>5
  <2> QED  BY <2>3, <2>4, <2>6 DEF y
<1>2. "{" \in FrameChars /\ "}" \in FrameChars  BY Zenon DEF FrameChars
<1>3. "}" \notin Range(Boundary)  BY BetweenAssumption, Zenon
<1>4. text \in Seq(FrameChars)
  <2>1. ContentChars \subseteq FrameChars  BY Zenon DEF FrameChars
  <2> QED  BY <2>1, SeqMonotonic
<1> QED  BY <1>1, <1>2, <1>3, <1>4, Zenon DEF IsBody, IsJson

\* A text of three parts is no message.
LEMMA ThreeFail ==
  ASSUME NEW got, NEW x \in Seq(FrameChars), NEW y \in Seq(FrameChars), NEW z \in Seq(FrameChars),
         Split(got, Boundary, FALSE) = <<x, y, z>>
  PROVE  Deserialize(got).status = "ProtocolError"
<1> DEFINE three == <<x, y, z>>
           error == Result("ProtocolError", <<>>, <<>>)
<1>1. Len(three) # 4  OBVIOUS
<1>2. Split(got, Boundary, FALSE) = three  OBVIOUS
<1> HIDE DEF three
<1>3. error.status = "ProtocolError"  BY DEF Result
<1> HIDE DEF error
<1>4. Deserialize(got) = error  BY <1>1, <1>2, Zenon DEF Deserialize, error
<1> QED  BY <1>3, <1>4

\* Metadata after a boundary that nothing comes before: no other begins there.
LEMMA BoundaryMeta ==
  ASSUME NEW z \in Seq(FrameChars), Len(z) > 0, z[1] \notin Range(Boundary),
         \A i \in 1 .. Len(z) : z[i] # Boundary[1]
  PROVE  LastUnbroken(Boundary \o z) /\ Boundary \o z \in Seq(FrameChars)
<1> DEFINE B == Boundary
           b == Len(B)
           m == Len(z)
           all == B \o z
<1>1. B \in Seq(FrameChars) /\ b \in Nat \ {0} /\ m \in Nat
  <2>1. B \in Seq(FrameChars) /\ b \in Nat \ {0}  BY FrameCharsAre
  <2> QED  BY <2>1
<1>2. DOMAIN B = 1 .. b /\ \A j \in 1 .. b : B[j] \in Range(B)
  <2>1. DOMAIN B = 1 .. b  BY <1>1
  <2> HIDE DEF b
  <2> QED  BY <2>1 DEF Range
<1>3. IsConcat(all, B, z, FrameChars)  BY <1>1, ConcatHas
<1> HIDE DEF all
<1>4. /\ all \in Seq(FrameChars) /\ Len(all) = b + m
      /\ \A i \in b + 1 .. b + m : all[i] = z[i - b]
  BY <1>3 DEF IsConcat
<1> HIDE DEF m, b
<1>5. ASSUME NEW i \in 2 .. b + m, Matches(all, i, B)  PROVE FALSE
  <2>1. \A j \in 1 .. b : i + j - 1 <= b + m => all[i + j - 1] = B[j]
    BY <1>2, <1>4, <1>5 DEF Matches
  <2>2. CASE i <= b
    <3> DEFINE j == b + 2 - i
    <3>1. j \in 1 .. b /\ i + j - 1 = b + 1 /\ b + 1 <= b + m /\ b + 1 \in b + 1 .. b + m
          /\ (b + 1) - b = 1
      BY <1>1, <2>2 DEF m
    <3> HIDE DEF j
    <3>2. z[1] = B[j]  BY <1>4, <2>1, <3>1
    <3> QED  BY <1>2, <3>1, <3>2
  <2>3. CASE b < i
    <3>1. i \in b + 1 .. b + m /\ i - b \in 1 .. m /\ i + 1 - 1 = i /\ i <= b + m /\ 1 \in 1 .. b
      BY <1>1, <2>3
    <3>2. all[i] = B[1]  BY <2>1, <3>1
    <3>3. z[i - b] # B[1]  BY <3>1 DEF m
    <3> QED  BY <1>4, <3>1, <3>2, <3>3
  <2> QED  BY <1>1, <2>2, <2>3
<1>6. LastUnbroken(all)  BY <1>4, <1>5 DEF LastUnbroken
<1> QED  BY <1>4, <1>6 DEF all

\* Without a body the boundary after it is text.
LEMMA NoBody ==
  ASSUME NEW num \in Seq(FrameChars), NEW h \in Seq(FrameChars), NEW z \in Seq(FrameChars)
  PROVE  FourPieces(num, h, <<>>, z) = ThreePieces(num, h, Boundary \o z)
<1>1. Boundary \in Seq(FrameChars)  BY FrameCharsAre
<1>2. <<>> \o Boundary = Boundary  BY <1>1
<1> QED  BY <1>2, Zenon DEF FourPieces, ThreePieces

\* A message that has no JSON is no message to the other side,
LEMMA CorruptFails ==
  ASSUME NEW h \in Seq({"h"}), Len(h) > 0, Len(h) <= MaxHandler,
         NEW n \in ReadLengths(CorruptFrame(h), DeserializeSize(CorruptFrame(h)))
  PROVE  Deserialize(SubSeq(CorruptFrame(h), 1, n)).status = "ProtocolError"
<1> DEFINE frame == CorruptFrame(h)
           size == DeclaredSize(Len(Payload(h, <<>>, MetaMessage)))
           num == SizeText(size)
           got == SubSeq(frame, 1, n)
           y == <<>>
<1>1. h \in Seq(FrameChars) /\ Unbroken(h)  BY HandlerUnbroken
<1>2. y \in Seq(FrameChars) /\ Len(y) <= MaxContent + 2
  <2>1. MaxContent \in Nat  BY LengthsAssumption
  <2> QED  BY <2>1
<1>3. IsFrame(frame, num, h, y, MetaMessage, size)
  <2> HIDE DEF y
  <2>1. IsFrame(Frame(h, y, MetaMessage), SizeText(DeclaredSize(Len(Payload(h, y, MetaMessage)))),
                h, y, MetaMessage, DeclaredSize(Len(Payload(h, y, MetaMessage))))
    BY <1>1, <1>2, FrameIs
  <2> QED  BY <2>1 DEF CorruptFrame, y
<1>4. n \in ReadLengths(frame, size)  BY <1>3 DEF IsFrame
<1> HIDE DEF frame, size, num
<1>5. IsCut(got, num, h, y, MetaMessage)
  <2> HIDE DEF y, got
  <2>1. IsCut(SubSeq(frame, 1, n), num, h, y, MetaMessage)  BY <1>1, <1>2, <1>3, <1>4, CutFrame
  <2> QED  BY <2>1 DEF got
<1> HIDE DEF got
<1>6. PICK k \in 1 .. Len(MetaMessage) : got = FourPieces(num, h, y, FirstOf(MetaMessage, k))
  BY <1>5 DEF IsCut
<1> DEFINE z == FirstOf(MetaMessage, k)
<1>7. /\ z \in Seq(FrameChars) /\ Len(z) = k /\ z[1] = MetaMessage[1]
      /\ \A i \in 1 .. Len(z) : z[i] # Boundary[1]
  <2>1. k \in 0 .. Len(MetaMessage) /\ 1 \in 1 .. k  OBVIOUS
  <2> QED  BY <2>1, MetaCut
<1>8. got = FourPieces(num, h, <<>>, z)  BY <1>6
<1> HIDE DEF z
<1>9. z[1] \notin Range(Boundary)
  <2>1. MetaMessage[1] = "{" /\ "{" \notin Range(Boundary)  BY BetweenAssumption, Zenon
  <2> QED  BY <1>7, <2>1, Zenon
<1> DEFINE last == Boundary \o z
<1>10. LastUnbroken(last) /\ last \in Seq(FrameChars)
  <2>1. Len(z) > 0  BY <1>7
  <2> QED  BY <1>7, <1>9, <2>1, BoundaryMeta
<1>11. num \in Seq(FrameChars) /\ Len(num) > 0 /\ Unbroken(num) /\ Boundary \in Seq(FrameChars)
  BY <1>3, FrameCharsAre DEF IsFrame
<1>12. got = ThreePieces(num, h, last)  BY <1>1, <1>7, <1>8, <1>11, NoBody
<1> HIDE DEF last
<1>13. Split(got, Boundary, FALSE) = <<num, h, last>>
  BY <1>1, <1>10, <1>11, <1>12, ThreeParts
<1>14. Deserialize(got).status = "ProtocolError"  BY <1>1, <1>10, <1>11, <1>13, ThreeFail
<1> QED  BY <1>14 DEF got, frame

\* nor is no message.
LEMMA NullFails ==
  ASSUME NEW n \in ReadLengths(NullFrame, DeserializeSize(NullFrame))
  PROVE  Deserialize(SubSeq(NullFrame, 1, n)).status = "ProtocolError"
<1> DEFINE B == Boundary
           b == Len(B)
           m == Len(MetaPacket)
           size == 3 * b + m + 1
           num == SizeText(size)
           got == SubSeq(NullFrame, 1, n)
           BB == Cat(B, B)
           rest == Cat(BB, MetaPacket)
           nB == Cat(num, B)
           t == Len(num) + b + 2 * b
           cut == [k \in 0 .. m |-> ThreePieces(num, B, FirstOf(MetaPacket, k))]
           k == n - t
<1>1. /\ B \in Seq(FrameChars) /\ b \in Nat \ {0} /\ MetaPacket \in Seq(FrameChars)
      /\ m \in Nat /\ size \in Nat
  <2>1. B \in Seq(FrameChars) /\ b \in Nat \ {0} /\ MetaPacket \in Seq(FrameChars)
    BY FrameCharsAre
  <2>2. m \in Nat  BY <2>1
  <2> HIDE DEF b, m
  <2> QED  BY <2>1, <2>2
<1>2. size < Base ^ (PrefixSize - 1) /\ Digits(size) <= m  BY PrefixAssumption
<1> HIDE DEF size
<1>3. size < Base ^ MaxDigits  BY <1>1, <1>2, SizesShort
<1>4. num \in Seq(FrameChars) /\ Len(num) = Digits(size) /\ Digits(size) \in Nat \ {0}
      /\ Unbroken(num)
  BY <1>1, <1>3, NumberUnbroken
<1>5. NullFrame = Cat(Cat(Cat(nB, B), B), MetaPacket)
  BY DEF NullFrame, Cat, size, num
<1> HIDE DEF num
<1>6. nB \in Seq(FrameChars) /\ BB \in Seq(FrameChars) /\ rest \in Seq(FrameChars)
  <2>1. nB \in Seq(FrameChars) /\ BB \in Seq(FrameChars)  BY <1>1, <1>4, CatIs
  <2> HIDE DEF BB
  <2> QED  BY <1>1, <2>1, CatIs
<1>7. NullFrame = Cat(nB, rest)
  <2>1. Cat(Cat(nB, B), B) = Cat(nB, BB)
    <3> HIDE DEF nB
    <3> QED  BY <1>1, <1>6, CatAssoc
  <2>2. Cat(Cat(nB, BB), MetaPacket) = Cat(nB, rest)
    <3> HIDE DEF nB, BB
    <3> QED  BY <1>1, <1>6, CatAssoc
  <2> QED  BY <1>5, <2>1, <2>2
<1>8. NullFrame = ThreePieces(num, B, MetaPacket)  BY <1>7 DEF ThreePieces, Cat
<1>9. NullFrame = SizeText(size) \o (B \o rest)
  <2>1. Cat(nB, rest) = Cat(num, Cat(B, rest))
    <3> HIDE DEF rest
    <3> QED  BY <1>1, <1>4, <1>6, CatAssoc
  <2> HIDE DEF rest
  <2> QED  BY <1>7, <2>1 DEF Cat, num
<1> HIDE DEF nB, BB, rest
<1>10. CutsLast(NullFrame, t, MetaPacket, cut)  BY <1>1, <1>4, <1>8, ThreePiecesAre
<1>11. t = Digits(size) + 3 * b /\ t \in Nat  BY <1>1, <1>4
<1>12. Len(NullFrame) = t + m  BY <1>10 DEF CutsLast
<1> HIDE DEF t, cut
<1>13. NullFrame \in Seq(FrameChars)  BY <1>1, <1>4, <1>8, ThreePiecesAre
<1>14. DeserializeSize(NullFrame) = size
  <2> DEFINE l == Len(NullFrame)
  <2>1. l \in Nat /\ l >= Digits(size)  BY <1>1, <1>4, <1>11, <1>12
  <2>2. l <= Len(SizeText(size) \o (B \o rest))  BY <1>9, <2>1
  <2>3. SizeText(size) \in Seq(FrameChars)  BY <1>4 DEF num
  <2> HIDE DEF l
  <2>4. DeserializeSize(FirstOf(SizeText(size) \o (B \o rest), l)) = size
    BY <1>1, <1>2, <1>6, <2>1, <2>2, <2>3, HeaderRead
  <2>5. FirstOf(NullFrame, l) = NullFrame  BY <1>13, FirstOfAll DEF l
  <2> QED  BY <1>9, <2>4, <2>5
<1>15. n \in {size - 1, size} /\ n \in 0 .. Len(NullFrame)  BY <1>14 DEF ReadLengths
<1>16. k \in 0 .. m /\ t + k = n
  <2>1. size = 3 * b + m + 1  BY DEF size
  <2> DEFINE d == Digits(size)
             l == Len(NullFrame)
  <2>2. d \in Nat /\ d <= m /\ t = d + 3 * b /\ l = t + m  BY <1>2, <1>4, <1>11, <1>12
  <2>3. n \in {size - 1, size} /\ n \in 0 .. l /\ b \in Nat /\ m \in Nat  BY <1>1, <1>15
  <2> HIDE DEF b, m, d, l
  <2> QED  BY <2>1, <2>2, <2>3
<1> HIDE DEF k
<1>17. got = cut[k]  BY <1>10, <1>16 DEF CutsLast, FirstOf
<1> DEFINE z == FirstOf(MetaPacket, k)
<1>18. got = ThreePieces(num, B, z)  BY <1>16, <1>17 DEF cut
<1>19. z \in Seq(FrameChars) /\ LastUnbroken(z)  BY <1>16, MetaCut
<1> HIDE DEF z, got
<1>20. Unbroken(B)  BY OverlapAssumption DEF Unbroken
<1>21. Len(num) > 0 /\ Len(B) > 0  BY <1>1, <1>4
<1>22. Split(got, Boundary, FALSE) = <<num, B, z>>
  BY <1>1, <1>4, <1>18, <1>19, <1>20, <1>21, ThreeParts
<1>23. Deserialize(got).status = "ProtocolError"  BY <1>1, <1>4, <1>19, <1>22, ThreeFail
<1> QED  BY <1>23 DEF got

-----------------------------------------------------------------------------
(* The theorems                                                             *)

\* The texts are sequences of their characters, the handler's name is not empty, and a
\* message has a size_t for its size.
TextInv ==
    /\ file \in Seq(FileChars)
    /\ handler \in Seq({"h"}) /\ Len(handler) \in 1 .. MaxHandler
    /\ content \in Seq(ContentChars) /\ Len(content) <= MaxContent

\* A character more.
LEMMA Appended ==
  ASSUME NEW C, NEW text \in Seq(C), NEW ch \in C
  PROVE  Append(text, ch) \in Seq(C) /\ Len(Append(text, ch)) = Len(text) + 1
OBVIOUS

\* It holds in the beginning,
LEMMA InitText == ASSUME Init PROVE TextInv
<1>1. file \in Seq(FileChars) /\ content \in Seq(ContentChars) /\ Len(content) = 0
  BY DEF Init
<1>2. handler \in Seq({"h"}) /\ Len(handler) = 1  BY DEF Init
<1> QED  BY <1>1, <1>2, LengthsAssumption DEF TextInv

\* and every step keeps it.
LEMMA NextText == ASSUME TextInv, [Next]_vars PROVE TextInv'
<1> DEFINE H == {"h"}
<1>1. /\ file \in Seq(FileChars) /\ handler \in Seq(H) /\ Len(handler) \in 1 .. MaxHandler
      /\ content \in Seq(ContentChars) /\ Len(content) <= MaxContent
  BY DEF TextInv
<1>2. MaxHandler \in Nat /\ MaxContent \in Nat  BY LengthsAssumption
<1>3. ASSUME NEW ch \in FileChars, WriteFile(ch)  PROVE TextInv'
  <2>1. file' = Append(file, ch) /\ handler' = handler /\ content' = content
    BY <1>3 DEF WriteFile
  <2>2. file' \in Seq(FileChars)  BY <1>1, <2>1, Appended
  <2> QED  BY <1>1, <2>1, <2>2 DEF TextInv
<1>4. ASSUME NEW ch \in ContentChars, WriteContent(ch)  PROVE TextInv'
  <2>1. /\ content' = Append(content, ch) /\ handler' = handler /\ file' = file
        /\ Len(content) < MaxContent
    BY <1>4 DEF WriteContent
  <2>2. content' \in Seq(ContentChars) /\ Len(content') = Len(content) + 1
    BY <1>1, <2>1, Appended
  <2>3. Len(content') <= MaxContent  BY <1>1, <1>2, <2>1, <2>2
  <2> QED  BY <1>1, <2>1, <2>2, <2>3 DEF TextInv
<1>5. ASSUME NameHandler  PROVE TextInv'
  <2>1. /\ handler' = Append(handler, "h") /\ content' = content /\ file' = file
        /\ Len(handler) < MaxHandler
    BY <1>5 DEF NameHandler
  <2>2. "h" \in H  OBVIOUS
  <2> HIDE DEF H
  <2>3. handler' \in Seq(H) /\ Len(handler') = Len(handler) + 1  BY <1>1, <2>1, <2>2, Appended
  <2>4. Len(handler') \in 1 .. MaxHandler  BY <1>1, <1>2, <2>1, <2>3
  <2> QED  BY <1>1, <2>1, <2>3, <2>4 DEF TextInv, H
<1>6. ASSUME UNCHANGED vars  PROVE TextInv'  BY <1>1, <1>6 DEF TextInv, vars
<1> QED  BY <1>3, <1>4, <1>5, <1>6 DEF Next

\* TextInv holds in every state.
THEOREM TextInvariance == Spec => []TextInv
<1>1. Init => TextInv  BY InitText
<1>2. TextInv /\ [Next]_vars => TextInv'  BY NextText
<1> QED  BY <1>1, <1>2, PTL DEF Spec

\* tokenizeRange: for any letters and any text, what a file is indexed under is its words
\* up to the first '\0', each once, in order and at the offset where it ends.
THEOREM TokensAreTheWords == Spec => []TokensAreWords
<1>1. TextInv => TokensAreWords  BY TokensRight DEF TextInv
<1> QED  BY <1>1, TextInvariance, PTL

\* removePunct, tokenizeRange and to_lowercase: whatever the letters and the file are, a search
\* for a word of an indexed file looks for the token it was indexed as, and erase for that
\* token only if the case of the word is the index's.
THEOREM QueriesFindIndexed == Spec => []QueryFindsIndexed
<1>1. TextInv => QueryFindsIndexed  BY QueriesRight DEF TextInv
<1> QED  BY <1>1, TextInvariance, PTL

\* contextualize: whatever position the index has for a file, the context is a range of it,
\* and one that begins after the file does begins and ends at the ends of sentences; if the
\* file is the one that was indexed, a context that is not empty holds the whole token.
THEOREM ContextsHoldTokens == Spec => []ContextHoldsToken
<1>1. TextInv => ContextHoldsToken  BY ContextRight DEF TextInv
<1> QED  BY <1>1, TextInvariance, PTL

\* serialize, split and deserialize: a message of any length that does not hold the boundary
\* arrives as it was sent, with its handler, although read may leave its last character in the
\* socket, and any header says how long its frame is.
THEOREM PacketsArrive == Spec => []PacketArrives
<1>1. ASSUME TextInv  PROVE PacketArrives
  <2> DEFINE H == {"h"}
             frame == Frame(handler, Body, MetaOK)
             declared == DeserializeSize(frame)
  <2>1. /\ handler \in Seq(H) /\ Len(handler) \in 1 .. MaxHandler
        /\ content \in Seq(ContentChars) /\ Len(content) <= MaxContent
    BY <1>1 DEF TextInv
  <2>2. MaxHandler \in Nat /\ MaxContent \in Nat  BY LengthsAssumption
  <2> SUFFICES ASSUME ~IsPartOf(Boundary, content)
               PROVE  /\ \A header \in Headers(frame) : DeserializeSize(header) = declared
                      /\ Len(frame) \in {declared - 1, declared}
                      /\ \A n \in ReadLengths(frame, declared) :
                           /\ DeserializeHandler(SubSeq(frame, 1, n)) = handler
                           /\ Deserialize(SubSeq(frame, 1, n)) = Result("OK", handler, Body)
    BY Zenon DEF PacketArrives
  <2>3. IsBody(Body, content)
    <3>1. \A text \in Seq(ContentChars) :
            ~IsPartOf(Boundary, text) => IsBody(<<"{">> \o text \o <<"}">>, text)
      BY BodyIs, Zenon
    <3> QED  BY <2>1, <3>1, Zenon DEF Body
  <2>4. /\ Body \in Seq(FrameChars) /\ Len(Body) = Len(content) + 2
        /\ Unbroken(Body) /\ IsJson(Body)
    BY <2>3 DEF IsBody
  <2>5. Len(Body) <= MaxContent + 2 /\ Len(Body) > 0  BY <2>1, <2>2, <2>4
  <2>6. Len(handler) > 0 /\ Len(handler) <= MaxHandler  BY <2>1, <2>2
  <2>7. handler \in Seq(FrameChars) /\ Unbroken(handler)  BY <2>1, <2>6, HandlerUnbroken
  <2> HIDE DEF frame, declared
  <2>8. PICK num, size : IsFrame(frame, num, handler, Body, MetaOK, size)
    <3>1. LET size == DeclaredSize(Len(Payload(handler, Body, MetaOK)))
          IN IsFrame(Frame(handler, Body, MetaOK), SizeText(size), handler, Body, MetaOK, size)
      BY <2>4, <2>5, <2>6, <2>7, FrameIs
    <3> QED  BY <3>1 DEF frame
  <2>9. declared = size  BY <2>8 DEF IsFrame, declared
  <2>10. /\ \A header \in Headers(frame) : DeserializeSize(header) = declared
         /\ Len(frame) \in {declared - 1, declared}
    BY <2>8, <2>9 DEF IsFrame
  <2>11. ASSUME NEW n \in ReadLengths(frame, declared)
         PROVE  /\ DeserializeHandler(SubSeq(frame, 1, n)) = handler
                /\ Deserialize(SubSeq(frame, 1, n)) = Result("OK", handler, Body)
    <3>1. n \in ReadLengths(frame, size)  BY <2>9
    <3> QED  BY <2>4, <2>5, <2>6, <2>7, <2>8, <3>1, FrameArrives
  <2> QED  BY <2>10, <2>11
<1>2. TextInv => PacketArrives  BY <1>1
<1> QED  BY <1>2, TextInvariance, PTL

\* serialize of no message, or of one without JSON: wherever read stops, the other side takes
\* it for a protocol error and never for a message or an exception.
THEOREM CorruptIsProtocolError == Spec => []CorruptIsError
<1>1. ASSUME TextInv  PROVE CorruptIsError
  <2> DEFINE H == {"h"}
  <2>1. handler \in Seq(H) /\ Len(handler) \in 1 .. MaxHandler  BY <1>1 DEF TextInv
  <2>2. Len(handler) > 0 /\ Len(handler) <= MaxHandler  BY <2>1, LengthsAssumption
  <2>3. \A n \in ReadLengths(CorruptFrame(handler), DeserializeSize(CorruptFrame(handler))) :
          Deserialize(SubSeq(CorruptFrame(handler), 1, n)).status = "ProtocolError"
    BY <2>1, <2>2, CorruptFails
  <2>4. \A n \in ReadLengths(NullFrame, DeserializeSize(NullFrame)) :
          Deserialize(SubSeq(NullFrame, 1, n)).status = "ProtocolError"
    BY NullFails
  <2> QED  BY <2>3, <2>4, Zenon DEF CorruptIsError
<1>2. TextInv => CorruptIsError  BY <1>1
<1> QED  BY <1>2, TextInvariance, PTL
=============================================================================

---------------------------- MODULE QueryProofs ----------------------------
(***************************************************************************)
(* Proofs of the safety properties of Query, for any finite set of searches *)
(* over any number of writers, whatever the sizes of the tables and the     *)
(* hashes are.                                                              *)
(*                                                                          *)
(* The invariant QueryInv says of each loop what its iterator has behind it *)
(* and that this is what was counted or listed, and of each document that   *)
(* its rank is the sum of the parts the tasks have added so far.            *)
(*                                                                          *)
(* What the model takes from the community modules is a least element, a    *)
(* sum, or a flattened sequence.  The lemmas about them are proved from     *)
(* least elements and least sets: the first sections.                       *)
(***************************************************************************)
EXTENDS Query, FiniteSetTheorems, WellFoundedInduction, TLAPS

\* Every set of naturals has a least element.
LEMMA LeastNatural ==
  ASSUME NEW S, S \subseteq Nat, S # {}
  PROVE  \E x \in S : \A y \in S : x <= y
<1> DEFINE R == {ss \in Nat \X Nat : ss[1] < ss[2]}
<1>1. OpToRel(<, Nat) = R  BY DEF OpToRel
<1>2. IsWellFoundedOn(R, Nat)  BY <1>1, NatLessThanWellFounded
<1> HIDE DEF R
<1>3. PICK x \in S : \A y \in S : ~ (<<y, x>> \in R)  BY <1>2, WFMin
<1>4. ASSUME NEW y \in S  PROVE x <= y
  <2>1. <<y, x>> \in Nat \X Nat /\ x \in Nat /\ y \in Nat  OBVIOUS
  <2>2. ~ (y < x)  BY <1>3, <2>1 DEF R
  <2> QED  BY <2>1, <2>2
<1> QED  BY <1>4

\* What Min chooses is least.
LEMMA MinIsLeast ==
  ASSUME NEW S, S \subseteq Nat, S # {}
  PROVE  Min(S) \in S /\ \A y \in S : Min(S) <= y
<1>1. PICK x \in S : \A y \in S : x <= y  BY LeastNatural
<1>2. \E m \in S : \A y \in S : m <= y  BY <1>1
<1> QED  BY <1>2, Zenon DEF Min

-----------------------------------------------------------------------------
(* Sequences                                                                *)

\* SetToSeq lists a finite set, each element once.
LEMMA Lists ==
  ASSUME NEW S, IsFiniteSet(S)
  PROVE  /\ SetToSeq(S) \in Seq(S)
         /\ IsInjective(SetToSeq(S))
         /\ Range(SetToSeq(S)) = S
<1> DEFINE n == Cardinality(S)
<1>1. n \in Nat  BY FS_CardinalityType
<1>2. ExistsBijection(1 .. n, S)  BY FS_CardinalityType
<1>3. PICK g \in Bijection(1 .. n, S) : TRUE  BY <1>2 DEF ExistsBijection
<1>4. g \in [1 .. n -> S] /\ IsInjective(g)
  BY <1>3 DEF Bijection, Injection, Surjection, IsInjective
<1> DEFINE f == SetToSeq(S)
<1>5. f \in [1 .. n -> S] /\ IsInjective(f)
  <2>1. \E h \in [1 .. Cardinality(S) -> S] : IsInjective(h)  BY <1>4
  <2> QED  BY <2>1, Zenon DEF SetToSeq
<1>6. f \in Seq(S)  BY <1>1, <1>5
<1>7. Range(f) = S
  <2>1. Range(f) \subseteq S  BY <1>5 DEF Range
  <2>2. f \in Bijection(1 .. n, Range(f))
    BY <1>5 DEF Bijection, Injection, Surjection, IsInjective, Range
  <2>3. ExistsBijection(1 .. n, Range(f))  BY <2>2 DEF ExistsBijection
  <2>4. IsFiniteSet(Range(f)) /\ Cardinality(Range(f)) = n
    <3>1. IsFiniteSet(1 .. n) /\ Cardinality(1 .. n) = n  BY <1>1, FS_Interval
    <3> QED  BY <3>1, <2>3, FS_Bijection
  <2> QED  BY <2>1, <2>4, FS_Subset
<1> QED  BY <1>5, <1>6, <1>7

\* Sequences put one after the other: each one is there whole, and nothing else.
LEMMA Flattened ==
  ASSUME NEW S, NEW n \in Nat \ {0}, NEW seqs \in [1 .. n -> Seq(S)]
  PROVE  LET flat == FlattenSeq(seqs) IN
         /\ flat \in Seq(S)
         /\ Range(flat) = UNION {Range(seqs[k]) : k \in 1 .. n}
         /\ (/\ \A k \in 1 .. n : IsInjective(seqs[k])
             /\ \A k, m \in 1 .. n : k # m => Range(seqs[k]) \cap Range(seqs[m]) = {})
            => IsInjective(flat)
<1> DEFINE Step(f) == [i \in 1 .. n |-> IF i = 1 THEN seqs[i] ELSE f[i - 1] \o seqs[i]]
           Flat(m, f) ==
             /\ f \in [1 .. m -> Seq(S)]
             /\ \A i \in 1 .. m : f[i] = IF i = 1 THEN seqs[i] ELSE f[i - 1] \o seqs[i]
           flatten == CHOOSE f : f = Step(f)
<1>1. seqs \in Seq(Seq(S)) /\ Len(seqs) = n /\ n # 0 /\ n \in 1 .. n  OBVIOUS
<1>2. \A m \in 1 .. n : \E f : Flat(m, f)
  <2> DEFINE Wrong == {m \in 1 .. n : ~ \E f : Flat(m, f)}
  <2> SUFFICES ASSUME Wrong # {}  PROVE FALSE  OBVIOUS
  <2>1. PICK m \in Wrong : \A k \in Wrong : m <= k
    <3>1. Wrong \subseteq Nat  OBVIOUS
    <3> QED  BY <3>1, LeastNatural
  <2>2. m # 1
    <3>1. Flat(1, [i \in 1 .. 1 |-> seqs[1]])  OBVIOUS
    <3> QED  BY <2>1, <3>1
  <2>3. m - 1 \in 1 .. n /\ m \in 1 .. n /\ ~(m <= m - 1)  BY <2>1, <2>2
  <2>4. PICK f : Flat(m - 1, f)  BY <2>1, <2>3
  <2> DEFINE g == [i \in 1 .. m |-> IF i = m THEN f[m - 1] \o seqs[m] ELSE f[i]]
  <2>5. f[m - 1] \in Seq(S) /\ seqs[m] \in Seq(S)  BY <2>3, <2>4
  <2>6. f[m - 1] \o seqs[m] \in Seq(S)  BY <2>5
  <2>7. g \in [1 .. m -> Seq(S)]  BY <2>3, <2>4, <2>6
  <2>8. ASSUME NEW i \in 1 .. m
        PROVE  g[i] = IF i = 1 THEN seqs[i] ELSE g[i - 1] \o seqs[i]
    <3>1. CASE i = m
      <4>1. m - 1 \in 1 .. m /\ m - 1 # m /\ m \in 1 .. m  BY <2>3
      <4>2. g[m] = f[m - 1] \o seqs[m] /\ g[m - 1] = f[m - 1]  BY <4>1
      <4> QED  BY <2>2, <3>1, <4>2
    <3>2. CASE i # m
      <4>1. i \in 1 .. m - 1 /\ (i = 1 \/ i - 1 \in 1 .. m - 1) /\ i - 1 # m  BY <2>3, <3>2
      <4>2. g[i] = f[i] /\ (i = 1 \/ g[i - 1] = f[i - 1])  BY <4>1, <2>3, <3>2
      <4>3. f[i] = IF i = 1 THEN seqs[i] ELSE f[i - 1] \o seqs[i]  BY <2>4, <4>1
      <4> QED  BY <4>2, <4>3
    <3> QED  BY <3>1, <3>2
  <2>9. Flat(m, g)  BY <2>7, <2>8
  <2> QED  BY <2>1, <2>9
<1>3. PICK f : Flat(n, f)
  <2> HIDE DEF Flat
  <2> QED  BY <1>1, <1>2
<1>4. f = Step(f)  BY <1>3
<1>5. flatten = Step(flatten)  BY <1>4
<1>6. FlattenSeq(seqs) = flatten[n]  BY <1>1, Zenon DEF FlattenSeq
<1> HIDE DEF flatten
<1>7. \A i \in 1 .. n : flatten[i] = IF i = 1 THEN seqs[i] ELSE flatten[i - 1] \o seqs[i]
  BY <1>5
<1> DEFINE Right(m) ==
             /\ flatten[m] \in Seq(S)
             /\ Range(flatten[m]) = UNION {Range(seqs[k]) : k \in 1 .. m}
             /\ (/\ \A k \in 1 .. n : IsInjective(seqs[k])
                 /\ \A k, j \in 1 .. n : k # j => Range(seqs[k]) \cap Range(seqs[j]) = {})
                => IsInjective(flatten[m])
<1>8. \A m \in 1 .. n : Right(m)
  <2> DEFINE Wrong == {m \in 1 .. n : ~ Right(m)}
  <2> SUFFICES ASSUME Wrong # {}  PROVE FALSE  OBVIOUS
  <2>1. PICK m \in Wrong : \A k \in Wrong : m <= k
    <3>1. Wrong \subseteq Nat  OBVIOUS
    <3> HIDE DEF Wrong
    <3> QED  BY <3>1, LeastNatural
  <2>2. CASE m = 1
    <3>1. flatten[1] = seqs[1] /\ 1 .. 1 = {1}  BY <1>7
    <3>2. Right(1)  BY <3>1
    <3> QED  BY <2>1, <2>2, <3>2
  <2>3. CASE m # 1
    <3>1. m - 1 \in 1 .. n /\ m \in 1 .. n /\ ~(m <= m - 1)  BY <2>1, <2>3
    <3>2. Right(m - 1)  BY <2>1, <3>1
    <3> DEFINE a == flatten[m - 1]
               b == seqs[m]
    <3>3. flatten[m] = a \o b  BY <1>7, <2>3, <3>1
    <3>4. a \in Seq(S) /\ b \in Seq(S)  BY <3>1, <3>2
    <3> HIDE DEF a, b
    <3>5. /\ a \o b \in Seq(S) /\ Len(a \o b) = Len(a) + Len(b)
          /\ \A i \in 1 .. Len(a) + Len(b) :
               (a \o b)[i] = IF i <= Len(a) THEN a[i] ELSE b[i - Len(a)]
      BY <3>4
    <3>6. DOMAIN a = 1 .. Len(a) /\ DOMAIN b = 1 .. Len(b) /\ DOMAIN (a \o b) = 1 .. Len(a) + Len(b)
          /\ Len(a) \in Nat /\ Len(b) \in Nat
      BY <3>4, <3>5
    <3>7. Range(a \o b) = Range(a) \union Range(b)
      <4>1. \A i \in 1 .. Len(a) : i \in 1 .. Len(a) + Len(b) /\ (a \o b)[i] = a[i]
        BY <3>5, <3>6
      <4>2. \A i \in 1 .. Len(b) :
              i + Len(a) \in 1 .. Len(a) + Len(b) /\ (a \o b)[i + Len(a)] = b[i]
        BY <3>5, <3>6
      <4>3. \A i \in 1 .. Len(a) + Len(b) :
              (i \in 1 .. Len(a) /\ (a \o b)[i] = a[i])
              \/ (i - Len(a) \in 1 .. Len(b) /\ (a \o b)[i] = b[i - Len(a)])
        BY <3>5, <3>6
      <4> DEFINE ab == a \o b
      <4>4. DOMAIN ab = 1 .. Len(a) + Len(b)  BY <3>6
      <4> HIDE DEF ab
      <4>5. ASSUME NEW e \in Range(ab)  PROVE e \in Range(a) \union Range(b)
        <5>1. PICK i \in 1 .. Len(a) + Len(b) : ab[i] = e  BY <4>4 DEF Range
        <5> QED  BY <3>6, <4>3, <5>1 DEF Range, ab
      <4>6. ASSUME NEW e \in Range(a)  PROVE e \in Range(ab)
        <5>1. PICK i \in 1 .. Len(a) : a[i] = e  BY <3>6 DEF Range
        <5> QED  BY <4>1, <4>4, <5>1 DEF Range, ab
      <4>7. ASSUME NEW e \in Range(b)  PROVE e \in Range(ab)
        <5>1. PICK i \in 1 .. Len(b) : b[i] = e  BY <3>6 DEF Range
        <5> QED  BY <4>2, <4>4, <5>1 DEF Range, ab
      <4> QED  BY <4>5, <4>6, <4>7 DEF ab
    <3>8. Range(flatten[m]) = UNION {Range(seqs[k]) : k \in 1 .. m}
      <4>1. Range(a) = UNION {Range(seqs[k]) : k \in 1 .. m - 1}  BY <3>2 DEF a
      <4>2. 1 .. m = (1 .. m - 1) \union {m}  BY <3>1
      <4> QED  BY <3>3, <3>7, <4>1, <4>2 DEF b
    <3>9. ASSUME \A k \in 1 .. n : IsInjective(seqs[k]),
                 \A k, j \in 1 .. n : k # j => Range(seqs[k]) \cap Range(seqs[j]) = {}
          PROVE  IsInjective(flatten[m])
      <4>1. IsInjective(a)  BY <3>2, <3>9 DEF a
      <4>2. IsInjective(b)  BY <3>1, <3>9 DEF b
      <4>3. Range(a) \cap Range(b) = {}
        <5>1. Range(a) = UNION {Range(seqs[k]) : k \in 1 .. m - 1}  BY <3>2 DEF a
        <5>2. \A k \in 1 .. m - 1 : k \in 1 .. n /\ k # m  BY <3>1
        <5>3. \A k \in 1 .. m - 1 : Range(seqs[k]) \cap Range(b) = {}  BY <3>1, <3>9, <5>2 DEF b
        <5> QED  BY <5>1, <5>3
      <4>4. \A i \in 1 .. Len(a), j \in 1 .. Len(b) : a[i] # b[j]  BY <3>6, <4>3 DEF Range
      <4>5. \A i, j \in 1 .. Len(a) + Len(b) : (a \o b)[i] = (a \o b)[j] => i = j
        <5> SUFFICES ASSUME NEW i \in 1 .. Len(a) + Len(b), NEW j \in 1 .. Len(a) + Len(b),
                            (a \o b)[i] = (a \o b)[j]
                     PROVE  i = j
          OBVIOUS
        <5>1. CASE i <= Len(a) /\ j <= Len(a)
          <6>1. i \in 1 .. Len(a) /\ j \in 1 .. Len(a) /\ a[i] = a[j]  BY <3>5, <3>6, <5>1
          <6> QED  BY <3>6, <4>1, <6>1 DEF IsInjective
        <5>2. CASE i <= Len(a) /\ ~(j <= Len(a))
          <6>1. i \in 1 .. Len(a) /\ j - Len(a) \in 1 .. Len(b) /\ a[i] = b[j - Len(a)]
            BY <3>5, <3>6, <5>2
          <6> QED  BY <4>4, <6>1
        <5>3. CASE ~(i <= Len(a)) /\ j <= Len(a)
          <6>1. j \in 1 .. Len(a) /\ i - Len(a) \in 1 .. Len(b) /\ a[j] = b[i - Len(a)]
            BY <3>5, <3>6, <5>3
          <6> QED  BY <4>4, <6>1
        <5>4. CASE ~(i <= Len(a)) /\ ~(j <= Len(a))
          <6>1. j - Len(a) \in 1 .. Len(b) /\ i - Len(a) \in 1 .. Len(b)
                /\ b[j - Len(a)] = b[i - Len(a)]
            BY <3>5, <3>6, <5>4
          <6>2. j - Len(a) = i - Len(a)  BY <3>6, <4>2, <6>1 DEF IsInjective
          <6> QED  BY <3>6, <6>2
        <5> QED  BY <5>1, <5>2, <5>3, <5>4
      <4> QED  BY <3>3, <3>6, <4>5 DEF IsInjective
    <3>10. Right(m)
      <4>1. flatten[m] \in Seq(S)  BY <3>3, <3>5
      <4> QED  BY <4>1, <3>8, <3>9
    <3> QED  BY <2>1, <3>10
  <2> QED  BY <2>2, <2>3
<1>9. Right(n)
  <2> HIDE DEF Right
  <2> QED  BY <1>1, <1>8
<1> QED  BY <1>6, <1>9

-----------------------------------------------------------------------------
(* Sums                                                                     *)

\* F has the sum of g over every set of elements of U.
Sums(F, g, U) ==
    /\ F \in [SUBSET U -> Nat]
    /\ F[{}] = 0
    /\ \A s \in SUBSET U : \A x \in s : F[s] = g[x] + F[s \ {x}]

\* The least among the sets of a collection.
LEMMA LeastSet ==
  ASSUME NEW U, IsFiniteSet(U), NEW C, C \subseteq SUBSET U, C # {}
  PROVE  \E s \in C : \A r \in SUBSET U : Cardinality(r) < Cardinality(s) => r \notin C
<1> DEFINE Cards == {Cardinality(s) : s \in C}
<1>1. \A s \in SUBSET U : IsFiniteSet(s) /\ Cardinality(s) \in Nat  BY FS_Subset, FS_CardinalityType
<1>2. Cards \subseteq Nat /\ Cards # {}  BY <1>1
<1>3. PICK n \in Cards : \A m \in Cards : n <= m
  <2> HIDE DEF Cards
  <2> QED  BY <1>2, LeastNatural
<1>4. PICK s \in C : n = Cardinality(s)  BY <1>3
<1>5. ASSUME NEW r \in SUBSET U, Cardinality(r) < Cardinality(s), r \in C  PROVE FALSE
  <2>1. Cardinality(s) <= Cardinality(r)  BY <1>3, <1>4, <1>5
  <2>2. Cardinality(s) \in Nat /\ Cardinality(r) \in Nat  BY <1>1
  <2> QED  BY <1>5, <2>1, <2>2
<1> QED  BY <1>4, <1>5

\* A set without one of its elements is smaller.
LEMMA OneLess ==
  ASSUME NEW U, IsFiniteSet(U), NEW s \in SUBSET U, NEW x \in s
  PROVE  /\ s \ {x} \in SUBSET U
         /\ Cardinality(s) \in Nat
         /\ Cardinality(s \ {x}) = Cardinality(s) - 1
         /\ Cardinality(s \ {x}) < Cardinality(s)
<1>1. IsFiniteSet(s)  BY FS_Subset
<1>2. Cardinality(s) \in Nat  BY <1>1, FS_CardinalityType
<1>3. Cardinality(s \ {x}) = Cardinality(s) - 1  BY <1>1, FS_RemoveElement
<1> QED  BY <1>2, <1>3

\* What the fold makes of a function: f, which adds the element it picks to the rest.
Picked(s) == CHOOSE x \in s : TRUE
Folded(f, g, U) ==
    f = [s \in SUBSET U |-> IF s = {} THEN 0 ELSE g[Picked(s)] + f[s \ {Picked(s)}]]

LEMMA PickedIn == ASSUME NEW s, s # {} PROVE Picked(s) \in s
BY DEF Picked

\* There is a function that adds up g over every subset of U: one is right on the sets of up to
\* k elements for every k, and the one for the largest k is right on all.
LEMMA FoldExists ==
  ASSUME NEW U, IsFiniteSet(U), NEW g, \A u \in U : g[u] \in Nat
  PROVE  \E f : Folded(f, g, U)
<1> DEFINE Body(f) == [s \in SUBSET U |-> IF s = {} THEN 0 ELSE g[Picked(s)] + f[s \ {Picked(s)}]]
           Upto(f, k) == \A s \in SUBSET U : Cardinality(s) <= k => f[s] = Body(f)[s]
           Wrong == {k \in Nat : ~ \E f : Upto(f, k)}
<1>1. \A s \in SUBSET U : IsFiniteSet(s) /\ Cardinality(s) \in Nat  BY FS_Subset, FS_CardinalityType
<1>2. \E f : Upto(f, 0)
  <2> DEFINE zero == [s \in SUBSET U |-> 0]
  <2>1. ASSUME NEW s \in SUBSET U, Cardinality(s) <= 0  PROVE zero[s] = Body(zero)[s]
    <3>1. s = {}  BY <1>1, <2>1, FS_EmptySet
    <3> QED  BY <3>1
  <2> QED  BY <2>1
<1>3. Wrong = {}
  <2> SUFFICES ASSUME Wrong # {}  PROVE FALSE  OBVIOUS
  <2>1. PICK k \in Wrong : \A j \in Wrong : k <= j
    <3>1. Wrong \subseteq Nat  OBVIOUS
    <3> HIDE DEF Wrong
    <3> QED  BY <3>1, LeastNatural
  <2>2. k \in Nat /\ k # 0
    <3>1. k \in Nat /\ ~ \E f : Upto(f, k)  BY <2>1
    <3> HIDE DEF Upto
    <3> QED  BY <1>2, <3>1
  <2>3. k - 1 \in Nat /\ ~(k <= k - 1)  BY <2>2
  <2>4. PICK f : Upto(f, k - 1)  BY <2>1, <2>3
  <2> DEFINE h == Body(f)
  <2>5. ASSUME NEW s \in SUBSET U, Cardinality(s) <= k  PROVE h[s] = Body(h)[s]
    <3>1. CASE s = {}  BY <3>1
    <3>2. CASE s # {}
      <4> DEFINE x == Picked(s)
      <4>1. x \in s  BY <3>2, PickedIn
      <4> HIDE DEF x
      <4>2. s \ {x} \in SUBSET U /\ Cardinality(s \ {x}) <= k - 1
        <5>1. /\ s \ {x} \in SUBSET U /\ Cardinality(s) \in Nat
              /\ Cardinality(s \ {x}) = Cardinality(s) - 1
          BY <4>1, OneLess
        <5> HIDE DEF Wrong, h
        <5> QED  BY <5>1, <2>2, <2>5
      <4>3. f[s \ {x}] = h[s \ {x}]  BY <2>4, <4>2
      <4>4. h[s] = g[x] + f[s \ {x}]  BY <3>2 DEF x
      <4>5. Body(h)[s] = g[x] + h[s \ {x}]
        <5> HIDE DEF h
        <5> QED  BY <3>2 DEF x
      <4> QED  BY <4>3, <4>4, <4>5
    <3> QED  BY <3>1, <3>2
  <2>6. Upto(h, k)
    <3> HIDE DEF h
    <3> QED  BY <2>5
  <2> QED  BY <2>1, <2>6
<1>4. Cardinality(U) \in Nat  BY <1>1
<1>5. PICK f : Upto(f, Cardinality(U))
  <2>1. Cardinality(U) \notin Wrong  BY <1>3
  <2> QED  BY <1>4, <2>1
<1> DEFINE h == Body(f)
<1>6. \A s \in SUBSET U : f[s] = h[s]
  <2>1. \A s \in SUBSET U : Cardinality(s) <= Cardinality(U)  BY FS_Subset
  <2> QED  BY <1>5, <2>1
<1>7. h = Body(h)
  <2>1. ASSUME NEW s \in SUBSET U  PROVE h[s] = Body(h)[s]
    <3>1. CASE s = {}  BY <3>1
    <3>2. CASE s # {}
      <4>1. Picked(s) \in s  BY <3>2, PickedIn
      <4>2. s \ {Picked(s)} \in SUBSET U  OBVIOUS
      <4>3. f[s \ {Picked(s)}] = h[s \ {Picked(s)}]  BY <1>6, <4>2
      <4>4. h[s] = g[Picked(s)] + f[s \ {Picked(s)}]  BY <3>2
      <4>5. Body(h)[s] = g[Picked(s)] + h[s \ {Picked(s)}]
        <5> HIDE DEF h
        <5> QED  BY <3>2
      <4> QED  BY <4>3, <4>4, <4>5
    <3> QED  BY <3>1, <3>2
  <2> QED  BY <2>1
<1> HIDE DEF h
<1> QED  BY <1>7 DEF Folded

\* Two folds agree where their functions do.
LEMMA FoldsAgree ==
  ASSUME NEW U, IsFiniteSet(U), NEW V, NEW f, NEW g, NEW a, NEW b,
         Folded(a, f, U), Folded(b, g, V),
         NEW W, W \subseteq U \cap V, \A u \in W : f[u] = g[u] /\ f[u] \in Nat
  PROVE  a[W] = b[W] /\ a[W] \in Nat
<1> DEFINE Wrong == {s \in SUBSET W : ~(a[s] = b[s] /\ a[s] \in Nat)}
<1> SUFFICES ASSUME Wrong # {}  PROVE FALSE  OBVIOUS
<1>0. IsFiniteSet(W)
  <2>1. W \in SUBSET U  OBVIOUS
  <2> QED  BY <2>1, FS_Subset
<1>1. PICK s \in Wrong : \A r \in SUBSET W : Cardinality(r) < Cardinality(s) => r \notin Wrong
  <2>1. Wrong \subseteq SUBSET W  OBVIOUS
  <2> HIDE DEF Wrong
  <2> QED  BY <1>0, <2>1, LeastSet
<1>2. s \in SUBSET W /\ s \in SUBSET U /\ s \in SUBSET V  BY <1>1
<1>3. s # {}
  <2>1. a[{}] = 0 /\ b[{}] = 0 /\ 0 \in Nat  BY DEF Folded
  <2>2. ~(a[s] = b[s] /\ a[s] \in Nat)  BY <1>1
  <2> HIDE DEF Wrong
  <2> QED  BY <2>1, <2>2
<1> DEFINE x == Picked(s)
<1>4. x \in s  BY <1>3, PickedIn
<1>5. a[s] = f[x] + a[s \ {x}] /\ b[s] = g[x] + b[s \ {x}]  BY <1>2, <1>3 DEF Folded
<1> HIDE DEF x
<1>6. s \ {x} \in SUBSET W /\ Cardinality(s \ {x}) < Cardinality(s)  BY <1>0, <1>2, <1>4, OneLess
<1>7. a[s \ {x}] = b[s \ {x}] /\ a[s \ {x}] \in Nat  BY <1>1, <1>6
<1>8. f[x] = g[x] /\ f[x] \in Nat  BY <1>2, <1>4
<1> QED  BY <1>1, <1>5, <1>7, <1>8

\* SumFunctionOnSet is what such a function has.
LEMMA SumIsFold ==
  ASSUME NEW g, NEW s, IsFiniteSet(s), \A u \in s : g[u] \in Nat
  PROVE  \E f : Folded(f, g, s) /\ SumFunctionOnSet(g, s) = f[s]
<1> DEFINE f == CHOOSE h : Folded(h, g, s)
<1>1. Folded(f, g, s)  BY FoldExists
<1>2. SumFunctionOnSet(g, s) = f[s]
  BY DEF SumFunctionOnSet, FoldFunctionOnSet, MapThenFoldSet, Folded, Picked
<1> QED  BY <1>1, <1>2

\* It has the sums over all subsets, in whatever order they were added up.
LEMMA SumsExist ==
  ASSUME NEW U, IsFiniteSet(U), NEW g, \A u \in U : g[u] \in Nat
  PROVE  \E F : Sums(F, g, U) /\ \A s \in SUBSET U : SumFunctionOnSet(g, s) = F[s]
<1>1. PICK f : Folded(f, g, U)  BY FoldExists
<1>2. \A s \in SUBSET U : f[s] \in Nat  BY <1>1, FoldsAgree
<1>3. f \in [SUBSET U -> Nat] /\ f[{}] = 0
  <2>1. f = [s \in SUBSET U |-> f[s]]  BY <1>1 DEF Folded
  <2>2. f[{}] = 0  BY <1>1 DEF Folded
  <2> QED  BY <1>2, <2>1, <2>2
<1>4. \A s \in SUBSET U : \A x \in s : f[s] = g[x] + f[s \ {x}]
  <2> DEFINE Wrong == {s \in SUBSET U : ~ \A x \in s : f[s] = g[x] + f[s \ {x}]}
  <2> SUFFICES ASSUME Wrong # {}  PROVE FALSE  OBVIOUS
  <2>1. PICK s \in Wrong : \A r \in SUBSET U : Cardinality(r) < Cardinality(s) => r \notin Wrong
    <3>1. Wrong \subseteq SUBSET U  OBVIOUS
    <3> HIDE DEF Wrong
    <3> QED  BY <3>1, LeastSet
  <2>2. s \in SUBSET U  BY <2>1
  <2>3. PICK x \in s : f[s] # g[x] + f[s \ {x}]  BY <2>1
  <2> DEFINE p == Picked(s)
  <2>4. s # {}  BY <2>3
  <2>5. p \in s  BY <2>4, PickedIn
  <2>6. f[s] = g[p] + f[s \ {p}]  BY <1>1, <2>2, <2>4 DEF Folded
  <2> HIDE DEF p
  <2>7. x # p  BY <2>3, <2>6
  <2>8. s \ {x} \in SUBSET U /\ Cardinality(s \ {x}) < Cardinality(s)
        /\ s \ {p} \in SUBSET U /\ Cardinality(s \ {p}) < Cardinality(s)
    BY <2>2, <2>3, <2>5, OneLess
  <2>9. s \ {x} \notin Wrong /\ s \ {p} \notin Wrong  BY <2>1, <2>8
  <2>10. f[s \ {p}] = g[x] + f[(s \ {p}) \ {x}]  BY <2>3, <2>7, <2>8, <2>9
  <2>11. f[s \ {x}] = g[p] + f[(s \ {x}) \ {p}]  BY <2>5, <2>7, <2>8, <2>9
  <2>12. (s \ {p}) \ {x} = (s \ {x}) \ {p} /\ (s \ {p}) \ {x} \in SUBSET U  BY <2>2
  <2>13. g[x] \in Nat /\ g[p] \in Nat /\ f[(s \ {p}) \ {x}] \in Nat
    BY <1>2, <2>2, <2>3, <2>5, <2>12
  <2> DEFINE rest == f[(s \ {p}) \ {x}]
  <2>14. f[s \ {p}] = g[x] + rest /\ f[s \ {x}] = g[p] + rest /\ rest \in Nat
    BY <2>10, <2>11, <2>12, <2>13
  <2> HIDE DEF Wrong, rest
  <2>15. f[s] = g[x] + f[s \ {x}]  BY <2>6, <2>13, <2>14
  <2> QED  BY <2>3, <2>15
<1>5. ASSUME NEW s \in SUBSET U  PROVE SumFunctionOnSet(g, s) = f[s]
  <2>1. IsFiniteSet(s) /\ \A u \in s : g[u] \in Nat  BY FS_Subset
  <2>2. PICK h : Folded(h, g, s) /\ SumFunctionOnSet(g, s) = h[s]  BY <2>1, SumIsFold
  <2>3. h[s] = f[s]  BY <1>1, <2>1, <2>2, FoldsAgree
  <2> QED  BY <2>2, <2>3
<1> QED  BY <1>3, <1>4, <1>5 DEF Sums

\* A sum is a number, at least as large as each of its parts, and not 0 unless all are.
LEMMA SumBounds ==
  ASSUME NEW U, IsFiniteSet(U), NEW g \in [U -> Nat]
  PROVE  /\ SumFunction(g) \in Nat
         /\ \A x \in U : g[x] <= SumFunction(g)
         /\ SumFunction(g) > 0 => \E x \in U : g[x] > 0
<1>1. PICK F : Sums(F, g, U) /\ \A s \in SUBSET U : SumFunctionOnSet(g, s) = F[s]
  BY SumsExist
<1>2. SumFunction(g) = F[U]
  <2>1. SumFunction(g) = SumFunctionOnSet(g, U)  BY DEF SumFunction
  <2> QED  BY <1>1, <2>1
<1>3. F[U] \in Nat  BY <1>1 DEF Sums
<1>4. ASSUME NEW x \in U  PROVE g[x] <= F[U]
  <2>1. F[U] = g[x] + F[U \ {x}]  BY <1>1 DEF Sums
  <2>2. F[U \ {x}] \in Nat /\ g[x] \in Nat  BY <1>1 DEF Sums
  <2> QED  BY <1>3, <2>1, <2>2
<1>5. ASSUME \A x \in U : ~(g[x] > 0)  PROVE F[U] = 0
  <2> DEFINE Wrong == {s \in SUBSET U : F[s] # 0}
  <2> SUFFICES ASSUME Wrong # {}  PROVE FALSE  OBVIOUS
  <2>1. PICK s \in Wrong : \A r \in SUBSET U : Cardinality(r) < Cardinality(s) => r \notin Wrong
    <3>1. Wrong \subseteq SUBSET U  OBVIOUS
    <3> HIDE DEF Wrong
    <3> QED  BY <3>1, LeastSet
  <2>2. s \in SUBSET U /\ F[s] # 0  BY <2>1
  <2>3. s # {}  BY <1>1, <2>2 DEF Sums
  <2>4. PICK x \in s : TRUE  BY <2>3
  <2>5. s \ {x} \in SUBSET U /\ Cardinality(s \ {x}) < Cardinality(s)  BY <2>2, OneLess
  <2>6. F[s \ {x}] = 0  BY <2>1, <2>5
  <2>7. F[s] = g[x] + F[s \ {x}]  BY <1>1, <2>2 DEF Sums
  <2>8. g[x] \in Nat /\ ~(g[x] > 0)  BY <1>5, <2>2
  <2> HIDE DEF Wrong
  <2> QED  BY <2>2, <2>6, <2>7, <2>8
<1> QED  BY <1>2, <1>3, <1>4, <1>5

\* One part is another number: the sum differs as the part does.
LEMMA SumChanges ==
  ASSUME NEW U, IsFiniteSet(U), NEW g \in [U -> Nat], NEW h \in [U -> Nat],
         NEW x \in U, \A y \in U \ {x} : g[y] = h[y]
  PROVE  SumFunction(h) = SumFunction(g) - g[x] + h[x]
<1>1. PICK F : Sums(F, g, U) /\ \A s \in SUBSET U : SumFunctionOnSet(g, s) = F[s]
  BY SumsExist
<1>2. PICK H : Sums(H, h, U) /\ \A s \in SUBSET U : SumFunctionOnSet(h, s) = H[s]
  BY SumsExist
<1>3. SumFunction(g) = F[U] /\ SumFunction(h) = H[U]
  <2>1. SumFunction(g) = SumFunctionOnSet(g, U) /\ SumFunction(h) = SumFunctionOnSet(h, U)
    BY DEF SumFunction
  <2> QED  BY <1>1, <1>2, <2>1
<1>4. F[U] = g[x] + F[U \ {x}] /\ H[U] = h[x] + H[U \ {x}]  BY <1>1, <1>2 DEF Sums
<1>5. F[U \ {x}] = H[U \ {x}]
  <2> DEFINE W == U \ {x}
  <2>1. IsFiniteSet(W) /\ (\A u \in W : g[u] \in Nat /\ h[u] \in Nat) /\ W \in SUBSET U
    BY FS_Subset
  <2>2. PICK a : Folded(a, g, W) /\ SumFunctionOnSet(g, W) = a[W]  BY <2>1, SumIsFold
  <2>3. PICK b : Folded(b, h, W) /\ SumFunctionOnSet(h, W) = b[W]  BY <2>1, SumIsFold
  <2>4. \A u \in W : g[u] = h[u]  OBVIOUS
  <2> HIDE DEF W
  <2>5. a[W] = b[W]  BY <2>1, <2>2, <2>3, <2>4, FoldsAgree
  <2>6. F[W] = H[W]  BY <1>1, <1>2, <2>1, <2>2, <2>3, <2>5
  <2> QED  BY <2>6 DEF W
<1>6. F[U \ {x}] \in Nat /\ g[x] \in Nat /\ h[x] \in Nat  BY <1>1 DEF Sums
<1> QED  BY <1>3, <1>4, <1>5, <1>6

-----------------------------------------------------------------------------
(* The iterator                                                             *)

\* The entries a loop has behind it when it is at place i of bucket b.
Passed(buffer, b, i) ==
    {e \in InBuckets(buffer) :
       \E c \in DOMAIN buffer : \E j \in DOMAIN buffer[c] :
         e = buffer[c][j] /\ (c < b \/ (c = b /\ j < i))}

\* An iterator at an entry is in the entry's bucket.
AtPlace(buffer, it) ==
    /\ it.bucketId \in DOMAIN buffer
    /\ it.crawl # End => \E i \in DOMAIN buffer[it.bucketId] : it.crawl = <<it.bucketId, i>>

\* What a loop has behind it.
Visited(buffer, it) ==
    IF it.crawl = End THEN InBuckets(buffer) ELSE Passed(buffer, it.crawl[1], it.crawl[2])

Buffers == [0 .. RecordSize - 1 -> Seq(Entries)]

\* No entry is in a record twice.
Unique(buffer) ==
    \A b, c \in DOMAIN buffer : \A i \in DOMAIN buffer[b], j \in DOMAIN buffer[c] :
      buffer[b][i] = buffer[c][j] => b = c /\ i = j

\* A record has RecordSize buckets.
LEMMA BufferSize ==
  ASSUME NEW buffer \in Buffers
  PROVE  /\ Size(buffer) = RecordSize /\ RecordSize \in Nat /\ RecordSize >= 1
         /\ DOMAIN buffer = 0 .. RecordSize - 1
         /\ 0 \in DOMAIN buffer
         /\ \A b \in DOMAIN buffer : buffer[b] \in Seq(Entries) /\ b \in Nat
<1>1. RecordSize \in Nat /\ RecordSize >= 1  BY SizesAssumption
<1>2. DOMAIN buffer = 0 .. RecordSize - 1  BY DEF Buffers
<1>3. Cardinality(0 .. RecordSize - 1) = RecordSize  BY <1>1, FS_Interval
<1> QED  BY <1>1, <1>2, <1>3 DEF Size, Buffers

\* What is in a record is at some place of one of its buckets.
LEMMA InBucketsIs ==
  ASSUME NEW buffer, NEW e
  PROVE  e \in InBuckets(buffer) <=>
           \E b \in DOMAIN buffer : \E i \in DOMAIN buffer[b] : e = buffer[b][i]
BY DEF InBuckets, Range

\* A place is the end when there is no such entry.
LEMMA PlaceIs ==
  ASSUME NEW buffer \in Buffers, NEW b \in DOMAIN buffer, NEW i \in Nat \ {0}
  PROVE  /\ Place(buffer, b, i) # End => i \in DOMAIN buffer[b] /\ Place(buffer, b, i) = <<b, i>>
         /\ Place(buffer, b, i) = End => Len(buffer[b]) < i
         /\ <<b, i>> # End /\ <<b, i>>[1] = b /\ <<b, i>>[2] = i
<1>1. buffer[b] \in Seq(Entries)  BY BufferSize
<1>2. DOMAIN buffer[b] = 1 .. Len(buffer[b]) /\ Len(buffer[b]) \in Nat  BY <1>1
<1>3. <<b, i>> # <<>>  OBVIOUS
<1> QED  BY <1>2, <1>3 DEF Place, End

\* From the end of a bucket the iterator goes to the next entry, over the empty buckets
\* between them, and it comes to an end only where no entry is left.
LEMMA AdvanceRight ==
  ASSUME NEW buffer \in Buffers, NEW it, it.bucketId \in DOMAIN buffer, it.crawl = End,
         NEW new, new = AdvanceTillValid(buffer, it)
  PROVE  /\ AtPlace(buffer, new)
         /\ Visited(buffer, new) =
              {e \in InBuckets(buffer) : \E c \in DOMAIN buffer : \E j \in DOMAIN buffer[c] :
                 e = buffer[c][j] /\ c <= it.bucketId}
<1> DEFINE b == it.bucketId
           last == Size(buffer) - 1
           Ahead == {c \in b + 1 .. last : c = last \/ buffer[c] # <<>>}
           next == Min(Ahead)
           Behind == {e \in InBuckets(buffer) : \E c \in DOMAIN buffer : \E j \in DOMAIN buffer[c] :
                        e = buffer[c][j] /\ c <= b}
<1>1. /\ Size(buffer) = RecordSize /\ RecordSize \in Nat /\ RecordSize >= 1
      /\ DOMAIN buffer = 0 .. RecordSize - 1
      /\ \A c \in DOMAIN buffer : buffer[c] \in Seq(Entries)
  BY BufferSize
<1>2. b \in 0 .. RecordSize - 1 /\ last = RecordSize - 1  BY <1>1
<1>3. CASE ~(b < last)
  <2>1. new = it  BY <1>3 DEF AdvanceTillValid
  <2>2. \A c \in DOMAIN buffer : c <= b  BY <1>1, <1>2, <1>3
  <2>3. Behind = InBuckets(buffer)
    <3>1. ASSUME NEW e \in InBuckets(buffer)  PROVE e \in Behind
      BY <2>2, InBucketsIs
    <3> QED  BY <3>1
  <2> QED  BY <2>1, <2>3 DEF AtPlace, Visited
<1>4. CASE b < last
  <2>1. new = [bucketId |-> next, crawl |-> Place(buffer, next, 1)]
    BY <1>4 DEF AdvanceTillValid
  <2>2. Ahead \subseteq Nat /\ last \in Ahead
    <3>1. b \in Nat /\ last \in Nat  BY <1>1, <1>2
    <3> HIDE DEF b, last
    <3> QED  BY <1>4, <3>1
  <2>3. next \in Ahead /\ \A c \in Ahead : next <= c
    <3> HIDE DEF Ahead
    <3> QED  BY <2>2, MinIsLeast
  <2>4. next \in DOMAIN buffer /\ next > b /\ next \in Nat  BY <1>1, <1>2, <2>3
  <2> HIDE DEF next
  <2>5. \A c \in DOMAIN buffer : c > b /\ c < next => buffer[c] = <<>>
    <3> SUFFICES ASSUME NEW c \in DOMAIN buffer, c > b, c < next, buffer[c] # <<>>  PROVE FALSE
      OBVIOUS
    <3>1. c \in Ahead  BY <1>1, <1>2
    <3>2. next <= c  BY <2>3, <3>1
    <3> QED  BY <1>1, <2>4, <3>2
  <2>6. new.bucketId = next /\ new.crawl = Place(buffer, next, 1)  BY <2>1
  <2>7. /\ Place(buffer, next, 1) # End =>
             1 \in DOMAIN buffer[next] /\ Place(buffer, next, 1) = <<next, 1>>
        /\ Place(buffer, next, 1) = End => Len(buffer[next]) < 1
    BY <2>4, PlaceIs
  <2>8. AtPlace(buffer, new)  BY <2>4, <2>6, <2>7 DEF AtPlace
  <2>9. CASE Place(buffer, next, 1) = End
    <3>1. buffer[next] = <<>>  BY <1>1, <2>4, <2>7, <2>9
    <3>2. next = last  BY <2>3, <3>1
    <3>3. \A c \in DOMAIN buffer : c > b => buffer[c] = <<>>
      BY <1>1, <1>2, <2>5, <3>1, <3>2
    <3>4. \A c \in DOMAIN buffer : \A j \in DOMAIN buffer[c] : c <= b
      <4> SUFFICES ASSUME NEW c \in DOMAIN buffer, NEW j \in DOMAIN buffer[c]  PROVE c <= b
        OBVIOUS
      <4>1. buffer[c] # <<>>  OBVIOUS
      <4> QED  BY <1>1, <1>2, <3>3, <4>1
    <3>5. Behind = InBuckets(buffer)
      <4>1. ASSUME NEW e \in InBuckets(buffer)  PROVE e \in Behind
        BY <3>4, InBucketsIs
      <4> QED  BY <4>1
    <3>6. Visited(buffer, new) = InBuckets(buffer)  BY <2>6, <2>9 DEF Visited
    <3> QED  BY <2>8, <3>5, <3>6
  <2>10. CASE Place(buffer, next, 1) # End
    <3>1. new.crawl = <<next, 1>> /\ new.crawl # End  BY <2>6, <2>7, <2>10
    <3>2. new.crawl[1] = next /\ new.crawl[2] = 1  BY <3>1
    <3>3. Visited(buffer, new) = Passed(buffer, next, 1)  BY <3>1, <3>2 DEF Visited
    <3>4. ASSUME NEW c \in DOMAIN buffer, NEW j \in DOMAIN buffer[c]
          PROVE  (c < next \/ (c = next /\ j < 1)) <=> c <= b
      <4>1. buffer[c] # <<>>  OBVIOUS
      <4>2. buffer[c] \in Seq(Entries) /\ j >= 1 /\ j \in Nat  BY <1>1
      <4>3. ~(j < 1)  BY <4>2
      <4> QED  BY <1>1, <1>2, <2>4, <2>5, <4>1, <4>3
    <3>5. Passed(buffer, next, 1) = Behind  BY <3>4 DEF Passed
    <3> QED  BY <2>8, <3>3, <3>5
  <2> QED  BY <2>9, <2>10
<1> QED  BY <1>3, <1>4

\* A loop that begins has nothing behind it.
LEMMA BeginRight ==
  ASSUME NEW buffer \in Buffers
  PROVE  AtPlace(buffer, Begin(buffer)) /\ Visited(buffer, Begin(buffer)) = {}
<1> DEFINE it == [bucketId |-> 0, crawl |-> Place(buffer, 0, 1)]
<1>1. 0 \in DOMAIN buffer /\ \A c \in DOMAIN buffer : c \in Nat /\ buffer[c] \in Seq(Entries)
  BY BufferSize
<1>2. Begin(buffer) = AdvanceTillValid(buffer, it)  BY DEF Begin
<1>3. CASE it.crawl = End
  <2>1. AtPlace(buffer, Begin(buffer))  BY <1>1, <1>2, <1>3, AdvanceRight
  <2>2. Visited(buffer, Begin(buffer)) =
          {e \in InBuckets(buffer) : \E c \in DOMAIN buffer : \E j \in DOMAIN buffer[c] :
             e = buffer[c][j] /\ c <= 0}
    <3>1. it.bucketId = 0  OBVIOUS
    <3> HIDE DEF it
    <3>2. Visited(buffer, Begin(buffer)) =
          {e \in InBuckets(buffer) : \E c \in DOMAIN buffer : \E j \in DOMAIN buffer[c] :
             e = buffer[c][j] /\ c <= it.bucketId}
      BY <1>1, <1>2, <1>3, <3>1, AdvanceRight
    <3> QED  BY <3>1, <3>2
  <2>3. Len(buffer[0]) < 1  BY <1>1, <1>3, PlaceIs
  <2>4. \A c \in DOMAIN buffer : \A j \in DOMAIN buffer[c] : ~(c <= 0)
    <3> SUFFICES ASSUME NEW c \in DOMAIN buffer, NEW j \in DOMAIN buffer[c], c <= 0  PROVE FALSE
      OBVIOUS
    <3>1. c = 0  BY <1>1
    <3>2. j \in 1 .. Len(buffer[0])  BY <1>1, <3>1
    <3> QED  BY <1>1, <2>3, <3>2
  <2> QED  BY <2>1, <2>2, <2>4
<1>4. CASE it.crawl # End
  <2>1. Begin(buffer) = it  BY <1>2, <1>4 DEF AdvanceTillValid
  <2>2. 1 \in DOMAIN buffer[0] /\ it.crawl = <<0, 1>>  BY <1>1, <1>4, PlaceIs
  <2>3. AtPlace(buffer, it)  BY <1>1, <2>2 DEF AtPlace
  <2>4. Visited(buffer, it) = Passed(buffer, 0, 1)
    <3>1. it.crawl[1] = 0 /\ it.crawl[2] = 1  BY <2>2
    <3> QED  BY <1>4, <3>1 DEF Visited
  <2>5. \A c \in DOMAIN buffer : \A j \in DOMAIN buffer[c] : ~(c < 0 \/ (c = 0 /\ j < 1))
    <3> SUFFICES ASSUME NEW c \in DOMAIN buffer, NEW j \in DOMAIN buffer[c]
                 PROVE  ~(c < 0 \/ (c = 0 /\ j < 1))
      OBVIOUS
    <3>1. c \in Nat /\ j \in Nat /\ j >= 1  BY <1>1
    <3> QED  BY <3>1
  <2>6. Passed(buffer, 0, 1) = {}  BY <2>5 DEF Passed
  <2> QED  BY <2>1, <2>3, <2>4, <2>6
<1> QED  BY <1>3, <1>4

\* A step of the loop puts the entry it was at, and no other, behind it.
LEMMA IncrementedRight ==
  ASSUME NEW buffer \in Buffers, Unique(buffer), NEW it, AtPlace(buffer, it), it.crawl # End,
         it = [bucketId |-> it.bucketId, crawl |-> it.crawl],
         NEW new, new = Incremented(buffer, it)
  PROVE  /\ Entry(buffer, it) \in InBuckets(buffer)
         /\ Entry(buffer, it) \notin Visited(buffer, it)
         /\ AtPlace(buffer, new)
         /\ Visited(buffer, new) = Visited(buffer, it) \union {Entry(buffer, it)}
<1> DEFINE b == it.bucketId
<1>1. PICK i \in DOMAIN buffer[b] : it.crawl = <<b, i>>  BY DEF AtPlace
<1>2. b \in DOMAIN buffer /\ b \in Nat
      /\ \A c \in DOMAIN buffer : c \in Nat /\ buffer[c] \in Seq(Entries)
  BY BufferSize DEF AtPlace
<1>3. i \in Nat /\ i >= 1 /\ i \in 1 .. Len(buffer[b]) /\ Len(buffer[b]) \in Nat  BY <1>2
<1>4. it.crawl[1] = b /\ it.crawl[2] = i  BY <1>1
<1>5. Entry(buffer, it) = buffer[b][i]  BY <1>4 DEF Entry
<1>6. Visited(buffer, it) = Passed(buffer, b, i)  BY <1>4 DEF Visited
<1>7. buffer[b][i] \in InBuckets(buffer)  BY <1>2, InBucketsIs
<1>8. buffer[b][i] \notin Passed(buffer, b, i)
  <2> SUFFICES ASSUME NEW c \in DOMAIN buffer, NEW j \in DOMAIN buffer[c],
                      buffer[b][i] = buffer[c][j], c < b \/ (c = b /\ j < i)
               PROVE  FALSE
    BY DEF Passed
  <2>1. c = b /\ j = i  BY <1>2 DEF Unique
  <2> QED  BY <1>2, <1>3, <2>1
<1> DEFINE moved == [it EXCEPT !.crawl = Place(buffer, b, i + 1)]
<1>9. new = AdvanceTillValid(buffer, moved)  BY <1>4 DEF Incremented
<1>10. moved.bucketId = b /\ moved.crawl = Place(buffer, b, i + 1)  OBVIOUS
<1>11. i + 1 \in Nat \ {0}  BY <1>3
<1>12. ASSUME NEW e \in InBuckets(buffer)
       PROVE  (e \in Passed(buffer, b, i) \/ e = buffer[b][i]) <=>
              \E c \in DOMAIN buffer : \E j \in DOMAIN buffer[c] :
                e = buffer[c][j] /\ (c < b \/ (c = b /\ j < i + 1))
  <2>1. ASSUME NEW c \in DOMAIN buffer, NEW j \in DOMAIN buffer[c], e = buffer[c][j],
               c < b \/ (c = b /\ j < i + 1)
        PROVE  e \in Passed(buffer, b, i) \/ e = buffer[b][i]
    <3>1. j \in Nat  BY <1>2
    <3>2. CASE c < b \/ (c = b /\ j < i)  BY <2>1, <3>2 DEF Passed
    <3>3. CASE ~(c < b \/ (c = b /\ j < i))
      <4>1. c = b /\ j = i  BY <1>2, <1>3, <2>1, <3>1, <3>3
      <4> QED  BY <2>1, <4>1
    <3> QED  BY <3>2, <3>3
  <2>2. ASSUME e \in Passed(buffer, b, i)
        PROVE  \E c \in DOMAIN buffer : \E j \in DOMAIN buffer[c] :
                e = buffer[c][j] /\ (c < b \/ (c = b /\ j < i + 1))
    <3>0. PICK c \in DOMAIN buffer : \E j \in DOMAIN buffer[c] :
            e = buffer[c][j] /\ (c < b \/ (c = b /\ j < i))
      BY <2>2 DEF Passed
    <3>1. PICK j \in DOMAIN buffer[c] : e = buffer[c][j] /\ (c < b \/ (c = b /\ j < i))
      BY <3>0
    <3>2. j \in Nat  BY <1>2
    <3> QED  BY <1>3, <3>1, <3>2
  <2>3. i < i + 1  BY <1>3
  <2> QED  BY <1>2, <2>1, <2>2, <2>3
<1>13. CASE moved.crawl = End
  <2>1. Len(buffer[b]) < i + 1  BY <1>2, <1>10, <1>11, <1>13, PlaceIs
  <2>2. AtPlace(buffer, new)
        /\ Visited(buffer, new) =
              {e \in InBuckets(buffer) : \E c \in DOMAIN buffer : \E j \in DOMAIN buffer[c] :
                 e = buffer[c][j] /\ c <= moved.bucketId}
    <3> HIDE DEF moved
    <3> QED  BY <1>2, <1>9, <1>10, <1>13, AdvanceRight
  <2>3. ASSUME NEW c \in DOMAIN buffer, NEW j \in DOMAIN buffer[c]
        PROVE  (c <= b) <=> (c < b \/ (c = b /\ j < i + 1))
    <3>1. (c = b) => (j <= Len(buffer[b]))  BY <1>2
    <3>2. j \in Nat /\ c \in Nat  BY <1>2
    <3> QED  BY <1>2, <1>3, <2>1, <3>1, <3>2
  <2>4. Visited(buffer, new) = Passed(buffer, b, i) \union {buffer[b][i]}
    <3>1. \A e \in InBuckets(buffer) :
            e \in Visited(buffer, new) <=> (e \in Passed(buffer, b, i) \/ e = buffer[b][i])
      <4> HIDE DEF moved
      <4> QED  BY <1>10, <1>12, <2>2, <2>3
    <3>2. Visited(buffer, new) \subseteq InBuckets(buffer)  BY <2>2
    <3>3. Passed(buffer, b, i) \subseteq InBuckets(buffer)  BY DEF Passed
    <3> QED  BY <1>7, <3>1, <3>2, <3>3
  <2> QED  BY <1>5, <1>6, <1>7, <1>8, <2>2, <2>4
<1>14. CASE moved.crawl # End
  <2>1. new = moved  BY <1>9, <1>14 DEF AdvanceTillValid
  <2>2. i + 1 \in DOMAIN buffer[b] /\ moved.crawl = <<b, i + 1>>
    BY <1>2, <1>10, <1>11, <1>14, PlaceIs
  <2>3. AtPlace(buffer, new)
    <3> HIDE DEF moved
    <3> QED  BY <1>2, <1>10, <2>1, <2>2 DEF AtPlace
  <2>4. Visited(buffer, new) = Passed(buffer, b, i + 1)
    <3>1. moved.crawl[1] = b /\ moved.crawl[2] = i + 1
      <4> HIDE DEF moved
      <4> QED  BY <2>2
    <3> HIDE DEF moved
    <3> QED  BY <1>14, <2>1, <3>1 DEF Visited
  <2>5. Passed(buffer, b, i + 1) = Passed(buffer, b, i) \union {buffer[b][i]}
    <3>1. \A e \in InBuckets(buffer) :
            e \in Passed(buffer, b, i + 1) <=> (e \in Passed(buffer, b, i) \/ e = buffer[b][i])
      <4>1. \A e \in InBuckets(buffer) : e \in Passed(buffer, b, i + 1) <=>
              \E c \in DOMAIN buffer : \E j \in DOMAIN buffer[c] :
                e = buffer[c][j] /\ (c < b \/ (c = b /\ j < i + 1))
        BY DEF Passed
      <4> QED  BY <1>12, <4>1
    <3>2. Passed(buffer, b, i) \subseteq InBuckets(buffer)
          /\ Passed(buffer, b, i + 1) \subseteq InBuckets(buffer)
      BY DEF Passed
    <3> QED  BY <1>7, <3>1, <3>2
  <2> QED  BY <1>5, <1>6, <1>7, <1>8, <2>3, <2>4, <2>5
<1> QED  BY <1>13, <1>14

-----------------------------------------------------------------------------
(* The invariant                                                            *)

TypesInv ==
    /\ record \in [Tokens -> Buffers]
    /\ wpc \in [Writers -> WriterPlaces]
    /\ place \in [Writers -> Nat \ {0}]
    /\ \A w \in Writers : place[w] <= Len(File[w]) + 1
    /\ \A w \in Writers : wpc[w] = "open" => place[w] = 1
    /\ \A w \in Writers : wpc[w] \in {"insert", "inside"} => place[w] \in DOMAIN File[w]
    /\ spc \in [Searches -> SearchPlaces]
    /\ iter \in [Searches -> [bucketId : Nat, crawl : {End} \union (Nat \X Nat)]]
    /\ hist \in [Searches -> [Docs -> Nat]]
    /\ todo \in [Searches -> SUBSET Docs]
    /\ final \in [Searches -> Seq(Entries)]
    /\ seen \in [Searches -> SUBSET Entries]
    /\ ranks \in [0 .. RanksSize - 1 -> Seq(Docs \X Nat)]

\* An entry is in the bucket its hash names, and there once.
RecordsInv ==
    \A tk \in Tokens : \A b \in 0 .. RecordSize - 1 :
      /\ IsInjective(record[tk][b])
      /\ \A i \in DOMAIN record[tk][b] : BucketIndex(record[tk][b][i]) = b

\* What a search has visited is what it counted or listed; while it loops that is what its
\* iterator has behind it, and a task that is through with its record has seen what was
\* there in the beginning.
LoopRight(s, pc, it, visited, hits, listed, buffer) ==
    /\ IsFiniteSet(visited)
    /\ s \in Tasks => hits = [d \in Docs |-> HitsOf(d, visited)]
    /\ s \notin Tasks =>
         /\ IsInjective(listed)
         /\ Range(listed) = {e \in visited : s \in Listers \/ e[1] \notin Unreadable}
    /\ pc \in {"search", "lock"} => visited = {}
    /\ pc = "iterate" => AtPlace(buffer, it) /\ visited = Visited(buffer, it)
    /\ pc \in {"rank", "done"} /\ s \in Tasks => Records[TokenOf[s]] \subseteq visited

LoopsInv ==
    \A s \in Searches :
      LoopRight(s, spc[s], iter[s], seen[s], hist[s], final[s], record[TokenOf[s]])

\* What each task has added to each document's rank so far.
Parts ==
    [d \in Docs |-> [t \in Tasks |->
       IF spc[t] \in {"rank", "done"} /\ d \notin todo[t] THEN hist[t][d] ELSE 0]]

UniqueDocs(bucket) == \A i, j \in DOMAIN bucket : bucket[i][1] = bucket[j][1] => i = j

TodoInv ==
    \A s \in Searches :
      /\ \A d \in todo[s] : hist[s][d] > 0
      /\ spc[s] # "rank" => todo[s] = {}
      /\ spc[s] = "rank" => s \in Tasks

\* A document's rank is the sum of those parts, in the bucket its hash names.
RanksInv ==
    /\ \A b \in 0 .. RanksSize - 1 :
         /\ UniqueDocs(ranks[b])
         /\ \A r \in Range(ranks[b]) :
              DocHash[r[1]] % RanksSize = b /\ r[2] = SumFunction(Parts[r[1]]) /\ r[2] > 0
    /\ \A d \in Docs : SumFunction(Parts[d]) > 0 => \E r \in InBuckets(ranks) : r[1] = d

\* Nothing changes any more under a result.
ResultInv == result # <<>> => AllReady /\ result \in PartialSorts(SnapshotDense, TopX)

QueryInv ==
    TypesInv /\ RecordsInv /\ IndexedStays /\ LoopsInv /\ TodoInv /\ RanksInv /\ ResultInv

-----------------------------------------------------------------------------

\* A hash modulo the size is a bucket.
LEMMA Hashes ==
  /\ \A e \in Entries : BucketIndex(e) \in 0 .. RecordSize - 1
  /\ \A d \in Docs : DocHash[d] % RanksSize \in 0 .. RanksSize - 1
  /\ RecordSize \in Nat \ {0} /\ RanksSize \in Nat \ {0}
<1>1. RecordSize \in Nat \ {0} /\ RanksSize \in Nat \ {0}  BY SizesAssumption
<1>2. \A n \in Nat, m \in Nat \ {0} : n % m \in 0 .. m - 1  OBVIOUS
<1>3. \A e \in Entries : EntryHash[e] \in Nat  BY HashAssumption
<1>4. \A d \in Docs : DocHash[d] \in Nat  BY HashAssumption
<1> QED  BY <1>1, <1>2, <1>3, <1>4 DEF BucketIndex

\* What inserting an entry does to a bucket.
LEMMA EntryAddedIs ==
  ASSUME NEW bucket \in Seq(Entries), NEW entry \in Entries
  PROVE  /\ EntryAdded(bucket, entry) \in Seq(Entries)
         /\ Range(EntryAdded(bucket, entry)) = Range(bucket) \union {entry}
         /\ IsInjective(bucket) => IsInjective(EntryAdded(bucket, entry))
<1>1. CASE entry \in Range(bucket)  BY <1>1 DEF EntryAdded
<1>2. CASE entry \notin Range(bucket)
  <2> DEFINE new == Append(bucket, entry)
  <2>1. EntryAdded(bucket, entry) = new  BY <1>2 DEF EntryAdded
  <2>2. /\ new \in Seq(Entries) /\ DOMAIN bucket = 1 .. Len(bucket) /\ Len(bucket) \in Nat
        /\ DOMAIN new = 1 .. Len(bucket) + 1
        /\ new[Len(bucket) + 1] = entry
        /\ \A i \in 1 .. Len(bucket) : new[i] = bucket[i]
    OBVIOUS
  <2> HIDE DEF new
  <2>3. DOMAIN new = DOMAIN bucket \union {Len(bucket) + 1} /\ Len(bucket) + 1 \notin DOMAIN bucket
    BY <2>2
  <2>4. Range(new) = Range(bucket) \union {entry}
    <3>1. ASSUME NEW e \in Range(new)  PROVE e \in Range(bucket) \union {entry}
      BY <2>2, <2>3 DEF Range
    <3>2. ASSUME NEW e \in Range(bucket)  PROVE e \in Range(new)
      <4>1. PICK i \in DOMAIN bucket : bucket[i] = e  BY DEF Range
      <4>2. i \in DOMAIN new /\ new[i] = e  BY <2>2, <2>3, <4>1
      <4> QED  BY <4>2 DEF Range
    <3>3. entry \in Range(new)
      <4>1. Len(bucket) + 1 \in DOMAIN new  BY <2>3
      <4> QED  BY <2>2, <4>1 DEF Range
    <3> QED  BY <3>1, <3>2, <3>3
  <2>5. ASSUME IsInjective(bucket)  PROVE IsInjective(new)
    <3> SUFFICES ASSUME NEW i \in DOMAIN new, NEW j \in DOMAIN new, new[i] = new[j]  PROVE i = j
      BY DEF IsInjective
    <3>1. \A k \in DOMAIN bucket : new[k] = bucket[k] /\ bucket[k] # entry
      BY <1>2, <2>2 DEF Range
    <3> QED  BY <2>2, <2>3, <2>5, <3>1 DEF IsInjective
  <2> QED  BY <2>1, <2>2, <2>4, <2>5
<1> QED  BY <1>1, <1>2

\* A record has no entry twice.
LEMMA NoDuplicates ==
  ASSUME TypesInv, RecordsInv, NEW tk \in Tokens
  PROVE  record[tk] \in Buffers /\ Unique(record[tk])
<1>1. record[tk] \in Buffers  BY DEF TypesInv
<1>2. DOMAIN record[tk] = 0 .. RecordSize - 1  BY <1>1 DEF Buffers
<1>3. Unique(record[tk])
  <2> SUFFICES ASSUME NEW b \in 0 .. RecordSize - 1, NEW c \in 0 .. RecordSize - 1,
                      NEW i \in DOMAIN record[tk][b], NEW j \in DOMAIN record[tk][c],
                      record[tk][b][i] = record[tk][c][j]
               PROVE  b = c /\ i = j
    BY <1>2 DEF Unique
  <2>1. b = c  BY DEF RecordsInv
  <2> QED  BY <2>1 DEF RecordsInv, IsInjective
<1> QED  BY <1>1, <1>3

\* An iterator is different from end() until it is at the end itself.
LEMMA DiffersIs ==
  ASSUME NEW buffer \in Buffers, NEW it, AtPlace(buffer, it)
  PROVE  Differs(it, EndOf(buffer)) <=> it.crawl # End
<1>1. Size(buffer) = RecordSize /\ RecordSize \in Nat /\ DOMAIN buffer = 0 .. RecordSize - 1
  BY BufferSize
<1>2. it.bucketId # Size(buffer)  BY <1>1 DEF AtPlace
<1> QED  BY <1>2 DEF Differs, EndOf

-----------------------------------------------------------------------------
(* The first state, and the types                                           *)

\* The invariant holds in the beginning.
LEMMA InitInv == Init => QueryInv
<1> SUFFICES ASSUME Init  PROVE QueryInv  OBVIOUS
<1>s. /\ IsFiniteSet(Searches) /\ Tasks \subseteq Searches /\ IsFiniteSet(Tasks)
      /\ TokenOf \in [Searches -> Tokens]
  <2>1. IsFiniteSet(Searches) /\ Tasks \in SUBSET Searches  BY SearchesAssumption
  <2>2. IsFiniteSet(Tasks)  BY <2>1, FS_Subset
  <2> QED  BY <2>1, <2>2, SearchesAssumption
<1>e. /\ Entries \subseteq Docs \X Nat
      /\ \A tk \in Tokens : Records[tk] \subseteq Entries /\ IsFiniteSet(Records[tk])
      /\ \A w \in Writers : File[w] \in Seq([token : Tokens, entry : Entries])
  BY EntriesAssumption
<1>n. <<>> \in Seq(Entries) /\ <<>> \in Seq(Docs \X Nat) /\ Range(<<>>) = {} /\ IsInjective(<<>>)
  BY DEF Range, IsInjective
<1> DEFINE First(tk, b) == {e \in Records[tk] : BucketIndex(e) = b}
<1>1. ASSUME NEW tk \in Tokens, NEW b \in 0 .. RecordSize - 1
      PROVE  /\ record[tk][b] \in Seq(Entries)
             /\ IsInjective(record[tk][b])
             /\ Range(record[tk][b]) = First(tk, b)
  <2> DEFINE S == First(tk, b)
  <2>1. record[tk][b] = SetToSeq(S)  BY DEF Init
  <2>2. S \in SUBSET Records[tk] /\ S \subseteq Entries  BY <1>e
  <2>3. IsFiniteSet(S)  BY <1>e, <2>2, FS_Subset
  <2> HIDE DEF S
  <2>4. SetToSeq(S) \in Seq(S) /\ IsInjective(SetToSeq(S)) /\ Range(SetToSeq(S)) = S
    BY <2>3, Lists
  <2>5. SetToSeq(S) \in Seq(Entries)  BY <2>2, <2>4
  <2> QED  BY <2>1, <2>4, <2>5 DEF S
<1>2. record \in [Tokens -> Buffers]
  <2>1. record = [tk \in Tokens |-> record[tk]]  BY DEF Init
  <2>2. \A tk \in Tokens : record[tk] = [b \in 0 .. RecordSize - 1 |-> record[tk][b]]  BY DEF Init
  <2>3. \A tk \in Tokens : record[tk] \in Buffers  BY <1>1, <2>2 DEF Buffers
  <2> QED  BY <2>1, <2>3
<1>3. TypesInv
  <2>1. wpc \in [Writers -> WriterPlaces] /\ spc \in [Searches -> SearchPlaces]
    BY DEF Init, WriterPlaces, SearchPlaces
  <2>2. /\ place \in [Writers -> Nat \ {0}] /\ \A w \in Writers : place[w] <= Len(File[w]) + 1
        /\ \A w \in Writers : wpc[w] = "open" => place[w] = 1
        /\ \A w \in Writers : wpc[w] \in {"insert", "inside"} => place[w] \in DOMAIN File[w]
    <3>1. \A w \in Writers : Len(File[w]) \in Nat  BY <1>e
    <3> QED  BY <3>1 DEF Init
  <2>3. iter \in [Searches -> [bucketId : Nat, crawl : {End} \union (Nat \X Nat)]]
    BY DEF Init, NoIterator
  <2>4. hist \in [Searches -> [Docs -> Nat]] /\ todo \in [Searches -> SUBSET Docs]
        /\ seen \in [Searches -> SUBSET Entries]
    BY DEF Init, NoHits
  <2>5. final \in [Searches -> Seq(Entries)] /\ ranks \in [0 .. RanksSize - 1 -> Seq(Docs \X Nat)]
    BY <1>n DEF Init
  <2> QED  BY <1>2, <2>1, <2>2, <2>3, <2>4, <2>5 DEF TypesInv
<1>4. RecordsInv
  <2> SUFFICES ASSUME NEW tk \in Tokens, NEW b \in 0 .. RecordSize - 1
               PROVE  /\ IsInjective(record[tk][b])
                      /\ \A i \in DOMAIN record[tk][b] : BucketIndex(record[tk][b][i]) = b
    BY DEF RecordsInv
  <2>1. \A i \in DOMAIN record[tk][b] : record[tk][b][i] \in First(tk, b)  BY <1>1 DEF Range
  <2> QED  BY <1>1, <2>1
<1>5. IndexedStays
  <2>1. ASSUME NEW tk \in Tokens, NEW e \in Records[tk]  PROVE e \in InBuckets(record[tk])
    <3>1. BucketIndex(e) \in 0 .. RecordSize - 1  BY <1>e, Hashes
    <3>2. e \in Range(record[tk][BucketIndex(e)])  BY <1>1, <3>1
    <3>3. DOMAIN record[tk] = 0 .. RecordSize - 1  BY <1>2 DEF Buffers
    <3> QED  BY <3>1, <3>2, <3>3 DEF InBuckets
  <2>2. \A w \in Writers : 1 .. place[w] - 1 = {}  BY DEF Init
  <2> QED  BY <2>1, <2>2 DEF IndexedStays
<1>6. LoopsInv
  <2>1. IsFiniteSet({})  BY FS_EmptySet
  <2>2. \A d \in Docs : HitsOf(d, {}) = 0
    <3>1. Cardinality({}) = 0  BY FS_EmptySet
    <3>2. \A d \in Docs : {e \in {} : e[1] = d} = {}  OBVIOUS
    <3> QED  BY <3>1, <3>2 DEF HitsOf
  <2>3. NoHits = [d \in Docs |-> HitsOf(d, {})]  BY <2>2 DEF NoHits
  <2> QED  BY <1>n, <2>1, <2>3 DEF Init, LoopsInv, LoopRight
<1>7. TodoInv  BY DEF Init, TodoInv
<1>8. RanksInv
  <2>1. \A b \in 0 .. RanksSize - 1 : UniqueDocs(ranks[b]) /\ Range(ranks[b]) = {}
    BY <1>n DEF Init, UniqueDocs
  <2>2. ASSUME NEW d \in Docs  PROVE ~(SumFunction(Parts[d]) > 0)
    <3>1. Parts[d] = [t \in Tasks |-> 0]  BY <1>s DEF Parts, Init
    <3>2. Parts[d] \in [Tasks -> Nat] /\ \A t \in Tasks : ~(Parts[d][t] > 0)  BY <3>1
    <3> QED  BY <1>s, <3>2, SumBounds
  <2> QED  BY <2>1, <2>2 DEF RanksInv
<1>9. ResultInv  BY DEF Init, ResultInv
<1> QED  BY <1>3, <1>4, <1>5, <1>6, <1>7, <1>8, <1>9 DEF QueryInv

\* Where a writer's next insert goes.
LEMMA NextInsertIs ==
  ASSUME TypesInv, NEW w \in Writers, wpc[w] \in {"insert", "inside"}
  PROVE  /\ NextInsert(w).token \in Tokens /\ NextInsert(w).entry \in Entries
         /\ place[w] \in 1 .. Len(File[w]) /\ Len(File[w]) \in Nat
         /\ BucketIndex(NextInsert(w).entry) \in 0 .. RecordSize - 1
<1>1. File[w] \in Seq([token : Tokens, entry : Entries])  BY EntriesAssumption
<1>2. place[w] \in DOMAIN File[w]  BY DEF TypesInv
<1>3. NextInsert(w) \in [token : Tokens, entry : Entries]
  <2> DEFINE S == [token : Tokens, entry : Entries]
  <2>1. File[w][place[w]] \in S
    <3>1. File[w] \in Seq(S)  BY <1>1
    <3> HIDE DEF S
    <3> QED  BY <3>1, <1>2
  <2> QED  BY <2>1 DEF NextInsert
<1>4. NextInsert(w).token \in Tokens /\ NextInsert(w).entry \in Entries  BY <1>3
<1> QED  BY <1>1, <1>2, <1>4, Hashes

\* The steps of the tasks that index keep the types.
LEMMA WriterTypes ==
  ASSUME TypesInv, NEW w \in Writers, WriterStep(w)
  PROVE  TypesInv'
<1>f. File[w] \in Seq([token : Tokens, entry : Entries]) /\ Len(File[w]) \in Nat
      /\ DOMAIN File[w] = 1 .. Len(File[w])
  <2>1. File[w] \in Seq([token : Tokens, entry : Entries])  BY EntriesAssumption
  <2> QED  BY <2>1
<1>1. ASSUME SkipFile(w)  PROVE TypesInv'
  BY <1>1 DEF TypesInv, SkipFile, WriterPlaces
<1>2. ASSUME OpenFile(w)  PROVE TypesInv'
  <2>1. wpc' \in [Writers -> WriterPlaces]  BY <1>2 DEF TypesInv, OpenFile, WriterPlaces
  <2>2. ASSUME NEW v \in Writers, wpc'[v] \in {"insert", "inside"}
        PROVE  place[v] \in DOMAIN File[v]
    <3>1. CASE v = w
      <4>1. File[w] # <<>> /\ place[w] = 1
        BY <1>2, <2>2, <3>1, Zenon DEF TypesInv, OpenFile
      <4>2. File[w] # <<>> => 1 \in DOMAIN File[w]
        <5> DEFINE S == [token : Tokens, entry : Entries]
        <5>1. File[w] \in Seq(S)  BY <1>f
        <5> HIDE DEF S
        <5> QED  BY <5>1
      <4> QED  BY <3>1, <4>1, <4>2
    <3>2. CASE v # w  BY <1>2, <2>2, <3>2 DEF TypesInv, OpenFile
    <3> QED  BY <3>1, <3>2
  <2> QED  BY <1>2, <2>1, <2>2 DEF TypesInv, OpenFile
<1>3. ASSUME StartInsert(w)  PROVE TypesInv'
  <2>1. wpc' \in [Writers -> WriterPlaces]  BY <1>3 DEF TypesInv, StartInsert, WriterPlaces
  <2>2. ASSUME NEW v \in Writers, wpc'[v] \in {"insert", "inside"}
        PROVE  place[v] \in DOMAIN File[v]
    BY <1>3, <2>2 DEF TypesInv, StartInsert
  <2> QED  BY <1>3, <2>1, <2>2 DEF TypesInv, StartInsert
<1>4. ASSUME AddIfNotPresent(w)  PROVE TypesInv'
  <2> DEFINE tk == NextInsert(w).token
             entry == NextInsert(w).entry
             b == BucketIndex(entry)
  <2>1. tk \in Tokens /\ entry \in Entries /\ place[w] \in 1 .. Len(File[w])
        /\ b \in 0 .. RecordSize - 1
    <3>1. wpc[w] \in {"insert", "inside"}  BY <1>4 DEF AddIfNotPresent
    <3> QED  BY <3>1, NextInsertIs
  <2>2. record' = [record EXCEPT ![tk][b] = EntryAdded(record[tk][b], entry)]
    BY <1>4 DEF AddIfNotPresent
  <2>3. place' = [place EXCEPT ![w] = place[w] + 1]
        /\ wpc' = [wpc EXCEPT ![w] = IF place[w] < Len(File[w]) THEN "insert" ELSE "done"]
        /\ UNCHANGED <<spc, iter, hist, todo, final, seen, ranks>>
    BY <1>4 DEF AddIfNotPresent
  <2> HIDE DEF tk, entry, b
  <2>4. record[tk] \in Buffers /\ record[tk][b] \in Seq(Entries)
    <3>1. record[tk] \in Buffers  BY <2>1 DEF TypesInv
    <3> QED  BY <2>1, <3>1 DEF Buffers
  <2>5. EntryAdded(record[tk][b], entry) \in Seq(Entries)  BY <2>1, <2>4, EntryAddedIs
  <2>6. [record[tk] EXCEPT ![b] = EntryAdded(record[tk][b], entry)] \in Buffers
    BY <2>4, <2>5 DEF Buffers
  <2>7. record' \in [Tokens -> Buffers]  BY <2>2, <2>6 DEF TypesInv
  <2>8. wpc' \in [Writers -> WriterPlaces]
    <3>1. (IF place[w] < Len(File[w]) THEN "insert" ELSE "done") \in WriterPlaces
      BY DEF WriterPlaces
    <3> QED  BY <2>3, <3>1 DEF TypesInv
  <2>9. place' \in [Writers -> Nat \ {0}] /\ \A v \in Writers : place'[v] <= Len(File[v]) + 1
    BY <1>f, <2>1, <2>3 DEF TypesInv
  <2>10. ASSUME NEW v \in Writers, wpc'[v] \in {"insert", "inside"}
         PROVE  place'[v] \in DOMAIN File[v]
    <3>1. CASE v = w
      <4>1. place[w] < Len(File[w]) /\ place'[w] = place[w] + 1
        BY <2>3, <2>10, <3>1 DEF TypesInv
      <4> QED  BY <1>f, <2>1, <3>1, <4>1
    <3>2. CASE v # w  BY <2>3, <2>10, <3>2 DEF TypesInv
    <3> QED  BY <3>1, <3>2
  <2> QED  BY <2>3, <2>7, <2>8, <2>9, <2>10 DEF TypesInv
<1> QED  BY <1>1, <1>2, <1>3, <1>4 DEF WriterStep

Iterators == [bucketId : Nat, crawl : {End} \union (Nat \X Nat)]

\* An iterator at a place is of the type of iterators,
LEMMA IteratorType ==
  ASSUME NEW buffer \in Buffers, NEW it, AtPlace(buffer, it),
         it = [bucketId |-> it.bucketId, crawl |-> it.crawl]
  PROVE  it \in Iterators
<1>1. it.bucketId \in Nat /\ it.bucketId \in DOMAIN buffer
      /\ buffer[it.bucketId] \in Seq(Entries)
  BY BufferSize DEF AtPlace
<1>2. it.crawl \in {End} \union (Nat \X Nat)
  <2>1. CASE it.crawl = End  BY <2>1
  <2>2. CASE it.crawl # End
    <3>1. PICK i \in DOMAIN buffer[it.bucketId] : it.crawl = <<it.bucketId, i>>
      BY <2>2 DEF AtPlace
    <3>2. i \in Nat  BY <1>1
    <3>3. <<it.bucketId, i>> \in Nat \X Nat  BY <1>1, <3>2
    <3> QED  BY <3>1, <3>3
  <2> QED  BY <2>1, <2>2
<1> QED  BY <1>1, <1>2 DEF Iterators

\* and one that has advanced is a record of the same fields.
LEMMA AdvancedShape ==
  ASSUME NEW buffer, NEW it, it = [bucketId |-> it.bucketId, crawl |-> it.crawl],
         NEW new, new = AdvanceTillValid(buffer, it)
  PROVE  new = [bucketId |-> new.bucketId, crawl |-> new.crawl]
<1>1. CASE it.crawl = End /\ it.bucketId < Size(buffer) - 1
  <2>1. \E b, c : new = [bucketId |-> b, crawl |-> c]  BY <1>1, Zenon DEF AdvanceTillValid
  <2> QED  BY <2>1
<1>2. CASE ~(it.crawl = End /\ it.bucketId < Size(buffer) - 1)
  BY <1>2, Zenon DEF AdvanceTillValid
<1> QED  BY <1>1, <1>2

\* What a search's iterator is at, and where its next one is.
LEMMA IteratorIs ==
  ASSUME TypesInv, RecordsInv, LoopsInv, NEW s \in Searches, spc[s] = "iterate",
         NEW buffer, buffer = record[TokenOf[s]]
  PROVE  /\ buffer \in Buffers /\ TokenOf[s] \in Tokens
         /\ AtPlace(buffer, iter[s])
         /\ seen[s] = Visited(buffer, iter[s])
         /\ Differs(iter[s], EndOf(buffer)) <=> iter[s].crawl # End
         /\ iter[s].crawl # End =>
              /\ Entry(buffer, iter[s]) \in InBuckets(buffer)
              /\ Entry(buffer, iter[s]) \in Entries /\ Entry(buffer, iter[s])[1] \in Docs
              /\ Entry(buffer, iter[s]) \notin seen[s]
              /\ Incremented(buffer, iter[s]) \in Iterators
              /\ AtPlace(buffer, Incremented(buffer, iter[s]))
              /\ Visited(buffer, Incremented(buffer, iter[s]))
                   = seen[s] \union {Entry(buffer, iter[s])}
<1> DEFINE it == iter[s]
           new == Incremented(buffer, it)
           e == Entry(buffer, it)
<1>1. TokenOf[s] \in Tokens  BY SearchesAssumption
<1>2. buffer \in Buffers /\ Unique(buffer)  BY <1>1, NoDuplicates
<1>3. AtPlace(buffer, it) /\ seen[s] = Visited(buffer, it)  BY DEF LoopsInv, LoopRight
<1>4. Differs(it, EndOf(buffer)) <=> it.crawl # End  BY <1>2, <1>3, DiffersIs
<1>5. it = [bucketId |-> it.bucketId, crawl |-> it.crawl]
  <2>1. it \in [bucketId : Nat, crawl : {End} \union (Nat \X Nat)]  BY DEF TypesInv
  <2> QED  BY <2>1
<1>6. ASSUME it.crawl # End
      PROVE  /\ e \in InBuckets(buffer) /\ e \notin seen[s]
             /\ AtPlace(buffer, new) /\ Visited(buffer, new) = seen[s] \union {e}
  <2> HIDE DEF it, new
  <2> QED  BY <1>2, <1>3, <1>5, <1>6, IncrementedRight DEF new
<1>7. ASSUME it.crawl # End  PROVE new \in Iterators
  <2> DEFINE moved == [it EXCEPT !.crawl = Place(buffer, it.crawl[1], it.crawl[2] + 1)]
  <2>1. new = AdvanceTillValid(buffer, moved)  BY DEF Incremented
  <2>2. moved = [bucketId |-> moved.bucketId, crawl |-> moved.crawl]
    <3> HIDE DEF it
    <3> QED  BY <1>5
  <2> HIDE DEF moved, new
  <2>3. new = [bucketId |-> new.bucketId, crawl |-> new.crawl]  BY <2>1, <2>2, AdvancedShape
  <2> QED  BY <1>2, <1>6, <1>7, <2>3, IteratorType
<1>8. ASSUME e \in InBuckets(buffer)  PROVE e \in Entries /\ e[1] \in Docs
  <2> HIDE DEF e
  <2>1. PICK b \in DOMAIN buffer : \E i \in DOMAIN buffer[b] : e = buffer[b][i]
    BY <1>8, InBucketsIs
  <2>2. buffer[b] \in Seq(Entries)  BY <1>2, BufferSize
  <2>3. e \in Entries  BY <2>1, <2>2
  <2>4. e \in Docs \X Nat  BY <2>3, EntriesAssumption
  <2> QED  BY <2>3, <2>4
<1> QED  BY <1>1, <1>2, <1>3, <1>4, <1>6, <1>7, <1>8

\* What adding n to the rank of a document does to a bucket: that document's rank is there, it
\* is n or n more than before, and the others are as they were.
RankGrows(bucket, doc, n, new) ==
    /\ new \in Seq(Docs \X Nat)
    /\ UniqueDocs(new)
    /\ \A r \in Range(new) : r[1] # doc => r \in Range(bucket)
    /\ \A r \in Range(bucket) : r[1] # doc => r \in Range(new)
    /\ \E r \in Range(new) : r[1] = doc
    /\ \A r \in Range(new) : r[1] = doc =>
         \/ r[2] = n /\ \A o \in Range(bucket) : o[1] # doc
         \/ \E o \in Range(bucket) : o[1] = doc /\ r[2] = o[2] + n

LEMMA RankAddedIs ==
  ASSUME NEW bucket \in Seq(Docs \X Nat), UniqueDocs(bucket), NEW doc \in Docs, NEW n \in Nat,
         NEW new, new = RankAdded(bucket, doc, n)
  PROVE  RankGrows(bucket, doc, n, new)
<1>1. /\ DOMAIN bucket = 1 .. Len(bucket) /\ Len(bucket) \in Nat
      /\ \A i \in DOMAIN bucket : bucket[i] \in Docs \X Nat
  OBVIOUS
<1>2. CASE \E i \in DOMAIN bucket : bucket[i][1] = doc
  <2>1. new = [i \in DOMAIN bucket |->
                 IF bucket[i][1] = doc THEN <<doc, bucket[i][2] + n>> ELSE bucket[i]]
    BY <1>2 DEF RankAdded
  <2>2. DOMAIN new = DOMAIN bucket
        /\ \A i \in DOMAIN bucket :
             new[i] = IF bucket[i][1] = doc THEN <<doc, bucket[i][2] + n>> ELSE bucket[i]
    BY <2>1
  <2>3. \A i \in DOMAIN bucket : new[i] \in Docs \X Nat /\ new[i][1] = bucket[i][1]
    <3> SUFFICES ASSUME NEW i \in DOMAIN bucket
                 PROVE  new[i] \in Docs \X Nat /\ new[i][1] = bucket[i][1]
      OBVIOUS
    <3>1. bucket[i][2] + n \in Nat  BY <1>1
    <3> QED  BY <1>1, <2>2, <3>1
  <2>4. new \in Seq(Docs \X Nat)  BY <1>1, <2>1, <2>3
  <2>5. UniqueDocs(new)  BY <2>2, <2>3 DEF UniqueDocs
  <2>6. ASSUME NEW r \in Range(new)
        PROVE  /\ r[1] # doc => r \in Range(bucket)
               /\ r[1] = doc => \E o \in Range(bucket) : o[1] = doc /\ r[2] = o[2] + n
    <3>1. PICK i \in DOMAIN bucket : new[i] = r  BY <2>2 DEF Range
    <3>2. bucket[i] \in Range(bucket)  BY DEF Range
    <3> QED  BY <2>2, <2>3, <3>1, <3>2
  <2>7. ASSUME NEW r \in Range(bucket), r[1] # doc  PROVE r \in Range(new)
    <3>1. PICK i \in DOMAIN bucket : bucket[i] = r  BY DEF Range
    <3>2. new[i] = r  BY <2>2, <2>7, <3>1
    <3> QED  BY <2>2, <3>2 DEF Range
  <2>8. \E r \in Range(new) : r[1] = doc
    <3>1. PICK i \in DOMAIN bucket : bucket[i][1] = doc  BY <1>2
    <3>2. new[i][1] = doc /\ new[i] \in Range(new)  BY <2>2, <2>3, <3>1 DEF Range
    <3> QED  BY <3>2
  <2> QED  BY <2>4, <2>5, <2>6, <2>7, <2>8 DEF RankGrows
<1>3. CASE ~ \E i \in DOMAIN bucket : bucket[i][1] = doc
  <2>1. new = Append(bucket, <<doc, n>>)  BY <1>3 DEF RankAdded
  <2> DEFINE last == Len(bucket) + 1
  <2>2. <<doc, n>> \in Docs \X Nat /\ <<doc, n>>[1] = doc /\ <<doc, n>>[2] = n  OBVIOUS
  <2>3. /\ new \in Seq(Docs \X Nat)
        /\ DOMAIN new = 1 .. last /\ new[last] = <<doc, n>>
        /\ \A i \in DOMAIN bucket : new[i] = bucket[i]
    BY <1>1, <2>1, <2>2
  <2>4. DOMAIN new = DOMAIN bucket \union {last} /\ last \notin DOMAIN bucket  BY <1>1, <2>3
  <2> HIDE DEF last
  <2>5. UniqueDocs(new)
    <3> SUFFICES ASSUME NEW i \in DOMAIN new, NEW j \in DOMAIN new, new[i][1] = new[j][1]
                 PROVE  i = j
      BY DEF UniqueDocs
    <3>1. \A k \in DOMAIN bucket : new[k] = bucket[k] /\ bucket[k][1] # doc  BY <1>3, <2>3
    <3>2. new[last][1] = doc  BY <2>2, <2>3
    <3> QED  BY <2>4, <3>1, <3>2 DEF UniqueDocs
  <2>6. ASSUME NEW r \in Range(new)
        PROVE  /\ r[1] # doc => r \in Range(bucket)
               /\ (r[1] = doc) => (r[2] = n)
    <3>1. PICK i \in DOMAIN new : new[i] = r  BY DEF Range
    <3>2. CASE i = last  BY <2>2, <2>3, <3>1, <3>2
    <3>3. CASE i # last  BY <1>3, <2>3, <2>4, <3>1, <3>3 DEF Range
    <3> QED  BY <3>2, <3>3
  <2>7. \A o \in Range(bucket) : o[1] # doc  BY <1>3 DEF Range
  <2>8. ASSUME NEW r \in Range(bucket)  PROVE r \in Range(new)
    <3>1. PICK i \in DOMAIN bucket : bucket[i] = r  BY DEF Range
    <3>2. new[i] = r /\ i \in DOMAIN new  BY <2>3, <2>4, <3>1
    <3> QED  BY <3>2 DEF Range
  <2>9. new[last] \in Range(new) /\ new[last][1] = doc
    <3>1. last \in DOMAIN new  BY <2>4
    <3> QED  BY <2>2, <2>3, <3>1 DEF Range
  <2> QED  BY <2>3, <2>5, <2>6, <2>7, <2>8, <2>9 DEF RankGrows
<1> QED  BY <1>2, <1>3

\* The part of the invariant the steps of the loops need.
LoopInv == TypesInv /\ RecordsInv /\ IndexedStays /\ LoopsInv /\ TodoInv /\ RanksInv

\* A document is once in its bucket.
LEMMA RanksUnique ==
  ASSUME TypesInv, RanksInv, NEW d \in Docs, NEW b, b = DocHash[d] % RanksSize
  PROVE  b \in 0 .. RanksSize - 1 /\ ranks[b] \in Seq(Docs \X Nat) /\ UniqueDocs(ranks[b])
<1>1. b \in 0 .. RanksSize - 1  BY Hashes
<1> QED  BY <1>1 DEF TypesInv, RanksInv

\* The steps of the searches keep the types.
LEMMA SearchTypes ==
  ASSUME LoopInv, NEW s \in Searches, SearchStep(s)
  PROVE  TypesInv'
<1> USE DEF LoopInv
<1>1. ASSUME Search(s)  PROVE TypesInv'
  <2>1. spc' \in [Searches -> SearchPlaces]
    <3>1. "done" \in SearchPlaces /\ "lock" \in SearchPlaces  BY DEF SearchPlaces
    <3> QED  BY <1>1, <3>1 DEF TypesInv, Search
  <2> QED  BY <1>1, <2>1 DEF TypesInv, Search
<1>2. ASSUME Iterate(s)  PROVE TypesInv'
  <2>1. TokenOf[s] \in Tokens  BY SearchesAssumption
  <2> DEFINE buffer == record[TokenOf[s]]
             it == Begin(buffer)
  <2>2. buffer \in Buffers  BY <2>1 DEF TypesInv
  <2>3. iter' = [iter EXCEPT ![s] = it]  BY <1>2 DEF Iterate, RecordOf
  <2>4. it \in Iterators
    <3> HIDE DEF buffer
    <3> DEFINE first == [bucketId |-> 0, crawl |-> Place(buffer, 0, 1)]
    <3>1. it = AdvanceTillValid(buffer, first)  BY DEF Begin
    <3>2. first = [bucketId |-> first.bucketId, crawl |-> first.crawl]  OBVIOUS
    <3>3. AtPlace(buffer, it)  BY <2>2, BeginRight
    <3> HIDE DEF first, it
    <3>4. it = [bucketId |-> it.bucketId, crawl |-> it.crawl]  BY <3>1, <3>2, AdvancedShape
    <3> QED  BY <2>2, <3>3, <3>4, IteratorType
  <2> HIDE DEF it
  <2>5. iter' \in [Searches -> Iterators]  BY <2>3, <2>4 DEF TypesInv, Iterators
  <2>6. spc' \in [Searches -> SearchPlaces]
    <3>1. "iterate" \in SearchPlaces  BY DEF SearchPlaces
    <3> QED  BY <1>2, <3>1 DEF TypesInv, Iterate
  <2> QED  BY <1>2, <2>5, <2>6 DEF TypesInv, Iterate, Iterators
<1>3. ASSUME Visit(s)  PROVE TypesInv'
  <2> DEFINE buffer == record[TokenOf[s]]
             e == Entry(buffer, iter[s])
             new == Incremented(buffer, iter[s])
  <2>1. spc[s] = "iterate" /\ Differs(iter[s], EndOf(buffer))  BY <1>3 DEF Visit, RecordOf
  <2>2. e \in Entries /\ e[1] \in Docs /\ new \in Iterators  BY <2>1, IteratorIs
  <2>3. /\ seen' = [seen EXCEPT ![s] = seen[s] \union {e}]
        /\ iter' = [iter EXCEPT ![s] = new]
        /\ IF s \in Tasks
           THEN hist' = [hist EXCEPT ![s][e[1]] = hist[s][e[1]] + 1] /\ UNCHANGED final
           ELSE /\ final' = IF s \notin Listers /\ e[1] \in Unreadable THEN final
                            ELSE [final EXCEPT ![s] = Append(final[s], e)]
                /\ UNCHANGED hist
        /\ UNCHANGED <<record, wpc, place, spc, todo, ranks>>
    BY <1>3 DEF Visit, RecordOf
  <2> HIDE DEF e, new
  <2>4. seen' \in [Searches -> SUBSET Entries]  BY <2>2, <2>3 DEF TypesInv
  <2>5. iter' \in [Searches -> Iterators]  BY <2>2, <2>3 DEF TypesInv, Iterators
  <2>6. hist' \in [Searches -> [Docs -> Nat]]
    <3>1. hist[s] \in [Docs -> Nat]  BY DEF TypesInv
    <3>2. hist[s][e[1]] + 1 \in Nat  BY <2>2, <3>1
    <3>3. [hist[s] EXCEPT ![e[1]] = hist[s][e[1]] + 1] \in [Docs -> Nat]  BY <3>1, <3>2
    <3> QED  BY <2>3, <3>3 DEF TypesInv
  <2>7. final' \in [Searches -> Seq(Entries)]
    <3>1. final[s] \in Seq(Entries)  BY DEF TypesInv
    <3>2. Append(final[s], e) \in Seq(Entries)  BY <2>2, <3>1
    <3>3. final' = final \/ final' = [final EXCEPT ![s] = Append(final[s], e)]  BY <2>3
    <3> QED  BY <3>2, <3>3 DEF TypesInv
  <2> QED  BY <2>3, <2>4, <2>5, <2>6, <2>7 DEF TypesInv, Iterators
<1>4. ASSUME Leave(s)  PROVE TypesInv'
  <2>1. spc' \in [Searches -> SearchPlaces]
    <3>1. "done" \in SearchPlaces /\ "rank" \in SearchPlaces  BY DEF SearchPlaces
    <3> QED  BY <1>4, <3>1 DEF TypesInv, Leave
  <2>2. todo' \in [Searches -> SUBSET Docs]
    <3>1. {d \in Docs : hist[s][d] > 0} \in SUBSET Docs  OBVIOUS
    <3>2. todo' = todo \/ todo' = [todo EXCEPT ![s] = {d \in Docs : hist[s][d] > 0}]
      BY <1>4, Zenon DEF Leave
    <3> QED  BY <3>1, <3>2 DEF TypesInv
  <2>3. iter' \in [Searches -> Iterators]
    <3>1. NoIterator \in Iterators  BY DEF NoIterator, Iterators
    <3> QED  BY <1>4, <3>1 DEF TypesInv, Leave, Iterators
  <2> QED  BY <1>4, <2>1, <2>2, <2>3 DEF TypesInv, Leave, Iterators
<1>5. ASSUME EndTask(s)  PROVE TypesInv'
  <2>1. spc' \in [Searches -> SearchPlaces]
    <3>1. "done" \in SearchPlaces  BY DEF SearchPlaces
    <3> QED  BY <1>5, <3>1 DEF TypesInv, EndTask
  <2> QED  BY <1>5, <2>1 DEF TypesInv, EndTask
<1>6. ASSUME NEW d \in todo[s], RankDocs(s, d)  PROVE TypesInv'
  <2> DEFINE b == DocHash[d] % RanksSize
             new == RankAdded(ranks[b], d, hist[s][d])
  <2>1. d \in Docs /\ hist[s][d] \in Nat  BY DEF TypesInv
  <2>2. ranks' = [ranks EXCEPT ![b] = new] /\ todo' = [todo EXCEPT ![s] = todo[s] \ {d}]
        /\ UNCHANGED <<record, wpc, place, spc, iter, hist, final, seen>>
    BY <1>6 DEF RankDocs
  <2> HIDE DEF b
  <2>3. b \in 0 .. RanksSize - 1 /\ ranks[b] \in Seq(Docs \X Nat) /\ UniqueDocs(ranks[b])
    BY <2>1, RanksUnique DEF b
  <2>4. new \in Seq(Docs \X Nat)
    <3>1. RankGrows(ranks[b], d, hist[s][d], new)  BY <2>1, <2>3, RankAddedIs
    <3> QED  BY <3>1 DEF RankGrows
  <2> HIDE DEF new
  <2>5. ranks' \in [0 .. RanksSize - 1 -> Seq(Docs \X Nat)]  BY <2>2, <2>3, <2>4 DEF TypesInv
  <2>6. todo' \in [Searches -> SUBSET Docs]  BY <2>2 DEF TypesInv
  <2> QED  BY <2>2, <2>5, <2>6 DEF TypesInv
<1> QED  BY <1>1, <1>2, <1>3, <1>4, <1>5, <1>6 DEF SearchStep

-----------------------------------------------------------------------------
(* The records                                                              *)

\* What a step of a task that indexes a file does to the records.
LEMMA InsertIs ==
  ASSUME TypesInv, NEW w \in Writers, AddIfNotPresent(w),
         NEW tk, tk = NextInsert(w).token, NEW entry, entry = NextInsert(w).entry
  PROVE  /\ tk \in Tokens /\ entry \in Entries /\ BucketIndex(entry) \in 0 .. RecordSize - 1
         /\ \A k \in Tokens : k # tk => record'[k] = record[k]
         /\ \A b \in 0 .. RecordSize - 1 : b # BucketIndex(entry) => record'[tk][b] = record[tk][b]
         /\ record'[tk][BucketIndex(entry)] = EntryAdded(record[tk][BucketIndex(entry)], entry)
         /\ record[tk][BucketIndex(entry)] \in Seq(Entries)
         /\ \A k \in Tokens : DOMAIN record'[k] = 0 .. RecordSize - 1
                              /\ DOMAIN record[k] = 0 .. RecordSize - 1
<1> DEFINE b == BucketIndex(entry)
<1>1. wpc[w] \in {"insert", "inside"}  BY DEF AddIfNotPresent
<1>2. tk \in Tokens /\ entry \in Entries /\ b \in 0 .. RecordSize - 1  BY <1>1, NextInsertIs
<1>3. record' = [record EXCEPT ![tk][b] = EntryAdded(record[tk][b], entry)]
  BY DEF AddIfNotPresent
<1> HIDE DEF b
<1>4. record \in [Tokens -> Buffers]  BY DEF TypesInv
<1>5. \A k \in Tokens : record[k] \in [0 .. RecordSize - 1 -> Seq(Entries)]  BY <1>4 DEF Buffers
<1>6. record'[tk] = [record[tk] EXCEPT ![b] = EntryAdded(record[tk][b], entry)]
      /\ \A k \in Tokens : k # tk => record'[k] = record[k]
  BY <1>2, <1>3, <1>4
<1>7. record[tk] \in [0 .. RecordSize - 1 -> Seq(Entries)]  BY <1>2, <1>5
<1>8. /\ \A c \in 0 .. RecordSize - 1 : c # b => record'[tk][c] = record[tk][c]
      /\ record'[tk][b] = EntryAdded(record[tk][b], entry)
      /\ record[tk][b] \in Seq(Entries)
      /\ DOMAIN record'[tk] = 0 .. RecordSize - 1
  BY <1>2, <1>6, <1>7
<1> QED  BY <1>2, <1>5, <1>6, <1>8 DEF b

\* The steps of the tasks that index keep the records right and lose no entry.
LEMMA WriterRecords ==
  ASSUME TypesInv, RecordsInv, IndexedStays, NEW w \in Writers, WriterStep(w)
  PROVE  RecordsInv' /\ IndexedStays'
<1>1. ASSUME AddIfNotPresent(w)  PROVE RecordsInv' /\ IndexedStays'
  <2> DEFINE tk == NextInsert(w).token
             entry == NextInsert(w).entry
             b == BucketIndex(entry)
  <2>1. /\ tk \in Tokens /\ entry \in Entries /\ b \in 0 .. RecordSize - 1
        /\ \A k \in Tokens : k # tk => record'[k] = record[k]
        /\ \A c \in 0 .. RecordSize - 1 : c # b => record'[tk][c] = record[tk][c]
        /\ record'[tk][b] = EntryAdded(record[tk][b], entry)
        /\ record[tk][b] \in Seq(Entries)
        /\ \A k \in Tokens : DOMAIN record'[k] = 0 .. RecordSize - 1
                             /\ DOMAIN record[k] = 0 .. RecordSize - 1
    BY <1>1, InsertIs
  <2>2. File[w][place[w]].token = tk /\ File[w][place[w]].entry = entry  BY DEF NextInsert
  <2> HIDE DEF tk, entry
  <2>3. /\ Range(record'[tk][b]) = Range(record[tk][b]) \union {entry}
        /\ IsInjective(record[tk][b]) => IsInjective(record'[tk][b])
    <3> DEFINE old == record[tk][b]
               new == record'[tk][b]
    <3>1. old \in Seq(Entries) /\ entry \in Entries /\ new = EntryAdded(old, entry)  BY <2>1
    <3> HIDE DEF old, new
    <3>2. Range(new) = Range(old) \union {entry} /\ (IsInjective(old) => IsInjective(new))
      BY <3>1, EntryAddedIs
    <3> QED  BY <3>2 DEF old, new
  <2>4. RecordsInv'
    <3> SUFFICES ASSUME NEW k \in Tokens, NEW c \in 0 .. RecordSize - 1
                 PROVE  /\ IsInjective(record'[k][c])
                        /\ \A i \in DOMAIN record'[k][c] : BucketIndex(record'[k][c][i]) = c
      BY DEF RecordsInv
    <3>1. CASE k = tk /\ c = b
      <4>1. IsInjective(record'[tk][b])  BY <2>1, <2>3 DEF RecordsInv
      <4>2. \A e \in Range(record[tk][b]) : BucketIndex(e) = b  BY <2>1 DEF RecordsInv, Range
      <4>3. \A e \in Range(record'[tk][b]) : BucketIndex(e) = b  BY <2>3, <4>2
      <4>4. \A i \in DOMAIN record'[tk][b] : record'[tk][b][i] \in Range(record'[tk][b])
        BY DEF Range
      <4> HIDE DEF b
      <4> QED  BY <3>1, <4>1, <4>3, <4>4
    <3>2. CASE ~(k = tk /\ c = b)
      <4>1. record'[k][c] = record[k][c]  BY <2>1, <3>2
      <4> QED  BY <4>1 DEF RecordsInv
    <3> QED  BY <3>1, <3>2
  <2>5. \A k \in Tokens : InBuckets(record[k]) \subseteq InBuckets(record'[k])
    <3> SUFFICES ASSUME NEW k \in Tokens, NEW e \in InBuckets(record[k])
                 PROVE  e \in InBuckets(record'[k])
      OBVIOUS
    <3>1. PICK c \in 0 .. RecordSize - 1 : e \in Range(record[k][c])  BY <2>1 DEF InBuckets
    <3>2. (k = tk /\ c = b) \/ record'[k][c] = record[k][c]  BY <2>1
    <3>3. e \in Range(record'[k][c])  BY <2>3, <3>1, <3>2
    <3>4. c \in DOMAIN record'[k]  BY <2>1
    <3> QED  BY <3>3, <3>4 DEF InBuckets
  <2>6. entry \in InBuckets(record'[tk])  BY <2>1, <2>3 DEF InBuckets
  <2>7. place' = [place EXCEPT ![w] = place[w] + 1]  BY <1>1 DEF AddIfNotPresent
  <2>8. IndexedStays'
    <3>1. \A k \in Tokens : Records[k] \subseteq InBuckets(record'[k])
      BY <2>5 DEF IndexedStays
    <3>2. ASSUME NEW v \in Writers, NEW i \in 1 .. place'[v] - 1
          PROVE  File[v][i].entry \in InBuckets(record'[File[v][i].token])
      <4>1. CASE v = w /\ i = place[w]
        <5> QED  BY <2>2, <2>6, <4>1
      <4>2. CASE ~(v = w /\ i = place[w])
        <5>1. i \in 1 .. place[v] - 1
          <6>1. place[v] \in Nat /\ place'[v] = IF v = w THEN place[v] + 1 ELSE place[v]
            BY <2>7 DEF TypesInv
          <6> QED  BY <4>2, <6>1
        <5>2. File[v][i].entry \in InBuckets(record[File[v][i].token])
          BY <5>1 DEF IndexedStays
        <5>3. File[v][i].token \in Tokens
          <6> DEFINE S == [token : Tokens, entry : Entries]
          <6>1. File[v] \in Seq(S)  BY EntriesAssumption
          <6>2. place[v] <= Len(File[v]) + 1 /\ place[v] \in Nat  BY DEF TypesInv
          <6>3. File[v][i] \in S
            <7> HIDE DEF S
            <7> QED  BY <5>1, <6>1, <6>2
          <6> QED  BY <6>3
        <5> QED  BY <2>5, <5>2, <5>3
      <4> QED  BY <4>1, <4>2
    <3> QED  BY <3>1, <3>2 DEF IndexedStays
  <2> QED  BY <2>4, <2>8
<1>2. ASSUME SkipFile(w) \/ OpenFile(w) \/ StartInsert(w)  PROVE RecordsInv' /\ IndexedStays'
  <2>1. UNCHANGED <<record, place>>  BY <1>2 DEF SkipFile, OpenFile, StartInsert
  <2> QED  BY <2>1 DEF RecordsInv, IndexedStays
<1> QED  BY <1>1, <1>2 DEF WriterStep

LEMMA RecordsUnchanged ==
  ASSUME RecordsInv, IndexedStays, UNCHANGED <<record, place>>
  PROVE  RecordsInv' /\ IndexedStays'
BY DEF RecordsInv, IndexedStays

-----------------------------------------------------------------------------
(* The loops                                                                *)

\* One more entry counts once, for its document.
LEMMA OneMoreHit ==
  ASSUME NEW S, IsFiniteSet(S), NEW e, e \notin S, NEW d
  PROVE  HitsOf(d, S \union {e}) = HitsOf(d, S) + (IF e[1] = d THEN 1 ELSE 0)
<1> DEFINE H == {x \in S : x[1] = d}
           G == {x \in S \union {e} : x[1] = d}
<1>1. H \in SUBSET S  OBVIOUS
<1>2. IsFiniteSet(H) /\ Cardinality(H) \in Nat  BY <1>1, FS_Subset, FS_CardinalityType
<1>3. HitsOf(d, S) = Cardinality(H) /\ HitsOf(d, S \union {e}) = Cardinality(G)  BY DEF HitsOf
<1>4. CASE e[1] = d
  <2>1. G = H \union {e} /\ e \notin H  BY <1>4
  <2> HIDE DEF H, G
  <2>2. Cardinality(G) = Cardinality(H) + 1  BY <1>2, <2>1, FS_AddElement
  <2> QED  BY <1>3, <1>4, <2>2
<1>5. CASE e[1] # d
  <2>1. G = H  BY <1>5
  <2> HIDE DEF H, G
  <2> QED  BY <1>2, <1>3, <1>5, <2>1
<1> QED  BY <1>4, <1>5

\* What is appended to a sequence is in it, and nothing else is new.
LEMMA Appended ==
  ASSUME NEW S, NEW seq \in Seq(S), NEW e \in S
  PROVE  /\ Range(Append(seq, e)) = Range(seq) \union {e}
         /\ IsInjective(seq) /\ e \notin Range(seq) => IsInjective(Append(seq, e))
<1> DEFINE new == Append(seq, e)
           last == Len(seq) + 1
<1>1. /\ DOMAIN seq = 1 .. Len(seq) /\ Len(seq) \in Nat /\ DOMAIN new = 1 .. last
      /\ new[last] = e /\ \A i \in 1 .. Len(seq) : new[i] = seq[i]
  OBVIOUS
<1>2. DOMAIN new = DOMAIN seq \union {last} /\ last \notin DOMAIN seq  BY <1>1
<1> HIDE DEF new, last
<1>3. Range(new) = Range(seq) \union {e}
  <2>1. ASSUME NEW x \in Range(new)  PROVE x \in Range(seq) \union {e}
    <3>1. PICK i \in DOMAIN new : new[i] = x  BY DEF Range
    <3> QED  BY <1>1, <1>2, <3>1 DEF Range
  <2>2. ASSUME NEW x \in Range(seq)  PROVE x \in Range(new)
    <3>1. PICK i \in DOMAIN seq : seq[i] = x  BY DEF Range
    <3>2. i \in DOMAIN new /\ new[i] = x  BY <1>1, <1>2, <3>1
    <3> QED  BY <3>2 DEF Range
  <2>3. e \in Range(new)
    <3>1. last \in DOMAIN new  BY <1>2
    <3> QED  BY <1>1, <3>1 DEF Range
  <2> QED  BY <2>1, <2>2, <2>3
<1>4. ASSUME IsInjective(seq), e \notin Range(seq)  PROVE IsInjective(new)
  <2> SUFFICES ASSUME NEW i \in DOMAIN new, NEW j \in DOMAIN new, new[i] = new[j]  PROVE i = j
    BY DEF IsInjective
  <2>1. \A k \in DOMAIN seq : new[k] = seq[k] /\ seq[k] # e  BY <1>1, <1>4 DEF Range
  <2> QED  BY <1>1, <1>2, <1>4, <2>1 DEF IsInjective
<1> QED  BY <1>3, <1>4 DEF new

\* What a search does leaves the loops of the others as they are.
LEMMA OtherLoops ==
  ASSUME LoopsInv, NEW r \in Searches,
         spc'[r] = spc[r], iter'[r] = iter[r], seen'[r] = seen[r], hist'[r] = hist[r],
         final'[r] = final[r],
         record'[TokenOf[r]] = record[TokenOf[r]] \/ spc[r] # "iterate"
  PROVE  LoopRight(r, spc'[r], iter'[r], seen'[r], hist'[r], final'[r], record'[TokenOf[r]])
<1>1. LoopRight(r, spc[r], iter[r], seen[r], hist[r], final[r], record[TokenOf[r]])
  BY DEF LoopsInv
<1> QED  BY <1>1 DEF LoopRight

\* An insert happens while no loop runs through its record.
LEMMA WriterLoops ==
  ASSUME TypesInv, LoopsInv, NEW w \in Writers, WriterStep(w)
  PROVE  LoopsInv'
<1>1. UNCHANGED <<spc, iter, seen, hist, final>>
  BY DEF WriterStep, SkipFile, OpenFile, StartInsert, AddIfNotPresent
<1> SUFFICES ASSUME NEW r \in Searches
             PROVE  record'[TokenOf[r]] = record[TokenOf[r]] \/ spc[r] # "iterate"
  BY <1>1, OtherLoops DEF LoopsInv
<1>2. CASE AddIfNotPresent(w)
  <2> DEFINE tk == NextInsert(w).token
  <2>1. \A k \in Tokens : k # tk => record'[k] = record[k]  BY <1>2, InsertIs
  <2>2. TokenOf[r] = tk => spc[r] # "iterate"  BY <1>2 DEF AddIfNotPresent, RecordFree
  <2>3. TokenOf[r] \in Tokens  BY SearchesAssumption
  <2> HIDE DEF tk
  <2> QED  BY <2>1, <2>2, <2>3
<1>3. CASE SkipFile(w) \/ OpenFile(w) \/ StartInsert(w)
  BY <1>3 DEF SkipFile, OpenFile, StartInsert
<1> QED  BY <1>2, <1>3 DEF WriterStep

\* A loop that visits one more entry has that one behind it as well.
LEMMA VisitLoop ==
  ASSUME LoopInv, NEW s \in Searches, Visit(s)
  PROVE  LoopRight(s, spc'[s], iter'[s], seen'[s], hist'[s], final'[s], record'[TokenOf[s]])
<1> USE DEF LoopInv
<1> DEFINE buffer == record[TokenOf[s]]
           e == Entry(buffer, iter[s])
           new == Incremented(buffer, iter[s])
<1>1. spc[s] = "iterate" /\ Differs(iter[s], EndOf(buffer))  BY DEF Visit, RecordOf
<1>2. /\ e \in Entries /\ e[1] \in Docs /\ e \notin seen[s]
      /\ AtPlace(buffer, new) /\ Visited(buffer, new) = seen[s] \union {e}
  BY <1>1, IteratorIs
<1>3. /\ seen' = [seen EXCEPT ![s] = seen[s] \union {e}]
      /\ iter' = [iter EXCEPT ![s] = new]
      /\ IF s \in Tasks
         THEN hist' = [hist EXCEPT ![s][e[1]] = hist[s][e[1]] + 1] /\ UNCHANGED final
         ELSE /\ final' = IF s \notin Listers /\ e[1] \in Unreadable THEN final
                          ELSE [final EXCEPT ![s] = Append(final[s], e)]
              /\ UNCHANGED hist
      /\ UNCHANGED <<record, spc>>
  BY DEF Visit, RecordOf
<1> HIDE DEF e, new
<1>4. seen'[s] = seen[s] \union {e} /\ iter'[s] = new /\ spc'[s] = "iterate"
      /\ record'[TokenOf[s]] = buffer
  BY <1>1, <1>3 DEF TypesInv
<1>5. /\ IsFiniteSet(seen[s])
      /\ s \in Tasks => hist[s] = [d \in Docs |-> HitsOf(d, seen[s])]
      /\ s \notin Tasks =>
           /\ IsInjective(final[s])
           /\ Range(final[s]) = {x \in seen[s] : s \in Listers \/ x[1] \notin Unreadable}
  BY DEF LoopsInv, LoopRight
<1>6. IsFiniteSet(seen'[s])  BY <1>4, <1>5, FS_AddElement
<1>7. ASSUME s \in Tasks  PROVE hist'[s] = [d \in Docs |-> HitsOf(d, seen'[s])]
  <2>1. hist'[s] = [hist[s] EXCEPT ![e[1]] = hist[s][e[1]] + 1]  BY <1>3, <1>7 DEF TypesInv
  <2>2. hist[s] = [d \in Docs |-> HitsOf(d, seen[s])]  BY <1>5, <1>7
  <2>3. ASSUME NEW d \in Docs  PROVE hist'[s][d] = HitsOf(d, seen'[s])
    <3>1. HitsOf(d, seen'[s]) = HitsOf(d, seen[s]) + (IF e[1] = d THEN 1 ELSE 0)
      BY <1>2, <1>4, <1>5, OneMoreHit
    <3>2. hist[s][d] = HitsOf(d, seen[s]) /\ hist[s][d] \in Nat
      <4>1. hist[s] \in [Docs -> Nat]  BY DEF TypesInv
      <4> QED  BY <2>2, <4>1
    <3>3. hist'[s][d] = IF d = e[1] THEN hist[s][d] + 1 ELSE hist[s][d]
      <4>1. hist[s] \in [Docs -> Nat]  BY DEF TypesInv
      <4> QED  BY <1>2, <2>1, <4>1
    <3> QED  BY <3>1, <3>2, <3>3
  <2>4. hist'[s] = [d \in Docs |-> hist'[s][d]]
    <3>1. hist[s] \in [Docs -> Nat]  BY DEF TypesInv
    <3>2. DOMAIN hist'[s] = Docs  BY <2>1, <3>1
    <3>3. hist'[s] = [d \in DOMAIN hist'[s] |-> hist'[s][d]]  BY <2>1
    <3> QED  BY <3>2, <3>3
  <2> QED  BY <2>3, <2>4
<1>8. ASSUME s \notin Tasks
      PROVE  /\ IsInjective(final'[s])
             /\ Range(final'[s]) = {x \in seen'[s] : s \in Listers \/ x[1] \notin Unreadable}
  <2>1. CASE s \notin Listers /\ e[1] \in Unreadable
    <3>1. final'[s] = final[s]  BY <1>3, <1>8, <2>1
    <3> QED  BY <1>4, <1>5, <1>8, <2>1, <3>1
  <2>2. CASE ~(s \notin Listers /\ e[1] \in Unreadable)
    <3>1. final[s] \in Seq(Entries) /\ DOMAIN final = Searches  BY DEF TypesInv
    <3>2. final'[s] = Append(final[s], e)  BY <1>3, <1>8, <2>2, <3>1
    <3>3. e \notin Range(final[s])  BY <1>2, <1>5, <1>8
    <3>4. Range(final'[s]) = Range(final[s]) \union {e} /\ IsInjective(final'[s])
      BY <1>2, <1>5, <1>8, <3>1, <3>2, <3>3, Appended
    <3> QED  BY <1>4, <1>5, <1>8, <2>2, <3>4
  <2> QED  BY <2>1, <2>2
<1> QED  BY <1>2, <1>4, <1>6, <1>7, <1>8 DEF LoopRight

\* A task reads its record to the end.
LEMMA LeaveLoop ==
  ASSUME LoopInv, NEW s \in Searches, Leave(s)
  PROVE  LoopRight(s, spc'[s], iter'[s], seen'[s], hist'[s], final'[s], record'[TokenOf[s]])
<1> USE DEF LoopInv
<1> DEFINE buffer == record[TokenOf[s]]
<1>1. spc[s] = "iterate" /\ (Enough(s) \/ ~Differs(iter[s], EndOf(buffer)))
  BY DEF Leave, RecordOf
<1>2. /\ spc'[s] \in {"rank", "done"} /\ UNCHANGED <<record, hist, final, seen>>
  BY DEF Leave, TypesInv
<1>3. ASSUME s \in Tasks  PROVE Records[TokenOf[s]] \subseteq seen[s]
  <2>1. ~Enough(s)  BY <1>3, SearchesAssumption DEF Enough
  <2>2. iter[s].crawl = End  BY <1>1, <2>1, IteratorIs
  <2>3. seen[s] = InBuckets(buffer)  BY <1>1, <2>2, IteratorIs DEF Visited
  <2>4. TokenOf[s] \in Tokens  BY SearchesAssumption
  <2> QED  BY <2>3, <2>4 DEF IndexedStays
<1> QED  BY <1>1, <1>2, <1>3 DEF LoopsInv, LoopRight

\* The steps of the searches keep the loops right.
LEMMA SearchLoops ==
  ASSUME LoopInv, NEW s \in Searches, SearchStep(s)
  PROVE  LoopsInv'
<1> USE DEF LoopInv
<1> DEFINE Mine ==
             LoopRight(s, spc'[s], iter'[s], seen'[s], hist'[s], final'[s], record'[TokenOf[s]])
<1>1. /\ \A r \in Searches \ {s} : /\ spc'[r] = spc[r] /\ iter'[r] = iter[r] /\ seen'[r] = seen[r]
                                   /\ hist'[r] = hist[r] /\ final'[r] = final[r]
      /\ record' = record
  <2>1. CASE Search(s) \/ EndTask(s) \/ \E d \in todo[s] : RankDocs(s, d)
    BY <2>1 DEF Search, EndTask, RankDocs, TypesInv
  <2>2. CASE Iterate(s) \/ Leave(s)
    BY <2>2 DEF Iterate, Leave, TypesInv
  <2>3. CASE Visit(s)
    <3> DEFINE e == Entry(record[TokenOf[s]], iter[s])
    <3>1. /\ seen' = [seen EXCEPT ![s] = seen[s] \union {e}]
          /\ iter' = [iter EXCEPT ![s] = Incremented(record[TokenOf[s]], iter[s])]
          /\ hist' = hist \/ hist' = [hist EXCEPT ![s][e[1]] = hist[s][e[1]] + 1]
          /\ final' = final \/ final' = [final EXCEPT ![s] = Append(final[s], e)]
          /\ UNCHANGED <<record, spc>>
      BY <2>3 DEF Visit, RecordOf
    <3> HIDE DEF e
    <3> QED  BY <3>1 DEF TypesInv
  <2> QED  BY <2>1, <2>2, <2>3 DEF SearchStep
<1>2. Mine
  <2>0. LoopRight(s, spc[s], iter[s], seen[s], hist[s], final[s], record[TokenOf[s]])
    BY DEF LoopsInv
  <2>t. TokenOf[s] \in Tokens  BY SearchesAssumption
  <2>1. CASE Search(s)
    <3>1. spc[s] = "search" /\ UNCHANGED <<record, iter, hist, final, seen>>
          /\ spc'[s] = IF InBuckets(record[TokenOf[s]]) = {} THEN "done" ELSE "lock"
      BY <2>1 DEF Search, RecordOf, TypesInv
    <3>2. spc'[s] = "done" => Records[TokenOf[s]] = {}
      BY <2>t, <3>1 DEF IndexedStays
    <3>3. spc'[s] \in {"done", "lock"} /\ seen[s] = {}  BY <2>0, <3>1 DEF LoopRight
    <3> QED  BY <2>0, <3>1, <3>2, <3>3 DEF LoopRight
  <2>2. CASE Iterate(s)
    <3>1. spc[s] = "lock" /\ spc'[s] = "iterate" /\ UNCHANGED <<record, hist, final, seen>>
          /\ iter'[s] = Begin(record[TokenOf[s]])
      BY <2>2 DEF Iterate, RecordOf, TypesInv
    <3>2. record[TokenOf[s]] \in Buffers  BY <2>t DEF TypesInv
    <3>3. AtPlace(record[TokenOf[s]], iter'[s]) /\ Visited(record[TokenOf[s]], iter'[s]) = {}
      BY <3>1, <3>2, BeginRight
    <3>4. seen[s] = {}  BY <2>0, <3>1 DEF LoopRight
    <3> QED  BY <2>0, <3>1, <3>3, <3>4 DEF LoopRight
  <2>3. CASE Visit(s)  BY <2>3, VisitLoop
  <2>4. CASE Leave(s)  BY <2>4, LeaveLoop
  <2>5. CASE EndTask(s)
    <3>1. spc[s] = "rank" /\ spc'[s] = "done" /\ UNCHANGED <<record, iter, hist, final, seen>>
      BY <2>5 DEF EndTask, TypesInv
    <3> QED  BY <2>0, <3>1 DEF LoopRight
  <2>6. CASE \E d \in todo[s] : RankDocs(s, d)
    <3>1. UNCHANGED <<record, spc, iter, hist, final, seen>>
      BY <2>6 DEF RankDocs
    <3> QED  BY <2>0, <3>1
  <2> QED  BY <2>1, <2>2, <2>3, <2>4, <2>5, <2>6 DEF SearchStep
<1> HIDE DEF Mine
<1>3. ASSUME NEW r \in Searches
      PROVE  LoopRight(r, spc'[r], iter'[r], seen'[r], hist'[r], final'[r], record'[TokenOf[r]])
  <2>1. CASE r = s  BY <1>2, <2>1 DEF Mine
  <2>2. CASE r # s  BY <1>1, <2>2, OtherLoops
  <2> QED  BY <2>1, <2>2
<1> QED  BY <1>3 DEF LoopsInv

-----------------------------------------------------------------------------
(* The ranks                                                                *)

LEMMA TasksFinite == IsFiniteSet(Tasks) /\ Tasks \subseteq Searches
<1>1. IsFiniteSet(Searches) /\ Tasks \in SUBSET Searches  BY SearchesAssumption
<1> QED  BY <1>1, FS_Subset

\* A part is what a task has found, once it has added it.
LEMMA PartsType ==
  ASSUME TypesInv, NEW d \in Docs
  PROVE  /\ Parts[d] \in [Tasks -> Nat]
         /\ \A t \in Tasks : Parts[d][t] =
              IF spc[t] \in {"rank", "done"} /\ d \notin todo[t] THEN hist[t][d] ELSE 0
<1>1. \A t \in Tasks : hist[t][d] \in Nat  BY TasksFinite DEF TypesInv
<1> QED  BY <1>1 DEF Parts

\* What a task has still to rank is what it has found.
LEMMA SearchTodo ==
  ASSUME TypesInv, TodoInv, NEW s \in Searches, SearchStep(s)
  PROVE  TodoInv'
<1>1. ASSUME Search(s)  PROVE TodoInv'
  BY <1>1 DEF Search, TypesInv, TodoInv
<1>2. ASSUME Iterate(s)  PROVE TodoInv'
  BY <1>2 DEF Iterate, TypesInv, TodoInv
<1>3. ASSUME Visit(s)  PROVE TodoInv'
  <2> DEFINE e == Entry(record[TokenOf[s]], iter[s])
  <2>1. /\ hist' = hist \/ hist' = [hist EXCEPT ![s][e[1]] = hist[s][e[1]] + 1]
        /\ UNCHANGED <<spc, todo>> /\ spc[s] = "iterate"
    BY <1>3 DEF Visit, RecordOf
  <2> HIDE DEF e
  <2>2. todo[s] = {} /\ \A r \in Searches \ {s} : hist'[r] = hist[r]  BY <2>1 DEF TypesInv, TodoInv
  <2> QED  BY <2>1, <2>2 DEF TodoInv
<1>4. ASSUME Leave(s)  PROVE TodoInv'
  <2>1. UNCHANGED hist /\ spc[s] = "iterate"
        /\ \A r \in Searches \ {s} : spc'[r] = spc[r] /\ todo'[r] = todo[r]
    BY <1>4 DEF Leave, TypesInv
  <2>2. CASE s \in Tasks
    <3>1. spc'[s] = "rank" /\ todo'[s] = {d \in Docs : hist[s][d] > 0}
      BY <1>4, <2>2 DEF Leave, TypesInv
    <3> QED  BY <2>1, <2>2, <3>1 DEF TodoInv
  <2>3. CASE s \notin Tasks
    <3>1. spc'[s] = "done" /\ todo'[s] = todo[s]  BY <1>4, <2>3 DEF Leave, TypesInv
    <3> QED  BY <2>1, <3>1 DEF TodoInv
  <2> QED  BY <2>2, <2>3
<1>5. ASSUME EndTask(s)  PROVE TodoInv'
  BY <1>5 DEF EndTask, TypesInv, TodoInv
<1>6. ASSUME NEW d \in todo[s], RankDocs(s, d)  PROVE TodoInv'
  <2>1. UNCHANGED <<spc, hist>> /\ todo' = [todo EXCEPT ![s] = todo[s] \ {d}] /\ spc[s] = "rank"
    BY <1>6 DEF RankDocs
  <2> QED  BY <2>1 DEF TypesInv, TodoInv
<1> QED  BY <1>1, <1>2, <1>3, <1>4, <1>5, <1>6 DEF SearchStep

\* Only rankDocs changes what a task has added to a rank.
LEMMA PartsKept ==
  ASSUME LoopInv, NEW s \in Searches,
         Search(s) \/ Iterate(s) \/ Visit(s) \/ Leave(s) \/ EndTask(s)
  PROVE  Parts' = Parts
<1> USE DEF LoopInv
<1> SUFFICES ASSUME NEW d \in Docs, NEW t \in Tasks
             PROVE  (IF spc'[t] \in {"rank", "done"} /\ d \notin todo'[t] THEN hist'[t][d] ELSE 0)
                    = (IF spc[t] \in {"rank", "done"} /\ d \notin todo[t] THEN hist[t][d] ELSE 0)
  BY DEF Parts
<1>t. t \in Searches /\ hist[t] \in [Docs -> Nat]  BY TasksFinite DEF TypesInv
<1>1. CASE Search(s)
  <2>1. UNCHANGED <<hist, todo>> /\ spc[s] = "search" /\ \A r \in Searches \ {s} : spc'[r] = spc[r]
    BY <1>1 DEF Search, TypesInv
  <2>2. CASE t = s
    <3>1. seen[s] = {} /\ hist[s] = [x \in Docs |-> HitsOf(x, seen[s])]
      BY <2>1, <2>2 DEF LoopsInv, LoopRight
    <3>2. HitsOf(d, {}) = 0
      <4>1. {e \in {} : e[1] = d} = {}  OBVIOUS
      <4> QED  BY <4>1, FS_EmptySet DEF HitsOf
    <3>3. hist[t][d] = 0  BY <2>2, <3>1, <3>2
    <3> QED  BY <2>1, <3>3
  <2>3. CASE t # s  BY <1>t, <2>1, <2>3
  <2> QED  BY <2>2, <2>3
<1>2. CASE Iterate(s)
  <2>1. UNCHANGED <<hist, todo>> /\ spc[s] = "lock" /\ spc'[s] = "iterate"
        /\ \A r \in Searches \ {s} : spc'[r] = spc[r]
    BY <1>2 DEF Iterate, TypesInv
  <2> QED  BY <1>t, <2>1
<1>3. CASE Visit(s)
  <2> DEFINE e == Entry(record[TokenOf[s]], iter[s])
  <2>1. /\ hist' = hist \/ hist' = [hist EXCEPT ![s][e[1]] = hist[s][e[1]] + 1]
        /\ UNCHANGED <<spc, todo>> /\ spc[s] = "iterate"
    BY <1>3 DEF Visit, RecordOf
  <2> HIDE DEF e
  <2>2. \A r \in Searches \ {s} : hist'[r] = hist[r]  BY <2>1 DEF TypesInv
  <2> QED  BY <1>t, <2>1, <2>2
<1>4. CASE Leave(s)
  <2>1. UNCHANGED hist /\ spc[s] = "iterate"
        /\ \A r \in Searches \ {s} : spc'[r] = spc[r] /\ todo'[r] = todo[r]
    BY <1>4 DEF Leave, TypesInv
  <2>2. CASE t = s
    <3>1. spc'[s] = "rank" /\ todo'[s] = {x \in Docs : hist[s][x] > 0}
      BY <1>4, <2>2 DEF Leave, TypesInv
    <3>2. d \notin todo'[s] => hist[s][d] = 0  BY <1>t, <2>2, <3>1
    <3> QED  BY <2>1, <2>2, <3>1, <3>2
  <2>3. CASE t # s  BY <1>t, <2>1, <2>3
  <2> QED  BY <2>2, <2>3
<1>5. CASE EndTask(s)
  <2>1. UNCHANGED <<hist, todo>> /\ spc[s] = "rank" /\ spc'[s] = "done"
        /\ \A r \in Searches \ {s} : spc'[r] = spc[r]
    BY <1>5 DEF EndTask, TypesInv
  <2> QED  BY <1>t, <2>1
<1> QED  BY <1>1, <1>2, <1>3, <1>4, <1>5

\* RankDocs adds the whole of what its task has found, and nothing for another document.
LEMMA RankDocsAdds ==
  ASSUME LoopInv, NEW s \in Searches, NEW doc \in todo[s], RankDocs(s, doc)
  PROVE  /\ \A d \in Docs \ {doc} : Parts'[d] = Parts[d]
         /\ SumFunction(Parts'[doc]) = SumFunction(Parts[doc]) + hist[s][doc]
         /\ SumFunction(Parts[doc]) \in Nat /\ hist[s][doc] \in Nat /\ hist[s][doc] > 0
<1> USE DEF LoopInv
<1>1. s \in Tasks /\ spc[s] = "rank" /\ hist[s][doc] > 0 /\ doc \in Docs
  BY DEF RankDocs, TodoInv, TypesInv
<1>2. UNCHANGED <<spc, hist>> /\ todo' = [todo EXCEPT ![s] = todo[s] \ {doc}]
  BY DEF RankDocs
<1>3. \A r \in Searches : \A d \in Docs : d \in todo'[r] <=> (d \in todo[r] /\ ~(r = s /\ d = doc))
  BY <1>2 DEF TypesInv
<1>4. TypesInv'
  <2>1. SearchStep(s)  BY DEF SearchStep
  <2> QED  BY <2>1, SearchTypes
<1>5. \A d \in Docs : \A t \in Tasks :
        Parts'[d][t] = IF spc[t] \in {"rank", "done"} /\ ~(d \in todo[t] /\ ~(t = s /\ d = doc))
                       THEN hist[t][d] ELSE 0
  <2> SUFFICES ASSUME NEW d \in Docs, NEW t \in Tasks
               PROVE  Parts'[d][t] = IF spc[t] \in {"rank", "done"}
                                        /\ ~(d \in todo[t] /\ ~(t = s /\ d = doc))
                                     THEN hist[t][d] ELSE 0
    OBVIOUS
  <2>1. Parts'[d][t] = IF spc'[t] \in {"rank", "done"} /\ d \notin todo'[t] THEN hist'[t][d] ELSE 0
    BY DEF Parts
  <2>2. t \in Searches  BY TasksFinite
  <2> QED  BY <1>2, <1>3, <2>1, <2>2
<1>6. \A d \in Docs : DOMAIN Parts[d] = Tasks /\ DOMAIN Parts'[d] = Tasks
                      /\ Parts[d] = [t \in Tasks |-> Parts[d][t]]
                      /\ Parts'[d] = [t \in Tasks |-> Parts'[d][t]]
  BY DEF Parts
<1>7. \A d \in Docs : Parts[d] \in [Tasks -> Nat] /\ \A t \in Tasks : Parts[d][t] =
              IF spc[t] \in {"rank", "done"} /\ d \notin todo[t] THEN hist[t][d] ELSE 0
  BY PartsType
<1>8. ASSUME NEW d \in Docs \ {doc}  PROVE Parts'[d] = Parts[d]
  <2>1. \A t \in Tasks : Parts'[d][t] = Parts[d][t]  BY <1>5, <1>7
  <2> QED  BY <1>6, <2>1
<1> DEFINE g == Parts[doc]
           h == Parts'[doc]
<1>9. g[s] = 0 /\ h[s] = hist[s][doc]  BY <1>1, <1>5, <1>7
<1>10. \A t \in Tasks \ {s} : g[t] = h[t]  BY <1>1, <1>5, <1>7
<1>11. hist[s][doc] \in Nat  BY <1>1 DEF TypesInv
<1>12. g \in [Tasks -> Nat]  BY <1>1, <1>7
<1>13. h \in [Tasks -> Nat]
  <2>1. \A t \in Tasks : h[t] \in Nat
    <3>1. \A t \in Tasks : g[t] \in Nat  BY <1>12
    <3> QED  BY <1>9, <1>10, <1>11, <3>1
  <2> QED  BY <1>1, <1>6, <2>1
<1> HIDE DEF g, h
<1>14. SumFunction(h) = SumFunction(g) - g[s] + h[s]
  BY <1>1, <1>10, <1>12, <1>13, TasksFinite, SumChanges
<1>15. SumFunction(g) \in Nat  BY <1>12, TasksFinite, SumBounds
<1>16. SumFunction(h) = SumFunction(g) + hist[s][doc]  BY <1>9, <1>11, <1>14, <1>15
<1> QED  BY <1>1, <1>8, <1>11, <1>15, <1>16 DEF g, h

LEMMA RanksKept ==
  ASSUME RanksInv, Parts' = Parts, ranks' = ranks
  PROVE  RanksInv'
BY DEF RanksInv

\* What RankDocs leaves in the map is the new sum.
LEMMA RankDocsRanks ==
  ASSUME LoopInv, NEW s \in Searches, NEW doc \in todo[s], RankDocs(s, doc)
  PROVE  RanksInv'
<1> USE DEF LoopInv
<1> DEFINE n == hist[s][doc]
           b == DocHash[doc] % RanksSize
           bucket == ranks[b]
           new == RankAdded(bucket, doc, n)
<1>1. doc \in Docs /\ n \in Nat  BY DEF TypesInv
<1>2. ranks' = [ranks EXCEPT ![b] = new]  BY DEF RankDocs
<1>3. b \in 0 .. RanksSize - 1 /\ bucket \in Seq(Docs \X Nat) /\ UniqueDocs(bucket)
  BY <1>1, RanksUnique
<1>4. /\ \A d \in Docs \ {doc} : Parts'[d] = Parts[d]
      /\ SumFunction(Parts'[doc]) = SumFunction(Parts[doc]) + n
      /\ SumFunction(Parts[doc]) \in Nat /\ n > 0
  BY RankDocsAdds
<1> HIDE DEF n, b
<1>5. ranks'[b] = new /\ (\A c \in 0 .. RanksSize - 1 : c # b => ranks'[c] = ranks[c])
      /\ DOMAIN ranks' = 0 .. RanksSize - 1 /\ DOMAIN ranks = 0 .. RanksSize - 1
  BY <1>2, <1>3 DEF TypesInv
<1> HIDE DEF bucket, new
<1>6. /\ new \in Seq(Docs \X Nat)
      /\ UniqueDocs(new)
      /\ \A r \in Range(new) : r[1] # doc => r \in Range(bucket)
      /\ \A r \in Range(bucket) : r[1] # doc => r \in Range(new)
      /\ \E r \in Range(new) : r[1] = doc
      /\ \A r \in Range(new) : r[1] = doc =>
              \/ r[2] = n /\ \A o \in Range(bucket) : o[1] # doc
              \/ \E o \in Range(bucket) : o[1] = doc /\ r[2] = o[2] + n
  <2>1. new = RankAdded(bucket, doc, n)  BY DEF new
  <2>2. bucket \in Seq(Docs \X Nat) /\ UniqueDocs(bucket)  BY <1>3
  <2>3. RankGrows(bucket, doc, n, new)  BY <1>1, <2>1, <2>2, RankAddedIs
  <2> QED  BY <2>3, Zenon DEF RankGrows
<1>7. \A r \in Range(bucket) :
        DocHash[r[1]] % RanksSize = b /\ r[2] = SumFunction(Parts[r[1]]) /\ r[2] > 0
  BY <1>3 DEF RanksInv, bucket
<1>8. ASSUME NEW r \in Range(new)
      PROVE  DocHash[r[1]] % RanksSize = b /\ r[2] = SumFunction(Parts'[r[1]]) /\ r[2] > 0
  <2>1. r \in Docs \X Nat  BY <1>6 DEF Range
  <2>2. r[1] \in Docs  BY <2>1
  <2>3. CASE r[1] # doc
    <3>1. r \in Range(bucket)  BY <1>6, <2>3
    <3>2. Parts'[r[1]] = Parts[r[1]]  BY <1>4, <2>2, <2>3
    <3> QED  BY <1>7, <3>1, <3>2
  <2>4. CASE r[1] = doc
    <3>1. DocHash[r[1]] % RanksSize = b  BY <2>4 DEF b
    <3>2. CASE r[2] = n /\ \A o \in Range(bucket) : o[1] # doc
      <4>1. ~ \E o \in InBuckets(ranks) : o[1] = doc
        <5> SUFFICES ASSUME NEW o \in InBuckets(ranks), o[1] = doc  PROVE FALSE
          OBVIOUS
        <5>1. PICK c \in 0 .. RanksSize - 1 : o \in Range(ranks[c])  BY <1>5 DEF InBuckets
        <5>2. DocHash[o[1]] % RanksSize = c  BY <5>1 DEF RanksInv
        <5>3. c = b  BY <5>2 DEF b
        <5> QED  BY <3>2, <5>1, <5>3 DEF bucket
      <4>2. ~(SumFunction(Parts[doc]) > 0)  BY <1>1, <4>1 DEF RanksInv
      <4>3. SumFunction(Parts[doc]) = 0  BY <1>4, <4>2
      <4> QED  BY <1>1, <1>4, <2>4, <3>1, <3>2, <4>3
    <3>3. CASE \E o \in Range(bucket) : o[1] = doc /\ r[2] = o[2] + n
      <4>1. r[2] = SumFunction(Parts[doc]) + n  BY <1>7, <3>3
      <4> QED  BY <1>1, <1>4, <2>4, <3>1, <4>1
    <3> QED  BY <1>6, <2>4, <3>2, <3>3
  <2> QED  BY <2>3, <2>4
<1>9. ASSUME NEW c \in 0 .. RanksSize - 1
      PROVE  /\ UniqueDocs(ranks'[c])
             /\ \A r \in Range(ranks'[c]) :
                  DocHash[r[1]] % RanksSize = c /\ r[2] = SumFunction(Parts'[r[1]]) /\ r[2] > 0
  <2>1. CASE c = b  BY <1>5, <1>6, <1>8, <2>1
  <2>2. CASE c # b
    <3>1. ranks'[c] = ranks[c]  BY <1>5, <2>2
    <3>2. UniqueDocs(ranks[c])  BY DEF RanksInv
    <3>3. ASSUME NEW r \in Range(ranks[c])
          PROVE  DocHash[r[1]] % RanksSize = c /\ r[2] = SumFunction(Parts'[r[1]]) /\ r[2] > 0
      <4>1. DocHash[r[1]] % RanksSize = c /\ r[2] = SumFunction(Parts[r[1]]) /\ r[2] > 0
        BY DEF RanksInv
      <4>2. r[1] # doc  BY <2>2, <4>1 DEF b
      <4>3. r[1] \in Docs
        <5>1. ranks[c] \in Seq(Docs \X Nat)  BY DEF TypesInv
        <5>2. r \in Docs \X Nat  BY <5>1 DEF Range
        <5> QED  BY <5>2
      <4>4. Parts'[r[1]] = Parts[r[1]]  BY <1>4, <4>2, <4>3
      <4> QED  BY <4>1, <4>4
    <3> QED  BY <3>1, <3>2, <3>3
  <2> QED  BY <2>1, <2>2
<1>10. ASSUME NEW d \in Docs, SumFunction(Parts'[d]) > 0
       PROVE  \E r \in InBuckets(ranks') : r[1] = d
  <2>1. CASE d = doc
    <3>1. PICK r \in Range(new) : r[1] = doc  BY <1>6
    <3>2. r \in InBuckets(ranks')  BY <1>3, <1>5, <3>1 DEF InBuckets
    <3> QED  BY <2>1, <3>1, <3>2
  <2>2. CASE d # doc
    <3>1. Parts'[d] = Parts[d]  BY <1>4, <2>2
    <3>2. PICK r \in InBuckets(ranks) : r[1] = d  BY <1>10, <3>1 DEF RanksInv
    <3>3. PICK c \in 0 .. RanksSize - 1 : r \in Range(ranks[c])  BY <1>5, <3>2 DEF InBuckets
    <3>4. r \in Range(ranks'[c])
      <4>1. CASE c = b  BY <1>5, <1>6, <2>2, <3>2, <3>3, <4>1 DEF bucket
      <4>2. CASE c # b  BY <1>5, <3>3, <4>2
      <4> QED  BY <4>1, <4>2
    <3>5. r \in InBuckets(ranks')  BY <1>5, <3>4 DEF InBuckets
    <3> QED  BY <3>2, <3>5
  <2> QED  BY <2>1, <2>2
<1> QED  BY <1>9, <1>10 DEF RanksInv

\* The steps of the searches keep the ranks right.
LEMMA SearchRanks ==
  ASSUME LoopInv, NEW s \in Searches, SearchStep(s)
  PROVE  RanksInv'
<1>1. CASE Search(s) \/ Iterate(s) \/ Visit(s) \/ Leave(s) \/ EndTask(s)
  <2>1. Parts' = Parts  BY <1>1, PartsKept
  <2>2. ranks' = ranks  BY <1>1 DEF Search, Iterate, Visit, Leave, EndTask
  <2> QED  BY <2>1, <2>2, RanksKept DEF LoopInv
<1>2. CASE \E d \in todo[s] : RankDocs(s, d)  BY <1>2, RankDocsRanks
<1> QED  BY <1>1, <1>2 DEF SearchStep

-----------------------------------------------------------------------------
(* What searchQuery returns                                                 *)

\* 1 .. n has n elements.
LEMMA FirstNumbers ==
  ASSUME NEW n \in Nat
  PROVE  IsFiniteSet(1 .. n) /\ Cardinality(1 .. n) = n
BY FS_Interval

\* A sequence without repetition has as many places as elements.
LEMMA PlacesAreElements ==
  ASSUME NEW S, NEW seq \in Seq(S), IsInjective(seq)
  PROVE  IsFiniteSet(Range(seq)) /\ Cardinality(Range(seq)) = Len(seq) /\ Len(seq) \in Nat
<1>1. Len(seq) \in Nat /\ DOMAIN seq = 1 .. Len(seq)  OBVIOUS
<1>2. IsFiniteSet(1 .. Len(seq)) /\ Cardinality(1 .. Len(seq)) = Len(seq)  BY <1>1, FirstNumbers
<1>3. seq \in [1 .. Len(seq) -> Range(seq)]
  <2>1. \A i \in 1 .. Len(seq) : seq[i] \in Range(seq)  BY <1>1 DEF Range
  <2>2. seq \in [1 .. Len(seq) -> S]  OBVIOUS
  <2>3. seq = [i \in 1 .. Len(seq) |-> seq[i]]  BY <2>2
  <2> QED  BY <2>1, <2>3
<1>4. seq \in Bijection(1 .. Len(seq), Range(seq))
  BY <1>1, <1>3 DEF Bijection, Injection, Surjection, IsInjective, Range
<1>5. ExistsBijection(1 .. Len(seq), Range(seq))  BY <1>4 DEF ExistsBijection
<1> QED  BY <1>1, <1>2, <1>5, FS_Bijection

\* The snapshot has what the buckets have, each document once.
LEMMA SnapshotIs ==
  ASSUME TypesInv, RanksInv
  PROVE  /\ SnapshotDense \in Seq(Docs \X Nat)
         /\ Range(SnapshotDense) = InBuckets(ranks)
         /\ IsInjective(SnapshotDense) /\ UniqueDocs(SnapshotDense)
<1> DEFINE seqs == [b \in 1 .. RanksSize |-> ranks[b - 1]]
<1>1. RanksSize \in Nat \ {0}  BY Hashes
<1>2. ranks \in [0 .. RanksSize - 1 -> Seq(Docs \X Nat)]  BY DEF TypesInv
<1>3. \A b \in 1 .. RanksSize : b - 1 \in 0 .. RanksSize - 1 /\ seqs[b] = ranks[b - 1]  BY <1>1
<1>4. \A c \in 0 .. RanksSize - 1 : c + 1 \in 1 .. RanksSize /\ (c + 1) - 1 = c  BY <1>1
<1>5. seqs \in [1 .. RanksSize -> Seq(Docs \X Nat)]  BY <1>2, <1>3
<1>6. \A b \in 1 .. RanksSize : IsInjective(seqs[b])
  <2>1. \A c \in 0 .. RanksSize - 1 : IsInjective(ranks[c])
    BY DEF RanksInv, UniqueDocs, IsInjective
  <2> QED  BY <1>3, <2>1
<1>7. \A c \in 0 .. RanksSize - 1 : \A r \in Range(ranks[c]) : DocHash[r[1]] % RanksSize = c
  BY DEF RanksInv
<1>8. \A b, c \in 1 .. RanksSize : b # c => Range(seqs[b]) \cap Range(seqs[c]) = {}
  <2> SUFFICES ASSUME NEW b \in 1 .. RanksSize, NEW c \in 1 .. RanksSize,
                      NEW r, r \in Range(seqs[b]), r \in Range(seqs[c])
               PROVE  b = c
    OBVIOUS
  <2>1. DocHash[r[1]] % RanksSize = b - 1 /\ DocHash[r[1]] % RanksSize = c - 1  BY <1>3, <1>7
  <2>2. b - 1 = c - 1  BY <2>1
  <2> QED  BY <2>2
<1>9. SnapshotDense = FlattenSeq(seqs)  BY DEF SnapshotDense
<1> HIDE DEF seqs
<1>10. /\ SnapshotDense \in Seq(Docs \X Nat)
       /\ Range(SnapshotDense) = UNION {Range(seqs[b]) : b \in 1 .. RanksSize}
       /\ IsInjective(SnapshotDense)
  BY <1>1, <1>5, <1>6, <1>8, <1>9, Flattened
<1>11. Range(SnapshotDense) = InBuckets(ranks)
  <2>1. DOMAIN ranks = 0 .. RanksSize - 1  BY <1>2
  <2>2. UNION {Range(seqs[b]) : b \in 1 .. RanksSize} = InBuckets(ranks)
    <3>1. \A b \in 1 .. RanksSize : Range(seqs[b]) \subseteq InBuckets(ranks)
      BY <1>3, <2>1 DEF InBuckets
    <3>2. \A c \in 0 .. RanksSize - 1 : Range(ranks[c]) = Range(seqs[c + 1])  BY <1>3, <1>4
    <3>3. ASSUME NEW r \in InBuckets(ranks)
          PROVE  r \in UNION {Range(seqs[b]) : b \in 1 .. RanksSize}
      <4>1. PICK c \in 0 .. RanksSize - 1 : r \in Range(ranks[c])  BY <2>1 DEF InBuckets
      <4> QED  BY <1>4, <3>2, <4>1
    <3> QED  BY <3>1, <3>3
  <2> QED  BY <1>10, <2>2
<1>12. UniqueDocs(SnapshotDense)
  <2> DEFINE snap == SnapshotDense
  <2> SUFFICES ASSUME NEW i \in DOMAIN snap, NEW j \in DOMAIN snap, snap[i][1] = snap[j][1]
               PROVE  snap[i] = snap[j]
    BY <1>10 DEF UniqueDocs, IsInjective
  <2>1. snap[i] \in InBuckets(ranks) /\ snap[j] \in InBuckets(ranks)  BY <1>11 DEF Range
  <2>2. DOMAIN ranks = 0 .. RanksSize - 1  BY <1>2
  <2>3. PICK b \in 0 .. RanksSize - 1 : snap[i] \in Range(ranks[b])  BY <2>1, <2>2 DEF InBuckets
  <2>4. PICK c \in 0 .. RanksSize - 1 : snap[j] \in Range(ranks[c])  BY <2>1, <2>2 DEF InBuckets
  <2>5. b = c  BY <1>7, <2>3, <2>4
  <2>6. UniqueDocs(ranks[b])  BY DEF RanksInv
  <2> HIDE DEF snap
  <2> QED  BY <2>3, <2>4, <2>5, <2>6 DEF UniqueDocs, Range
<1> QED  BY <1>10, <1>11, <1>12

\* What is in front after a partial sort.
LEMMA PartialSortsAre ==
  ASSUME NEW S, NEW rest \in Seq(S), IsInjective(rest), NEW n \in 0 .. Len(rest),
         NEW top \in PartialSorts(rest, n)
  PROVE  /\ top \in Seq(S) /\ Len(top) = n /\ DOMAIN top = 1 .. n
         /\ IsInjective(top) /\ Range(top) \subseteq Range(rest)
         /\ Sorted(top)
         /\ \A r \in Range(rest) \ Range(top) : \A i \in DOMAIN top : ~Before(r, top[i])
<1> DEFINE R == Range(rest)
<1>1. IsFiniteSet(R) /\ Cardinality(R) = Len(rest) /\ Len(rest) \in Nat  BY PlacesAreElements
<1>2. R \subseteq S
  <2>1. \A i \in DOMAIN rest : rest[i] \in S  OBVIOUS
  <2> QED  BY <2>1 DEF Range
<1>3. PICK p \in SetToSeqs(R) : top = SubSeq(p, 1, n)  BY DEF PartialSorts
<1>4. /\ Sorted(top)
      /\ \A r \in R \ Range(top) : \A i \in DOMAIN top : ~Before(r, top[i])
  BY DEF PartialSorts
<1> HIDE DEF R
<1>5. p \in [1 .. Len(rest) -> R] /\ \A i, j \in 1 .. Len(rest) : i # j => p[i] # p[j]
  BY <1>1, <1>3 DEF SetToSeqs
<1>6. p \in Seq(S)  BY <1>1, <1>2, <1>5
<1>7. Len(p) = Len(rest)  BY <1>1, <1>5
<1>8. top \in Seq(S) /\ Len(top) = n /\ DOMAIN top = 1 .. n /\ \A i \in 1 .. n : top[i] = p[i]
  <2>1. n \in Nat /\ n <= Len(rest)  BY <1>1
  <2>2. /\ Len(SubSeq(p, 1, n)) = n
        /\ \A i \in 1 .. n : SubSeq(p, 1, n)[i] = p[i]
    BY <1>6, <1>7, <2>1
  <2>3. SubSeq(p, 1, n) \in Seq(S)  BY <1>6, <1>7, <2>1
  <2> QED  BY <1>3, <2>2, <2>3
<1>9. \A i \in 1 .. n : i \in 1 .. Len(rest)  BY <1>1
<1>10. IsInjective(top)  BY <1>5, <1>8, <1>9 DEF IsInjective
<1>11. Range(top) \subseteq R  BY <1>5, <1>8, <1>9 DEF Range
<1> QED  BY <1>4, <1>8, <1>10, <1>11 DEF R

\* TopX is the length of the snapshot or what the query may return.
LEMMA TopXIs ==
  ASSUME TypesInv, RanksInv
  PROVE  /\ TopX \in 0 .. Len(SnapshotDense) /\ Len(SnapshotDense) \in Nat
         /\ TopX = Len(SnapshotDense) \/ TopX = Ranked
         /\ Ranked \in Nat /\ Ranked >= 1
<1>1. Len(SnapshotDense) \in Nat  BY SnapshotIs
<1>2. Ranked \in Nat /\ Ranked >= 1  BY SizesAssumption
<1> QED  BY <1>1, <1>2 DEF TopX

\* A result stays right while the map does not change,
LEMMA ResultKept ==
  ASSUME TypesInv, TodoInv, ResultInv, UNCHANGED <<ranks, result>>,
         \A t \in Tasks : spc[t] = "done" => spc'[t] = "done"
  PROVE  ResultInv'
<1>1. AllReady => AllReady'  BY DEF AllReady
<1>2. SnapshotDense' = SnapshotDense  BY DEF SnapshotDense
<1>3. TopX' = TopX  BY <1>2 DEF TopX
<1> QED  BY <1>1, <1>2, <1>3 DEF ResultInv

\* and the map changes only before the last task is through.
LEMMA SearchResult ==
  ASSUME TypesInv, TodoInv, ResultInv, NEW s \in Searches, SearchStep(s)
  PROVE  ResultInv'
<1>1. /\ spc[s] # "done" /\ (\A r \in Searches \ {s} : spc'[r] = spc[r])
      /\ result' = result
  BY DEF SearchStep, Search, Iterate, Visit, Leave, EndTask, RankDocs, TypesInv
<1>2. CASE ranks' = ranks
  BY <1>1, <1>2, TasksFinite, ResultKept
<1>3. CASE ranks' # ranks
  <2>1. spc[s] = "rank"
    BY <1>3 DEF SearchStep, Search, Iterate, Visit, Leave, EndTask, RankDocs
  <2>2. s \in Tasks  BY <2>1 DEF TodoInv
  <2>3. ~AllReady  BY <2>1, <2>2 DEF AllReady
  <2> QED  BY <1>1, <2>3 DEF ResultInv
<1> QED  BY <1>2, <1>3

\* Every step keeps the invariant.
LEMMA NextQueryInv == QueryInv /\ [Next]_vars => QueryInv'
<1> SUFFICES ASSUME QueryInv, [Next]_vars  PROVE QueryInv'
  OBVIOUS
<1> USE DEF QueryInv
<1>1. LoopInv  BY DEF LoopInv
<1>2. ASSUME NEW w \in Writers, WriterStep(w)  PROVE QueryInv'
  <2>1. TypesInv' /\ RecordsInv' /\ IndexedStays' /\ LoopsInv'
    BY <1>2, WriterTypes, WriterRecords, WriterLoops
  <2>2. UNCHANGED <<spc, hist, todo, ranks, result>>
    BY <1>2 DEF WriterStep, SkipFile, OpenFile, StartInsert, AddIfNotPresent
  <2>3. TodoInv'  BY <2>2 DEF TodoInv
  <2>4. Parts' = Parts  BY <2>2 DEF Parts
  <2>5. RanksInv'  BY <2>2, <2>4, RanksKept
  <2>6. ResultInv'  BY <2>2, ResultKept
  <2> QED  BY <2>1, <2>3, <2>5, <2>6
<1>3. ASSUME NEW s \in Searches, SearchStep(s)  PROVE QueryInv'
  <2>1. TypesInv' /\ LoopsInv' /\ TodoInv' /\ RanksInv' /\ ResultInv'
    BY <1>1, <1>3, SearchTypes, SearchLoops, SearchTodo, SearchRanks, SearchResult
  <2>2. UNCHANGED <<record, place>>
    BY <1>3 DEF SearchStep, Search, Iterate, Visit, Leave, EndTask, RankDocs
  <2> QED  BY <2>1, <2>2, RecordsUnchanged
<1>4. ASSUME Rank  PROVE QueryInv'
  <2>1. UNCHANGED <<record, wpc, place, spc, iter, hist, todo, final, seen, ranks>>
        /\ AllReady /\ result' \in PartialSorts(SnapshotDense, TopX)
    BY <1>4 DEF Rank
  <2>2. TypesInv'  BY <2>1 DEF TypesInv
  <2>3. RecordsInv' /\ IndexedStays'  BY <2>1, RecordsUnchanged
  <2>4. LoopsInv'  BY <2>1, Zenon DEF LoopsInv, LoopRight
  <2>5. TodoInv'  BY <2>1 DEF TodoInv
  <2>6. Parts' = Parts  BY <2>1 DEF Parts
  <2>7. RanksInv'  BY <2>1, <2>6, RanksKept
  <2>8. ResultInv'
    <3>1. AllReady'  BY <2>1 DEF AllReady
    <3>2. SnapshotDense' = SnapshotDense  BY <2>1 DEF SnapshotDense
    <3>3. TopX' = TopX  BY <3>2 DEF TopX
    <3> QED  BY <2>1, <3>1, <3>2, <3>3 DEF ResultInv
  <2> QED  BY <2>2, <2>3, <2>4, <2>5, <2>7, <2>8
<1>5. CASE UNCHANGED vars
  <2>1. UNCHANGED <<record, wpc, place, spc, iter, hist, todo, final, seen, ranks, result>>
    BY <1>5 DEF vars
  <2>2. TypesInv'  BY <2>1 DEF TypesInv
  <2>3. RecordsInv' /\ IndexedStays'  BY <2>1, RecordsUnchanged
  <2>4. LoopsInv'  BY <2>1, Zenon DEF LoopsInv, LoopRight
  <2>5. TodoInv'  BY <2>1 DEF TodoInv
  <2>6. Parts' = Parts  BY <2>1 DEF Parts
  <2>7. RanksInv'  BY <2>1, <2>6, RanksKept
  <2>8. ResultInv'  BY <2>1, ResultKept
  <2> QED  BY <2>2, <2>3, <2>4, <2>5, <2>7, <2>8
<1> QED  BY <1>2, <1>3, <1>4, <1>5 DEF Next

-----------------------------------------------------------------------------
(* The theorems                                                             *)

\* The invariant holds in every state.
LEMMA QueryInvariance == Spec => []QueryInv
<1>1. Init => QueryInv  BY InitInv
<1> QED  BY <1>1, NextQueryInv, PTL DEF Spec

\* What a search has in hand is of the kind the code keeps there, and its iterator is at an
\* entry of its record, or at the end: nothing moves the entries away under a loop.
THEOREM TypeCorrect == Spec => []TypeOK
<1>1. QueryInv => TypeOK
  <2> SUFFICES ASSUME QueryInv  PROVE TypeOK
    OBVIOUS
  <2> USE DEF QueryInv
  <2>1. \A w \in Writers : place[w] \in 1 .. Len(File[w]) + 1
    <3> SUFFICES ASSUME NEW w \in Writers  PROVE place[w] \in 1 .. Len(File[w]) + 1
      OBVIOUS
    <3>1. Len(File[w]) \in Nat  BY EntriesAssumption
    <3>2. place[w] \in Nat \ {0} /\ place[w] <= Len(File[w]) + 1  BY DEF TypesInv
    <3> QED  BY <3>1, <3>2
  <2>2. ASSUME NEW s \in Searches, spc[s] = "iterate"
        PROVE  iter[s].bucketId \in 0 .. RecordSize /\ iter[s].crawl \in Places(RecordOf(s))
    <3> DEFINE buffer == record[TokenOf[s]]
    <3>1. buffer \in Buffers /\ AtPlace(buffer, iter[s])  BY <2>2, IteratorIs
    <3>2. DOMAIN buffer = 0 .. RecordSize - 1 /\ RecordSize \in Nat  BY <3>1, BufferSize
    <3>3. iter[s].bucketId \in 0 .. RecordSize  BY <3>1, <3>2 DEF AtPlace
    <3>4. iter[s].crawl \in Places(buffer)
      <4>1. CASE iter[s].crawl = End  BY <4>1 DEF Places
      <4>2. CASE iter[s].crawl # End
        <5> DEFINE b == iter[s].bucketId
        <5>1. b \in DOMAIN buffer  BY <3>1 DEF AtPlace
        <5>2. PICK i \in DOMAIN buffer[b] : iter[s].crawl = <<b, i>>  BY <3>1, <4>2 DEF AtPlace
        <5> HIDE DEF b, buffer
        <5> QED  BY <5>1, <5>2 DEF Places
      <4> QED  BY <4>1, <4>2
    <3> QED  BY <3>3, <3>4 DEF RecordOf
  <2>3. result \in Seq(Docs \X Nat)
    <3>1. CASE result = <<>>  BY <3>1
    <3>2. CASE result # <<>>
      <4>1. result \in PartialSorts(SnapshotDense, TopX)  BY <3>2 DEF ResultInv
      <4> QED  BY <4>1, SnapshotIs, TopXIs, PartialSortsAre
    <3> QED  BY <3>1, <3>2
  <2> QED  BY <2>1, <2>2, <2>3 DEF TypesInv, TypeOK, Buffers
<1> QED  BY <1>1, QueryInvariance, PTL

\* A loop that has come to its end has visited every entry its record has now, each of them
\* once, however many writers wait to insert and whatever buckets are empty.
THEOREM LoopsSeeAll == Spec => []LoopSeesAll
<1>1. QueryInv => LoopSeesAll
  <2> SUFFICES ASSUME QueryInv, NEW s \in Searches, spc[s] = "iterate",
                      ~Differs(iter[s], EndOf(RecordOf(s)))
               PROVE  /\ seen[s] = InBuckets(RecordOf(s))
                      /\ s \in Tasks => hist[s] = [d \in Docs |-> HitsOf(d, seen[s])]
                      /\ s \notin Tasks =>
                           /\ IsInjective(final[s])
                           /\ Range(final[s]) = {e \in seen[s] :
                                                   s \in Listers \/ e[1] \notin Unreadable}
    BY Zenon DEF LoopSeesAll
  <2> USE DEF QueryInv
  <2>1. seen[s] = Visited(RecordOf(s), iter[s]) /\ iter[s].crawl = End
    BY IteratorIs DEF RecordOf
  <2>2. seen[s] = InBuckets(RecordOf(s))  BY <2>1 DEF Visited
  <2>3. LoopRight(s, spc[s], iter[s], seen[s], hist[s], final[s], record[TokenOf[s]])
    BY DEF LoopsInv
  <2> QED  BY <2>2, <2>3, Zenon DEF LoopRight
<1> QED  BY <1>1, QueryInvariance, PTL

\* What was indexed when the query began, and what a file's task has inserted since, stays
\* in its record, however the tasks of several files take turns.
THEOREM NothingIndexedIsLost == Spec => []IndexedStays
<1>1. QueryInv => IndexedStays  BY DEF QueryInv
<1> QED  BY <1>1, QueryInvariance, PTL

\* Behind the last task each document has one rank, the sum of what the tasks found.
LEMMA WholeRanks ==
  ASSUME QueryInv, AllReady
  PROVE  /\ \A d \in Docs : RankOf(d) = SumFunction(Parts[d]) /\ RankOf(d) \in Nat
         /\ \A r \in Range(SnapshotDense) :
              r \in Docs \X Nat /\ r[2] = RankOf(r[1]) /\ RankOf(r[1]) > 0
         /\ \A d \in Docs : RankOf(d) > 0 => \E r \in Range(SnapshotDense) : r[1] = d
<1> USE DEF QueryInv
<1>1. ASSUME NEW d \in Docs
      PROVE  RankOf(d) = SumFunction(Parts[d]) /\ RankOf(d) \in Nat
  <2>1. /\ Parts[d] \in [Tasks -> Nat]
        /\ \A t \in Tasks : Parts[d][t] =
             IF spc[t] \in {"rank", "done"} /\ d \notin todo[t] THEN hist[t][d] ELSE 0
    BY PartsType
  <2>2. \A t \in Tasks : spc[t] = "done" /\ todo[t] = {}  BY TasksFinite DEF AllReady, TodoInv
  <2>3. \A t \in Tasks : Parts[d][t] = hist[t][d]  BY <2>1, <2>2
  <2>4. Parts[d] = [t \in Tasks |-> hist[t][d]]  BY <2>1, <2>3
  <2>5. SumFunction(Parts[d]) \in Nat  BY <2>1, TasksFinite, SumBounds
  <2> QED  BY <2>4, <2>5 DEF RankOf
<1>2. Range(SnapshotDense) = InBuckets(ranks) /\ SnapshotDense \in Seq(Docs \X Nat)  BY SnapshotIs
<1>3. ASSUME NEW r \in Range(SnapshotDense)
      PROVE  r \in Docs \X Nat /\ r[2] = RankOf(r[1]) /\ RankOf(r[1]) > 0
  <2>1. r \in Docs \X Nat
    <3>1. \A i \in DOMAIN SnapshotDense : SnapshotDense[i] \in Docs \X Nat  BY <1>2
    <3> QED  BY <3>1 DEF Range
  <2>2. DOMAIN ranks = 0 .. RanksSize - 1  BY DEF TypesInv
  <2>3. PICK b \in 0 .. RanksSize - 1 : r \in Range(ranks[b])  BY <1>2, <2>2 DEF InBuckets
  <2>4. r[2] = SumFunction(Parts[r[1]]) /\ r[2] > 0  BY <2>3 DEF RanksInv
  <2>5. r[1] \in Docs  BY <2>1
  <2> QED  BY <1>1, <2>1, <2>4, <2>5
<1>4. \A d \in Docs : RankOf(d) > 0 => \E r \in Range(SnapshotDense) : r[1] = d
  BY <1>1, <1>2 DEF RanksInv
<1> QED  BY <1>1, <1>3, <1>4

\* A snapshot with one entry for each of some documents is as long as they are many.
LEMMA OneEach ==
  ASSUME NEW S, NEW snap \in Seq(S), UniqueDocs(snap), NEW D,
         \A i \in DOMAIN snap : snap[i][1] \in D,
         \A d \in D : \E i \in DOMAIN snap : snap[i][1] = d
  PROVE  Len(snap) = Cardinality(D)
<1>1. Len(snap) \in Nat /\ DOMAIN snap = 1 .. Len(snap)  OBVIOUS
<1>2. IsFiniteSet(1 .. Len(snap)) /\ Cardinality(1 .. Len(snap)) = Len(snap)  BY <1>1, FirstNumbers
<1> DEFINE doc == [i \in 1 .. Len(snap) |-> snap[i][1]]
<1>3. doc \in [1 .. Len(snap) -> D]  BY <1>1
<1>4. \A i, j \in 1 .. Len(snap) : doc[i] = doc[j] => i = j  BY <1>1 DEF UniqueDocs
<1>5. \A d \in D : \E i \in 1 .. Len(snap) : doc[i] = d
  <2> SUFFICES ASSUME NEW d \in D  PROVE \E i \in 1 .. Len(snap) : doc[i] = d
    OBVIOUS
  <2>1. PICK i \in DOMAIN snap : snap[i][1] = d  OBVIOUS
  <2> QED  BY <1>1, <2>1
<1> HIDE DEF doc
<1>6. doc \in Bijection(1 .. Len(snap), D)
  BY <1>3, <1>4, <1>5 DEF Bijection, Injection, Surjection, IsInjective
<1>7. ExistsBijection(1 .. Len(snap), D)  BY <1>6 DEF ExistsBijection
<1> QED  BY <1>1, <1>2, <1>7, FS_Bijection

\* When the tasks are through, the map has the documents they found, each once and with the
\* whole of its rank, and what was indexed when the query began is in it.
THEOREM RanksAreWhole == Spec => []RanksAddUp
<1>1. QueryInv => RanksAddUp
  <2> SUFFICES ASSUME QueryInv, AllReady
               PROVE  /\ Len(SnapshotDense) = Cardinality({d \in Docs : RankOf(d) > 0})
                      /\ \A i \in DOMAIN SnapshotDense :
                           SnapshotDense[i][2] = RankOf(SnapshotDense[i][1])
                      /\ \A t \in Tasks, d \in Docs :
                           hist[t][d] >= HitsOf(d, Records[TokenOf[t]])
    BY DEF RanksAddUp
  <2> USE DEF QueryInv
  <2>1. \A i \in DOMAIN SnapshotDense :
          /\ SnapshotDense[i] \in Docs \X Nat
          /\ SnapshotDense[i][2] = RankOf(SnapshotDense[i][1])
          /\ RankOf(SnapshotDense[i][1]) > 0
    <3>1. \A i \in DOMAIN SnapshotDense : SnapshotDense[i] \in Range(SnapshotDense)  BY DEF Range
    <3> QED  BY <3>1, WholeRanks
  <2>2. Len(SnapshotDense) = Cardinality({d \in Docs : RankOf(d) > 0})
    <3> DEFINE D == {d \in Docs : RankOf(d) > 0}
               snap == SnapshotDense
    <3>1. snap \in Seq(Docs \X Nat) /\ UniqueDocs(snap)  BY SnapshotIs
    <3>2. \A i \in DOMAIN snap : snap[i][1] \in D  BY <2>1
    <3>3. \A d \in D : \E i \in DOMAIN snap : snap[i][1] = d  BY WholeRanks DEF Range
    <3> HIDE DEF D, snap
    <3>4. Len(snap) = Cardinality(D)  BY <3>1, <3>2, <3>3, OneEach
    <3> QED  BY <3>4 DEF D, snap
  <2>3. ASSUME NEW t \in Tasks, NEW d \in Docs
        PROVE  hist[t][d] >= HitsOf(d, Records[TokenOf[t]])
    <3> DEFINE Old == {e \in Records[TokenOf[t]] : e[1] = d}
               Now == {e \in seen[t] : e[1] = d}
    <3>1. t \in Searches /\ spc[t] = "done"  BY TasksFinite DEF AllReady
    <3>2. LoopRight(t, spc[t], iter[t], seen[t], hist[t], final[t], record[TokenOf[t]])
      BY <3>1 DEF LoopsInv
    <3>3. /\ IsFiniteSet(seen[t]) /\ hist[t] = [c \in Docs |-> HitsOf(c, seen[t])]
          /\ Records[TokenOf[t]] \subseteq seen[t]
      BY <3>1, <3>2 DEF LoopRight
    <3>4. Old \subseteq Now /\ Now \subseteq seen[t]  BY <3>3
    <3>5. IsFiniteSet(Now)  BY <3>3, <3>4, FS_Subset
    <3>6. IsFiniteSet(Old) /\ Cardinality(Old) <= Cardinality(Now)  BY <3>4, <3>5, FS_Subset
    <3>7. Cardinality(Old) \in Nat /\ Cardinality(Now) \in Nat  BY <3>5, <3>6, FS_CardinalityType
    <3>8. hist[t][d] = Cardinality(Now) /\ HitsOf(d, Records[TokenOf[t]]) = Cardinality(Old)
      BY <3>3 DEF HitsOf
    <3> HIDE DEF Old, Now
    <3> QED  BY <3>6, <3>7, <3>8
  <2> QED  BY <2>1, <2>2, <2>3
<1> QED  BY <1>1, QueryInvariance, PTL

\* searchQuery returns the best documents in order and with their whole rank, and leaves
\* one out only when it returns as many as it may and none of them ranks lower.
THEOREM BestFirst == Spec => []TopRanked
<1>1. QueryInv => TopRanked
  <2> SUFFICES ASSUME QueryInv, result # <<>>
               PROVE  /\ \A i \in DOMAIN result : result[i][2] = RankOf(result[i][1])
                      /\ Sorted(result)
                      /\ \A d \in Docs \ {r[1] : r \in Range(result)} :
                           RankOf(d) > 0 => Len(result) = Ranked /\ RankOf(d) <= result[Ranked][2]
    BY DEF TopRanked
  <2> USE DEF QueryInv
  <2> DEFINE snap == SnapshotDense
  <2>1. AllReady /\ result \in PartialSorts(snap, TopX)  BY DEF ResultInv
  <2>2. snap \in Seq(Docs \X Nat) /\ IsInjective(snap)  BY SnapshotIs
  <2>3. /\ TopX \in 0 .. Len(snap) /\ Len(snap) \in Nat
        /\ TopX = Len(snap) \/ TopX = Ranked
        /\ Ranked \in Nat /\ Ranked >= 1
    BY TopXIs
  <2>4. /\ \A d \in Docs : RankOf(d) \in Nat
        /\ \A r \in Range(snap) : r \in Docs \X Nat /\ r[2] = RankOf(r[1])
        /\ \A d \in Docs : RankOf(d) > 0 => \E r \in Range(snap) : r[1] = d
    BY <2>1, WholeRanks
  <2> HIDE DEF snap
  <2>5. /\ result \in Seq(Docs \X Nat) /\ Len(result) = TopX /\ DOMAIN result = 1 .. TopX
        /\ IsInjective(result) /\ Range(result) \subseteq Range(snap) /\ Sorted(result)
        /\ \A r \in Range(snap) \ Range(result) : \A i \in DOMAIN result : ~Before(r, result[i])
    BY <2>1, <2>2, <2>3, PartialSortsAre
  <2>6. \A i \in DOMAIN result : result[i] \in Range(snap)  BY <2>5 DEF Range
  <2>7. \A i \in DOMAIN result : result[i][2] = RankOf(result[i][1])  BY <2>4, <2>6
  <2>8. ASSUME NEW d \in Docs, d \notin {r[1] : r \in Range(result)}, RankOf(d) > 0
        PROVE  Len(result) = Ranked /\ RankOf(d) <= result[Ranked][2]
    <3>1. PICK r \in Range(snap) : r[1] = d  BY <2>4, <2>8
    <3>2. r \notin Range(result)  BY <2>8, <3>1
    <3>3. TopX # Len(snap)
      <4> SUFFICES ASSUME TopX = Len(snap)  PROVE FALSE
        OBVIOUS
      <4>1. IsFiniteSet(Range(snap)) /\ Cardinality(Range(snap)) = TopX
        BY <2>2, PlacesAreElements
      <4>2. Cardinality(Range(result)) = TopX  BY <2>5, PlacesAreElements
      <4>3. Range(result) = Range(snap)  BY <2>5, <4>1, <4>2, FS_Subset
      <4> QED  BY <3>1, <3>2, <4>3
    <3>4. TopX = Ranked  BY <2>3, <3>3
    <3>5. Ranked \in DOMAIN result  BY <2>3, <2>5, <3>4
    <3>6. ~Before(r, result[Ranked])  BY <2>5, <3>2, <3>5
    <3>7. r[2] = RankOf(d) /\ RankOf(d) \in Nat  BY <2>4, <3>1
    <3>8. result[Ranked][2] \in Nat  BY <2>4, <2>6, <3>5
    <3>9. ~(RankOf(d) > result[Ranked][2])  BY <3>6, <3>7 DEF Before
    <3>10. RankOf(d) <= result[Ranked][2]
      <4> HIDE DEF Before
      <4> QED  BY <3>7, <3>8, <3>9
    <3> QED  BY <2>5, <3>4, <3>10
  <2> QED  BY <2>5, <2>7, <2>8
<1> QED  BY <1>1, QueryInvariance, PTL
=============================================================================

---------------------------- MODULE DecodeProofs ----------------------------
(***************************************************************************)
(* Induction without a schema, what concatenating sequences yields for     *)
(* sequences of any length, and from it what infer_schema and decode_batch *)
(* make of any number of payloads.                                         *)
(***************************************************************************)
EXTENDS Decode, Integers, SequenceTheorems, WellFoundedInduction, TLAPS

-----------------------------------------------------------------------------
(* Induction.  A property of numbers is given by the set of those that     *)
(* have it, so that no theorem takes an operator for a parameter.          *)

(* A set of natural numbers has a least one.                               *)
LEMMA LeastNumber ==
    ASSUME NEW S \in SUBSET Nat, S # {}
    PROVE  \E m \in S : \A k \in S : m <= k
<1>. DEFINE R == OpToRel(<, Nat)
<1>1. IsWellFoundedOn(R, Nat)
  BY NatLessThanWellFounded
<1>2. R = {ss \in Nat \X Nat : ss[1] < ss[2]}
  BY DEF OpToRel
<1>3. \A x, y \in Nat : <<y, x>> \in R <=> y < x
  BY <1>2
<1>. HIDE DEF R
<1>4. PICK m \in S : \A y \in S : ~ (<<y, m>> \in R)
  BY <1>1, WFMin
<1>5. \A y \in S : m <= y
  <2>. SUFFICES ASSUME NEW y \in S PROVE ~(y < m)
    OBVIOUS
  <2>. QED  BY <1>3, <1>4
<1>. QED  BY <1>5

(* A set with 0 and with the successor of each member has all numbers.     *)
LEMMA Induction ==
    ASSUME NEW S, 0 \in S, \A n \in Nat : n \in S => n + 1 \in S
    PROVE  \A n \in Nat : n \in S
<1>. SUFFICES ASSUME Nat \ S # {} PROVE FALSE
  OBVIOUS
<1>1. PICK m \in Nat \ S : \A k \in Nat \ S : m <= k
  BY LeastNumber
<1>2. m # 0 /\ m - 1 \in Nat /\ m - 1 \in S
  BY <1>1
<1>. QED  BY <1>1, <1>2

(* The same up to a bound.                                                 *)
LEMMA BoundedInduction ==
    ASSUME NEW S, NEW n \in Nat, 0 \in S, \A i \in 0 .. n - 1 : i \in S => i + 1 \in S
    PROVE  \A i \in 0 .. n : i \in S
<1>. DEFINE T == {i \in Nat : i <= n => i \in S}
<1>1. 0 \in T
  OBVIOUS
<1>2. \A i \in Nat : i \in T => i + 1 \in T
  OBVIOUS
<1>. HIDE DEF T
<1>3. \A i \in Nat : i \in T
  BY <1>1, <1>2, Induction
<1>. QED  BY <1>3 DEF T

-----------------------------------------------------------------------------
(* Sequences, whatever they are of. *)

LEMMA SequenceShape ==
    ASSUME NEW s, IsSequence(s)
    PROVE  Len(s) \in Nat /\ DOMAIN s = 1 .. Len(s)
BY DEF IsSequence

LEMMA IsSequenceOf ==
    ASSUME NEW S, NEW s \in Seq(S)
    PROVE  IsSequence(s)
<1>1. s \in [1 .. Len(s) -> S] /\ Len(s) \in Nat /\ DOMAIN s = 1 .. Len(s)
  OBVIOUS
<1>2. s \in [1 .. Len(s) -> {s[i] : i \in DOMAIN s}]
  BY <1>1
<1>. DEFINE T == {s[i] : i \in DOMAIN s}
<1>. HIDE DEF T
<1>3. s \in [1 .. Len(s) -> T] => s \in Seq(T)
  BY <1>1, SeqDef
<1>. QED  BY <1>2, <1>3 DEF IsSequence, T

LEMMA SequenceIn ==
    ASSUME NEW S, NEW s, IsSequence(s), \A i \in 1 .. Len(s) : s[i] \in S
    PROVE  s \in Seq(S)
<1>1. {s[i] : i \in DOMAIN s} \subseteq S
  BY SequenceShape
<1>2. s \in Seq({s[i] : i \in DOMAIN s})
  BY DEF IsSequence
<1>. QED  BY <1>1, <1>2, SeqMonotonic

LEMMA SequencesEqual ==
    ASSUME NEW s, NEW t, IsSequence(s), IsSequence(t), Len(s) = Len(t),
           \A i \in 1 .. Len(s) : s[i] = t[i]
    PROVE  s = t
<1>. DEFINE S == {s[i] : i \in DOMAIN s} \cup {t[i] : i \in DOMAIN t}
<1>1. s \in Seq(S) /\ t \in Seq(S)
  BY SequenceShape, SequenceIn
<1>. HIDE DEF S
<1>. QED  BY <1>1, SeqEqual

(* One sequence behind another.                                            *)
LEMMA Concatenating ==
    ASSUME NEW s, NEW t, IsSequence(s), IsSequence(t)
    PROVE  /\ IsSequence(s \o t)
           /\ Len(s \o t) = Len(s) + Len(t)
           /\ \A i \in 1 .. Len(s) : (s \o t)[i] = s[i]
           /\ \A i \in 1 .. Len(t) : (s \o t)[Len(s) + i] = t[i]
<1>. DEFINE S == {s[i] : i \in DOMAIN s} \cup {t[i] : i \in DOMAIN t}
<1>0. Len(s) \in Nat /\ Len(t) \in Nat
  BY SequenceShape
<1>1. s \in Seq(S) /\ t \in Seq(S)
  BY SequenceShape, SequenceIn
<1>. HIDE DEF S
<1>2. /\ s \o t \in Seq(S)
      /\ Len(s \o t) = Len(s) + Len(t)
      /\ \A i \in 1 .. Len(s) + Len(t) :
           (s \o t)[i] = IF i <= Len(s) THEN s[i] ELSE t[i - Len(s)]
  BY <1>1, ConcatProperties
<1>3. \A i \in 1 .. Len(t) : Len(s) + i \in 1 .. Len(s) + Len(t) /\ (Len(s) + i) - Len(s) = i
                             /\ ~(Len(s) + i <= Len(s))
  BY <1>0
<1>4. IsSequence(s \o t)
  BY <1>2, IsSequenceOf
<1>5. \A i \in 1 .. Len(s) : (s \o t)[i] = s[i]
  BY <1>0, <1>2
<1>6. \A i \in 1 .. Len(t) : (s \o t)[Len(s) + i] = t[i]
  BY <1>2, <1>3
<1>. QED  BY <1>2, <1>4, <1>5, <1>6

LEMMA NoElements ==
    IsSequence(<<>>) /\ Len(<<>>) = 0 /\ \A T : <<>> \in Seq(T)
<1>1. \A T : <<>> \in Seq(T)
  OBVIOUS
<1>2. IsSequence(<<>>)
  BY <1>1 DEF IsSequence
<1>. QED  BY <1>1, <1>2

LEMMA NothingBefore ==
    ASSUME NEW s, IsSequence(s)
    PROVE  IsSequence(<<>>) /\ <<>> \o s = s
<1>1. IsSequence(<<>>)
  BY DEF IsSequence
<1>2. \A S : s \in Seq(S) => <<>> \o s = s
  BY ConcatEmptySeq
<1>. QED  BY <1>1, <1>2 DEF IsSequence

(* The first elements of a sequence.                                       *)
LEMMA Beginning ==
    ASSUME NEW s, IsSequence(s), NEW n \in 0 .. Len(s)
    PROVE  /\ IsSequence(SubSeq(s, 1, n)) /\ Len(SubSeq(s, 1, n)) = n
           /\ \A i \in 1 .. n : SubSeq(s, 1, n)[i] = s[i]
<1>. DEFINE S == {s[i] : i \in DOMAIN s}
<1>0. Len(s) \in Nat /\ DOMAIN s = 1 .. Len(s)
  BY SequenceShape
<1>1. \A i \in 1 .. n : s[i] \in S
  BY <1>0
<1>. HIDE DEF S
<1>2. /\ SubSeq(s, 1, n) \in Seq(S)
      /\ Len(SubSeq(s, 1, n)) = IF 1 <= n THEN n - 1 + 1 ELSE 0
      /\ \A i \in 1 .. n - 1 + 1 : SubSeq(s, 1, n)[i] = s[1 + i - 1]
  BY <1>0, <1>1, SubSeqProperties
<1>3. \A i \in 1 .. n : 1 + i - 1 = i /\ i \in 1 .. n - 1 + 1
  BY <1>0
<1>4. IsSequence(SubSeq(s, 1, n))
  BY <1>2, IsSequenceOf
<1>5. Len(SubSeq(s, 1, n)) = n
  BY <1>0, <1>2
<1>6. \A i \in 1 .. n : SubSeq(s, 1, n)[i] = s[i]
  BY <1>2, <1>3
<1>. QED  BY <1>4, <1>5, <1>6

-----------------------------------------------------------------------------
(* Concatenated: its equations, and what follows from them by induction. *)

(* There is a function that satisfies the recursive definition, hence what *)
(* is defined is such a function.                                          *)
LEMMA ConcatenatedUnfolds ==
    ASSUME NEW ss, Len(ss) \in Nat
    PROVE  /\ Concatenated(ss)[0] = <<>>
           /\ \A i \in 1 .. Len(ss) : Concatenated(ss)[i] = Concatenated(ss)[i - 1] \o ss[i]
<1>. DEFINE Unfolds(g, m) == g = [i \in 0 .. m |-> IF i = 0 THEN <<>> ELSE g[i - 1] \o ss[i]]
            S == {m \in Nat : \E g : Unfolds(g, m)}
<1>1. 0 \in S
  <2>. DEFINE h == [i \in 0 .. 0 |-> <<>>]
  <2>1. \A i \in 0 .. 0 : i = 0
    OBVIOUS
  <2>2. Unfolds(h, 0)
    BY <2>1
  <2>. QED  BY <2>2
<1>2. ASSUME NEW m \in Nat, m \in S PROVE m + 1 \in S
  <2>1. PICK g : Unfolds(g, m)
    BY <1>2
  <2>. DEFINE h == [i \in 0 .. m + 1 |-> IF i = m + 1 THEN g[m] \o ss[m + 1] ELSE g[i]]
  <2>2. \A i \in 0 .. m : h[i] = g[i]
    OBVIOUS
  <2>3. ASSUME NEW i \in 0 .. m + 1
        PROVE  h[i] = IF i = 0 THEN <<>> ELSE h[i - 1] \o ss[i]
    <3>1. CASE i = 0
      BY <2>1, <2>2, <3>1
    <3>2. CASE i # 0 /\ i # m + 1
      <4>1. i \in 0 .. m /\ i - 1 \in 0 .. m
        BY <3>2
      <4>2. g[i] = g[i - 1] \o ss[i]
        BY <2>1, <3>2, <4>1
      <4>. QED  BY <2>2, <3>2, <4>1, <4>2
    <3>3. CASE i = m + 1
      <4>1. i - 1 = m /\ m \in 0 .. m /\ i # 0
        BY <3>3
      <4>2. h[i] = g[m] \o ss[m + 1]
        BY <3>3
      <4>. QED  BY <2>2, <3>3, <4>1, <4>2
    <3>. QED  BY <3>1, <3>2, <3>3
  <2>4. Unfolds(h, m + 1)
    <3>1. h = [i \in 0 .. m + 1 |-> h[i]]
      OBVIOUS
    <3>. HIDE DEF h
    <3>. QED  BY <2>3, <3>1
  <2>. HIDE DEF Unfolds, h
  <2>. QED  BY <2>4
<1>. HIDE DEF S
<1>3. Len(ss) \in S
  BY <1>1, <1>2, Induction
<1>4. \E g : Unfolds(g, Len(ss))
  BY <1>3 DEF S
<1>5. Concatenated(ss) = CHOOSE g : Unfolds(g, Len(ss))
  BY DEF Concatenated
<1>6. Unfolds(Concatenated(ss), Len(ss))
  <2>. HIDE DEF Unfolds
  <2>. QED  BY <1>4, <1>5
<1>7. \A g : Unfolds(g, Len(ss)) =>
        \A i \in 0 .. Len(ss) : g[i] = IF i = 0 THEN <<>> ELSE g[i - 1] \o ss[i]
  OBVIOUS
<1>. HIDE DEF Unfolds
<1>8. \A i \in 0 .. Len(ss) :
        Concatenated(ss)[i] = IF i = 0 THEN <<>> ELSE Concatenated(ss)[i - 1] \o ss[i]
  BY <1>6, <1>7
<1>9. 0 \in 0 .. Len(ss) /\ \A i \in 1 .. Len(ss) : i \in 0 .. Len(ss) /\ i # 0
  OBVIOUS
<1>10. Concatenated(ss)[0] = <<>>
  BY <1>8, <1>9, Zenon
<1>11. \A i \in 1 .. Len(ss) : Concatenated(ss)[i] = Concatenated(ss)[i - 1] \o ss[i]
  BY <1>8, <1>9, Zenon
<1>. QED  BY <1>10, <1>11

AreSequences(ss) == Len(ss) \in Nat /\ \A i \in 1 .. Len(ss) : IsSequence(ss[i])

(* s is how t begins. *)
Begins(s, t) == Len(s) <= Len(t) /\ \A i \in 1 .. Len(s) : s[i] = t[i]

LEMMA ConcatenatedType ==
    ASSUME NEW ss, AreSequences(ss)
    PROVE  \A i \in 0 .. Len(ss) : IsSequence(Concatenated(ss)[i])
<1>. DEFINE S == {i \in Nat : IsSequence(Concatenated(ss)[i])}
<1>0. Len(ss) \in Nat
  BY DEF AreSequences
<1>1. 0 \in S
  <2>1. Concatenated(ss)[0] = <<>>
    BY <1>0, ConcatenatedUnfolds
  <2>. QED  BY <2>1, NoElements
<1>2. ASSUME NEW i \in 0 .. Len(ss) - 1, i \in S PROVE i + 1 \in S
  <2>1. i + 1 \in 1 .. Len(ss) /\ (i + 1) - 1 = i
    BY <1>0
  <2>2. Concatenated(ss)[i + 1] = Concatenated(ss)[i] \o ss[i + 1]
    BY <1>0, <2>1, ConcatenatedUnfolds
  <2>3. IsSequence(Concatenated(ss)[i]) /\ IsSequence(ss[i + 1])
    BY <1>2, <2>1 DEF AreSequences
  <2>4. IsSequence(Concatenated(ss)[i] \o ss[i + 1])
    BY <2>3, Concatenating
  <2>5. IsSequence(Concatenated(ss)[i + 1])
    BY <2>2, <2>4, Zenon
  <2>. QED  BY <2>1, <2>5
<1>. HIDE DEF S
<1>3. \A i \in 0 .. Len(ss) : i \in S
  BY <1>0, <1>1, <1>2, BoundedInduction
<1>. QED  BY <1>3 DEF S

(* What is concatenated first stays where it is.                           *)
LEMMA ConcatenatedGrows ==
    ASSUME NEW ss, AreSequences(ss), NEW i \in 0 .. Len(ss), NEW j \in i .. Len(ss)
    PROVE  Begins(Concatenated(ss)[i], Concatenated(ss)[j])
<1>. DEFINE C == Concatenated(ss)
            S == {k \in Nat : k >= i => Begins(C[i], C[k])}
<1>0. Len(ss) \in Nat /\ \A k \in 0 .. Len(ss) : IsSequence(C[k]) /\ Len(C[k]) \in Nat
  BY ConcatenatedType, SequenceShape DEF AreSequences
<1>1. ASSUME NEW k \in 0 .. Len(ss) - 1 PROVE Begins(C[k], C[k + 1])
  <2>1. k + 1 \in 1 .. Len(ss) /\ (k + 1) - 1 = k /\ k \in 0 .. Len(ss)
    BY <1>0
  <2>2. C[k + 1] = C[k] \o ss[k + 1]
    BY <1>0, <2>1, ConcatenatedUnfolds
  <2>3. IsSequence(C[k]) /\ IsSequence(ss[k + 1]) /\ Len(C[k]) \in Nat /\ Len(ss[k + 1]) \in Nat
    BY <1>0, <2>1, SequenceShape DEF AreSequences
  <2>. HIDE DEF C
  <2>4. Len(C[k + 1]) = Len(C[k]) + Len(ss[k + 1])
    BY <2>2, <2>3, Concatenating
  <2>5. \A x \in 1 .. Len(C[k]) : (C[k] \o ss[k + 1])[x] = C[k][x]
    BY <2>3, Concatenating
  <2>6. \A x \in 1 .. Len(C[k]) : C[k][x] = C[k + 1][x]
    BY <2>2, <2>5, Zenon
  <2>7. Len(C[k]) <= Len(C[k + 1])
    <3>1. \A a, b \in Nat : a <= a + b
      OBVIOUS
    <3>2. Len(C[k]) <= Len(C[k]) + Len(ss[k + 1])
      BY <2>3, <3>1
    <3>. QED  BY <2>4, <3>2, Zenon
  <2>. QED  BY <2>6, <2>7, Zenon DEF Begins
<1>. HIDE DEF C
<1>2. \A k \in 0 .. Len(ss) : Begins(C[k], C[k])
  BY <1>0 DEF Begins
<1>3. 0 \in S
  BY <1>0, <1>2
<1>4. ASSUME NEW k \in 0 .. Len(ss) - 1, k \in S PROVE k + 1 \in S
  <2>1. CASE k + 1 <= i
    <3>1. k + 1 >= i => k + 1 = i
      BY <1>0, <2>1
    <3>. QED  BY <1>0, <1>2, <3>1
  <2>2. CASE k >= i
    <3>1. Begins(C[i], C[k]) /\ Begins(C[k], C[k + 1])
      BY <1>1, <1>4, <2>2
    <3>2. Len(C[i]) \in Nat /\ Len(C[k]) \in Nat /\ Len(C[k + 1]) \in Nat
      BY <1>0
    <3>3. Begins(C[i], C[k + 1])
      BY <3>1, <3>2 DEF Begins
    <3>. QED  BY <3>3
  <2>. QED  BY <1>0, <2>1, <2>2
<1>. HIDE DEF S
<1>5. \A k \in 0 .. Len(ss) : k \in S
  BY <1>0, <1>3, <1>4, BoundedInduction
<1>. QED  BY <1>0, <1>5 DEF S, C

(* What was not concatenated yet does not matter.                          *)
LEMMA ConcatenatedAgrees ==
    ASSUME NEW ss, NEW tt, Len(ss) \in Nat, Len(tt) \in Nat,
           NEW k \in Nat, k <= Len(ss), k <= Len(tt), \A i \in 1 .. k : ss[i] = tt[i]
    PROVE  \A i \in 0 .. k : Concatenated(ss)[i] = Concatenated(tt)[i]
<1>. DEFINE S == {i \in Nat : Concatenated(ss)[i] = Concatenated(tt)[i]}
<1>1. 0 \in S
  <2>1. Concatenated(ss)[0] = <<>> /\ Concatenated(tt)[0] = <<>>
    BY ConcatenatedUnfolds
  <2>. QED  BY <2>1
<1>2. ASSUME NEW i \in 0 .. k - 1, i \in S PROVE i + 1 \in S
  <2>1. i + 1 \in 1 .. k /\ i + 1 \in 1 .. Len(ss) /\ i + 1 \in 1 .. Len(tt) /\ (i + 1) - 1 = i
    OBVIOUS
  <2>2. /\ Concatenated(ss)[i + 1] = Concatenated(ss)[i] \o ss[i + 1]
        /\ Concatenated(tt)[i + 1] = Concatenated(tt)[i] \o tt[i + 1]
    BY <2>1, ConcatenatedUnfolds
  <2>3. Concatenated(ss)[i] = Concatenated(tt)[i] /\ ss[i + 1] = tt[i + 1]
    BY <1>2, <2>1
  <2>4. Concatenated(ss)[i + 1] = Concatenated(tt)[i + 1]
    BY <2>2, <2>3, Zenon
  <2>. QED  BY <2>1, <2>4
<1>. HIDE DEF S
<1>3. \A i \in 0 .. k : i \in S
  BY <1>1, <1>2, BoundedInduction
<1>. QED  BY <1>3 DEF S

(* Nothing comes in that was not there.                                    *)
LEMMA ConcatenatedMembers ==
    ASSUME NEW ss, AreSequences(ss), NEW T, \A i \in 1 .. Len(ss) : ss[i] \in Seq(T)
    PROVE  \A i \in 0 .. Len(ss) : Concatenated(ss)[i] \in Seq(T)
<1>. DEFINE S == {i \in Nat : Concatenated(ss)[i] \in Seq(T)}
<1>0. Len(ss) \in Nat
  BY DEF AreSequences
<1>1. 0 \in S
  <2>1. Concatenated(ss)[0] = <<>>
    BY <1>0, ConcatenatedUnfolds
  <2>. QED  BY <2>1, NoElements
<1>2. ASSUME NEW i \in 0 .. Len(ss) - 1, i \in S PROVE i + 1 \in S
  <2>1. i + 1 \in 1 .. Len(ss) /\ (i + 1) - 1 = i
    BY <1>0
  <2>2. Concatenated(ss)[i + 1] = Concatenated(ss)[i] \o ss[i + 1]
    BY <1>0, <2>1, ConcatenatedUnfolds
  <2>3. Concatenated(ss)[i] \in Seq(T) /\ ss[i + 1] \in Seq(T)
    BY <1>2, <2>1
  <2>4. Concatenated(ss)[i + 1] \in Seq(T)
    BY <2>2, <2>3, ConcatProperties
  <2>. QED  BY <2>1, <2>4
<1>. HIDE DEF S
<1>3. \A i \in 0 .. Len(ss) : i \in S
  BY <1>0, <1>1, <1>2, BoundedInduction
<1>. QED  BY <1>3 DEF S

(* Short sequences remain short together.                                  *)
LEMMA ConcatenatedShort ==
    ASSUME NEW ss, AreSequences(ss), \A i \in 1 .. Len(ss) : Len(ss[i]) <= 1
    PROVE  \A i \in 0 .. Len(ss) : Len(Concatenated(ss)[i]) <= i
<1>. DEFINE S == {i \in Nat : Len(Concatenated(ss)[i]) <= i}
<1>0. /\ Len(ss) \in Nat
      /\ \A i \in 0 .. Len(ss) : IsSequence(Concatenated(ss)[i]) /\ Len(Concatenated(ss)[i]) \in Nat
  BY ConcatenatedType, SequenceShape DEF AreSequences
<1>1. 0 \in S
  <2>1. Concatenated(ss)[0] = <<>>
    BY <1>0, ConcatenatedUnfolds
  <2>2. Len(Concatenated(ss)[0]) <= 0
    BY <2>1, NoElements
  <2>. QED  BY <2>2
<1>2. ASSUME NEW i \in 0 .. Len(ss) - 1, i \in S PROVE i + 1 \in S
  <2>1. i + 1 \in 1 .. Len(ss) /\ (i + 1) - 1 = i /\ i \in 0 .. Len(ss)
    BY <1>0
  <2>2. Concatenated(ss)[i + 1] = Concatenated(ss)[i] \o ss[i + 1]
    BY <1>0, <2>1, ConcatenatedUnfolds
  <2>3. IsSequence(ss[i + 1]) /\ Len(ss[i + 1]) \in Nat /\ Len(ss[i + 1]) <= 1
    BY <2>1, SequenceShape DEF AreSequences
  <2>4. Len(Concatenated(ss)[i + 1]) = Len(Concatenated(ss)[i]) + Len(ss[i + 1])
    BY <1>0, <2>1, <2>2, <2>3, Concatenating
  <2>5. Len(Concatenated(ss)[i]) <= i /\ Len(Concatenated(ss)[i]) \in Nat
    BY <1>0, <1>2, <2>1
  <2>. DEFINE grown == Len(Concatenated(ss)[i + 1])
              n == Len(Concatenated(ss)[i])
  <2>6. grown = n + Len(ss[i + 1]) /\ n <= i /\ n \in Nat
    BY <2>4, <2>5
  <2>. HIDE DEF grown, n
  <2>7. grown <= i + 1
    BY <2>1, <2>3, <2>6
  <2>. QED  BY <2>1, <2>7 DEF grown
<1>. HIDE DEF S
<1>3. \A i \in 0 .. Len(ss) : i \in S
  BY <1>0, <1>1, <1>2, BoundedInduction
<1>. QED  BY <1>3 DEF S
-----------------------------------------------------------------------------
(* Sequences made by a rule, and parts of sequences. *)

LEMMA Tabulated ==
    ASSUME NEW f, NEW n \in Nat, f = [i \in 1 .. n |-> f[i]]
    PROVE  IsSequence(f) /\ Len(f) = n /\ DOMAIN f = 1 .. n
<1>. DEFINE T == {f[i] : i \in 1 .. n}
<1>1. f \in [1 .. n -> T]
  OBVIOUS
<1>2. DOMAIN f = 1 .. n
  BY <1>1
<1>. HIDE DEF T
<1>3. f \in Seq(T) /\ Len(f) = n
  BY <1>1, <1>2
<1>. QED  BY <1>2, <1>3, IsSequenceOf

LEMMA Part ==
    ASSUME NEW s, IsSequence(s), NEW a \in Nat, NEW b \in a .. Len(s)
    PROVE  /\ IsSequence(SubSeq(s, a + 1, b))
           /\ Len(SubSeq(s, a + 1, b)) = b - a
           /\ \A i \in 1 .. (b - a) : SubSeq(s, a + 1, b)[i] = s[a + i]
<1>. DEFINE S == {s[i] : i \in DOMAIN s}
<1>0. Len(s) \in Nat /\ DOMAIN s = 1 .. Len(s)
  BY SequenceShape
<1>1. \A i \in (a + 1) .. b : s[i] \in S
  BY <1>0
<1>. HIDE DEF S
<1>2. /\ SubSeq(s, a + 1, b) \in Seq(S)
      /\ Len(SubSeq(s, a + 1, b)) = IF a + 1 <= b THEN b - (a + 1) + 1 ELSE 0
      /\ \A i \in 1 .. b - (a + 1) + 1 : SubSeq(s, a + 1, b)[i] = s[a + 1 + i - 1]
  BY <1>0, <1>1, SubSeqProperties
<1>3. \A i \in 1 .. (b - a) : a + 1 + i - 1 = a + i /\ i \in 1 .. b - (a + 1) + 1
  BY <1>0
<1>4. IsSequence(SubSeq(s, a + 1, b))
  BY <1>2, IsSequenceOf
<1>5. Len(SubSeq(s, a + 1, b)) = b - a
  BY <1>0, <1>2
<1>6. \A i \in 1 .. (b - a) : SubSeq(s, a + 1, b)[i] = s[a + i]
  BY <1>2, <1>3
<1>. QED  BY <1>4, <1>5, <1>6

(* A sequence cut in two is the two halves one behind the other.           *)
LEMMA CutInTwo ==
    ASSUME NEW s, IsSequence(s), NEW a \in Nat, NEW b \in a .. Len(s)
    PROVE  SubSeq(s, 1, a) \o SubSeq(s, a + 1, b) = SubSeq(s, 1, b)
<1>. DEFINE p == SubSeq(s, 1, a)
            q == SubSeq(s, a + 1, b)
            r == SubSeq(s, 1, b)
<1>0. Len(s) \in Nat /\ b \in Nat /\ a <= b /\ a \in 0 .. Len(s) /\ b \in 0 .. Len(s)
  BY SequenceShape
<1>1. IsSequence(p) /\ Len(p) = a /\ \A i \in 1 .. a : p[i] = s[i]
  BY <1>0, Beginning
<1>2. IsSequence(q) /\ Len(q) = b - a /\ \A i \in 1 .. (b - a) : q[i] = s[a + i]
  BY Part
<1>3. IsSequence(r) /\ Len(r) = b /\ \A i \in 1 .. b : r[i] = s[i]
  BY <1>0, Beginning
<1>. HIDE DEF p, q, r
<1>4. /\ IsSequence(p \o q) /\ Len(p \o q) = a + (b - a)
      /\ \A i \in 1 .. a : (p \o q)[i] = p[i]
      /\ \A i \in 1 .. (b - a) : (p \o q)[a + i] = q[i]
  BY <1>1, <1>2, Concatenating
<1>5. ASSUME NEW i \in 1 .. b PROVE (p \o q)[i] = r[i]
  <2>1. CASE i \in 1 .. a
    BY <1>1, <1>3, <1>4, <2>1
  <2>2. CASE i \notin 1 .. a
    <3>1. PICK k \in 1 .. (b - a) : a + k = i
      <4>1. i - a \in 1 .. (b - a) /\ a + (i - a) = i
        BY <1>0, <2>2
      <4>. QED  BY <4>1
    <3>2. (p \o q)[a + k] = q[k] /\ q[k] = s[a + k] /\ r[i] = s[i]
      BY <1>2, <1>3, <1>4
    <3>. QED  BY <3>1, <3>2
  <2>. QED  BY <2>1, <2>2
<1>6. Len(p \o q) = Len(r) /\ Len(p \o q) = b
  BY <1>0, <1>3, <1>4
<1>7. p \o q = r
  BY <1>3, <1>4, <1>5, <1>6, SequencesEqual
<1>. QED  BY <1>7 DEF p, q, r

-----------------------------------------------------------------------------
(* Payloads and their objects. *)

ArePayloads(ps) == IsSequence(ps) /\ \A i \in 1 .. Len(ps) : IsPayload(ps[i])

ObjectsOf(ps) == [i \in DOMAIN ps |-> ps[i].objects]

LEMMA ObjectsOfPayloads ==
    ASSUME NEW ps, ArePayloads(ps)
    PROVE  /\ Len(ps) \in Nat /\ DOMAIN ps = 1 .. Len(ps)
           /\ AreSequences(ObjectsOf(ps)) /\ Len(ObjectsOf(ps)) = Len(ps)
           /\ \A i \in 1 .. Len(ps) : ObjectsOf(ps)[i] = ps[i].objects
           /\ Joined(ps) = Concatenated(ObjectsOf(ps))
<1>1. Len(ps) \in Nat /\ DOMAIN ps = 1 .. Len(ps)
  BY SequenceShape DEF ArePayloads
<1>2. ObjectsOf(ps) = [i \in 1 .. Len(ps) |-> ObjectsOf(ps)[i]]
  BY <1>1 DEF ObjectsOf
<1>3. \A i \in 1 .. Len(ps) : ObjectsOf(ps)[i] = ps[i].objects
  BY <1>1 DEF ObjectsOf
<1>4. Len(ObjectsOf(ps)) = Len(ps)
  BY <1>1, <1>2, Tabulated
<1>5. \A i \in 1 .. Len(ps) : IsSequence(ps[i].objects)
  BY DEF ArePayloads, IsPayload
<1>6. AreSequences(ObjectsOf(ps))
  BY <1>1, <1>3, <1>4, <1>5 DEF AreSequences
<1>7. Joined(ps) = Concatenated(ObjectsOf(ps))
  BY DEF Joined, ObjectsOf
<1>. QED  BY <1>1, <1>3, <1>4, <1>6, <1>7

(* What the payloads hold together are objects.                            *)
LEMMA JoinedShape ==
    ASSUME NEW ps, ArePayloads(ps)
    PROVE  \A i \in 0 .. Len(ps) :
             /\ IsSequence(Joined(ps)[i]) /\ Len(Joined(ps)[i]) \in Nat
             /\ DOMAIN Joined(ps)[i] = 1 .. Len(Joined(ps)[i])
             /\ \A x \in 1 .. Len(Joined(ps)[i]) : IsObject(Joined(ps)[i][x])
<1>. DEFINE ss == ObjectsOf(ps)
            All == UNION {{ss[i][x] : x \in DOMAIN ss[i]} : i \in 1 .. Len(ps)}
            T == {o \in All : IsObject(o)}
<1>1. /\ Len(ps) \in Nat /\ AreSequences(ss) /\ Len(ss) = Len(ps)
      /\ \A i \in 1 .. Len(ps) : ss[i] = ps[i].objects
      /\ Joined(ps) = Concatenated(ss)
  BY ObjectsOfPayloads
<1>2. ASSUME NEW i \in 1 .. Len(ps) PROVE ss[i] \in Seq(T)
  <2>1. IsSequence(ps[i].objects) /\ \A x \in DOMAIN ps[i].objects : IsObject(ps[i].objects[x])
    BY DEF ArePayloads, IsPayload
  <2>2. IsSequence(ss[i]) /\ \A x \in DOMAIN ss[i] : IsObject(ss[i][x])
    BY <1>1, <2>1, Zenon
  <2>. HIDE DEF ss
  <2>3. \A x \in DOMAIN ss[i] : ss[i][x] \in All
    OBVIOUS
  <2>. HIDE DEF All
  <2>4. \A x \in 1 .. Len(ss[i]) : ss[i][x] \in T
    BY <2>2, <2>3, SequenceShape
  <2>. HIDE DEF T
  <2>. QED  BY <2>2, <2>4, SequenceIn
<1>3. \A o \in T : IsObject(o)
  OBVIOUS
<1>. HIDE DEF ss, All, T
<1>4. \A i \in 0 .. Len(ps) : Concatenated(ss)[i] \in Seq(T)
  BY <1>1, <1>2, ConcatenatedMembers
<1>5. ASSUME NEW i \in 0 .. Len(ps)
      PROVE  /\ IsSequence(Joined(ps)[i]) /\ Len(Joined(ps)[i]) \in Nat
             /\ DOMAIN Joined(ps)[i] = 1 .. Len(Joined(ps)[i])
             /\ \A x \in 1 .. Len(Joined(ps)[i]) : IsObject(Joined(ps)[i][x])
  <2>1. Joined(ps)[i] \in Seq(T)
    BY <1>1, <1>4
  <2>. DEFINE js == Joined(ps)[i]
  <2>. HIDE DEF js
  <2>2. js \in Seq(T)
    BY <2>1 DEF js
  <2>3. IsSequence(js) /\ Len(js) \in Nat /\ DOMAIN js = 1 .. Len(js)
    BY <2>2, IsSequenceOf, SequenceShape
  <2>4. \A x \in 1 .. Len(js) : js[x] \in T
    BY <2>2
  <2>. QED  BY <1>3, <2>3, <2>4 DEF js
<1>. QED  BY <1>5

LEMMA ObjectsShape ==
    ASSUME NEW ps, ArePayloads(ps)
    PROVE  /\ IsSequence(Objects(ps)) /\ Len(Objects(ps)) \in Nat
           /\ DOMAIN Objects(ps) = 1 .. Len(Objects(ps))
           /\ \A x \in DOMAIN Objects(ps) : IsObject(Objects(ps)[x])
<1>1. Len(ps) \in 0 .. Len(ps)
  BY SequenceShape DEF ArePayloads
<1>2. /\ IsSequence(Objects(ps)) /\ Len(Objects(ps)) \in Nat
      /\ DOMAIN Objects(ps) = 1 .. Len(Objects(ps))
      /\ \A x \in 1 .. Len(Objects(ps)) : IsObject(Objects(ps)[x])
  BY <1>1, JoinedShape, Zenon DEF Objects
<1>. QED  BY <1>2

(* The objects of the first payloads are the first objects of all.         *)
LEMMA SampleOfObjects ==
    ASSUME NEW ps, ArePayloads(ps), NEW n \in 0 .. Len(ps)
    PROVE  /\ ArePayloads(SubSeq(ps, 1, n)) /\ Len(SubSeq(ps, 1, n)) = n
           /\ \A i \in 1 .. n : SubSeq(ps, 1, n)[i] = ps[i]
           /\ Objects(SubSeq(ps, 1, n)) = Joined(ps)[n]
           /\ Begins(Objects(SubSeq(ps, 1, n)), Objects(ps))
<1>. DEFINE qs == SubSeq(ps, 1, n)
<1>0. IsSequence(ps) /\ Len(ps) \in Nat /\ n \in Nat /\ n <= Len(ps) /\ Len(ps) \in n .. Len(ps)
  BY SequenceShape DEF ArePayloads
<1>1. IsSequence(qs) /\ Len(qs) = n /\ \A i \in 1 .. n : qs[i] = ps[i]
  BY <1>0, Beginning
<1>. HIDE DEF qs
<1>2. ArePayloads(qs)
  BY <1>0, <1>1 DEF ArePayloads
<1>3. \A i \in 1 .. n : i \in 1 .. Len(ps)
  BY <1>0
<1>4. \A i \in 1 .. n : ObjectsOf(qs)[i] = ObjectsOf(ps)[i]
  <2>1. \A i \in 1 .. n : ObjectsOf(qs)[i] = qs[i].objects
    BY <1>1, <1>2, ObjectsOfPayloads
  <2>2. \A i \in 1 .. Len(ps) : ObjectsOf(ps)[i] = ps[i].objects
    BY ObjectsOfPayloads
  <2>. QED  BY <1>1, <1>3, <2>1, <2>2, Zenon
<1>5. Len(ObjectsOf(qs)) = n /\ Len(ObjectsOf(ps)) = Len(ps)
  BY <1>1, <1>2, ObjectsOfPayloads
<1>6. \A i \in 0 .. n : Concatenated(ObjectsOf(qs))[i] = Concatenated(ObjectsOf(ps))[i]
  <2>. DEFINE as == ObjectsOf(qs)
              bs == ObjectsOf(ps)
  <2>1. /\ Len(as) \in Nat /\ Len(bs) \in Nat /\ n <= Len(as) /\ n <= Len(bs)
        /\ \A i \in 1 .. n : as[i] = bs[i]
    BY <1>0, <1>4, <1>5
  <2>. HIDE DEF as, bs
  <2>2. \A i \in 0 .. n : Concatenated(as)[i] = Concatenated(bs)[i]
    BY <1>0, <2>1, ConcatenatedAgrees
  <2>. QED  BY <2>2 DEF as, bs
<1>7. Joined(qs) = Concatenated(ObjectsOf(qs)) /\ Joined(ps) = Concatenated(ObjectsOf(ps))
  BY <1>2, ObjectsOfPayloads
<1>8. Objects(qs) = Joined(ps)[n]
  <2>1. n \in 0 .. n
    BY <1>0
  <2>. QED  BY <1>1, <1>6, <1>7, <2>1, Zenon DEF Objects
<1>9. Begins(Joined(ps)[n], Objects(ps))
  <2>1. Begins(Concatenated(ObjectsOf(ps))[n], Concatenated(ObjectsOf(ps))[Len(ps)])
    <3>. DEFINE ss == ObjectsOf(ps)
    <3>1. AreSequences(ss) /\ n \in 0 .. Len(ss) /\ Len(ps) \in n .. Len(ss)
      BY <1>0, <1>5, ObjectsOfPayloads
    <3>. HIDE DEF ss
    <3>2. Begins(Concatenated(ss)[n], Concatenated(ss)[Len(ps)])
      BY <3>1, ConcatenatedGrows
    <3>. QED  BY <3>2 DEF ss
  <2>. QED  BY <1>7, <2>1, Zenon DEF Objects
<1>10. Begins(Objects(qs), Objects(ps))
  BY <1>8, <1>9, Zenon
<1>. QED  BY <1>1, <1>2, <1>8, <1>10 DEF qs

(* First takes the beginning of a sequence.                                *)
LEMMA FirstOnes ==
    ASSUME NEW s, IsSequence(s), NEW n \in Nat
    PROVE  /\ IsSequence(First(n, s)) /\ Begins(First(n, s), s)
           /\ Len(First(n, s)) = IF Len(s) <= n THEN Len(s) ELSE n
           /\ DOMAIN First(n, s) = 1 .. Len(First(n, s))
<1>0. Len(s) \in Nat
  BY SequenceShape
<1>1. CASE Len(s) <= n
  <2>1. First(n, s) = s
    BY <1>1 DEF First
  <2>2. Begins(s, s)
    BY <1>0 DEF Begins
  <2>. QED  BY <1>1, <2>1, <2>2, SequenceShape
<1>2. CASE ~(Len(s) <= n)
  <2>1. First(n, s) = SubSeq(s, 1, n)
    BY <1>2 DEF First
  <2>2. n \in 0 .. Len(s)
    BY <1>0, <1>2
  <2>3. /\ IsSequence(First(n, s)) /\ Len(First(n, s)) = n
        /\ \A i \in 1 .. n : First(n, s)[i] = s[i]
    BY <2>1, <2>2, Beginning
  <2>4. Begins(First(n, s), s)
    BY <2>2, <2>3, <1>0 DEF Begins
  <2>. QED  BY <1>2, <2>3, <2>4, SequenceShape
<1>. QED  BY <1>1, <1>2

-----------------------------------------------------------------------------
(* infer_schema and decode_batch. *)

(* A payload of one line that is not a tombstone holds an object.          *)
LEMMA NoTombstone ==
    ASSUME NEW p, IsPayload(p), p.valid, p.perLine, p # Tombstone
    PROVE  Len(p.objects) \in Nat \ {0}
<1>1. p.objects # <<>>
  <2>. SUFFICES ASSUME p.objects = <<>> PROVE FALSE
    OBVIOUS
  <2>1. p.valid = TRUE /\ p.perLine = TRUE
    BY DEF IsPayload
  <2>2. p = [valid |-> TRUE, perLine |-> TRUE, objects |-> <<>>]
    BY <2>1, Zenon DEF IsPayload
  <2>. QED  BY <2>2 DEF Tombstone, Payload
<1>2. Len(p.objects) \in Nat
  BY SequenceShape DEF IsPayload
<1>3. Len(p.objects) = 0 => p.objects = <<>>
  BY NoElements, SequencesEqual DEF IsPayload
<1>. QED  BY <1>1, <1>2, <1>3

(* A schema inferred from the beginning of objects that agree suits all,   *)
(* if the beginning tells the type of each column that it names.           *)
LEMMA AgreeingFit ==
    ASSUME NEW objects, NEW seen, IsSequence(objects), IsSequence(seen), Begins(seen, objects),
           \A i \in DOMAIN objects : IsObject(objects[i]), Agree(objects),
           \A c \in Columns(seen) : ValuesOf(c, seen) = {Null} => ValuesOf(c, objects) = {Null},
           NEW o \in {objects[i] : i \in DOMAIN objects}
    PROVE  Fits(o, [c \in Columns(seen) |-> TypeOf(c, seen)])
<1>1. \A i \in DOMAIN seen : i \in DOMAIN objects /\ seen[i] = objects[i]
  BY SequenceShape DEF Begins
<1>. DEFINE schema == [c \in Columns(seen) |-> TypeOf(c, seen)]
<1>. SUFFICES ASSUME NEW c \in DOMAIN o.columns, c \in Columns(seen)
              PROVE  \/ o.columns[c] \in {Null, TypeOf(c, seen)}
                     \/ {o.columns[c], TypeOf(c, seen)} \subseteq Numbers
  BY DEF Fits
<1>. DEFINE v == o.columns[c]
            all == ValuesOf(c, objects)
            some == ValuesOf(c, seen)
            types == some \ {Null}
<1>2. v \in all /\ c \in Columns(objects) /\ v \in Values
  BY DEF ValuesOf, Columns, IsObject
<1>3. some \subseteq all /\ some # {}
  BY <1>1 DEF ValuesOf, Columns
<1>4. \A x, y \in all \ {Null} : x = y \/ {x, y} \subseteq Numbers
  BY <1>2 DEF Agree
<1>5. TypeOf(c, seen) = IF types = {} THEN Null ELSE IF types = {"int"} THEN "int"
                        ELSE IF types \subseteq Numbers THEN "float" ELSE "text"
  BY DEF TypeOf
<1>6. some = {Null} => all = {Null}
  OBVIOUS
<1>. HIDE DEF v, all, some
<1>7. CASE v = Null
  BY <1>7 DEF v
<1>8. CASE v # Null
  <2>1. types # {} /\ \A w \in types : w = v \/ {w, v} \subseteq Numbers
    BY <1>2, <1>3, <1>4, <1>6, <1>8
  <2>2. CASE v = "text"
    <3>1. types = {"text"} /\ {"text"} # {"int"} /\ ~({"text"} \subseteq Numbers)
      BY <2>1, <2>2 DEF Numbers
    <3>2. TypeOf(c, seen) = "text"
      BY <1>5, <2>1, <3>1
    <3>. QED  BY <2>2, <3>2 DEF v
  <2>3. CASE v \in Numbers
    <3>1. types \subseteq Numbers
      BY <2>1, <2>3
    <3>2. TypeOf(c, seen) \in Numbers
      BY <1>5, <2>1, <3>1 DEF Numbers
    <3>. QED  BY <2>3, <3>2 DEF v
  <2>. QED  BY <1>2, <1>8, <2>2, <2>3 DEF Values
<1>. QED  BY <1>7, <1>8

(* When no payload has more than one object, there are no more objects     *)
(* than payloads.                                                          *)
LEMMA ObjectsShort ==
    ASSUME NEW ps, ArePayloads(ps), \A i \in 1 .. Len(ps) : Len(ps[i].objects) <= 1
    PROVE  Len(Objects(ps)) <= Len(ps)
<1>0. Len(ps) \in Nat
  BY ObjectsOfPayloads
<1>. DEFINE ss == ObjectsOf(ps)
<1>1. /\ AreSequences(ss) /\ Len(ss) = Len(ps) /\ \A i \in 1 .. Len(ps) : ss[i] = ps[i].objects
      /\ Joined(ps) = Concatenated(ss)
  BY ObjectsOfPayloads
<1>. HIDE DEF ss
<1>2. \A i \in 1 .. Len(ss) : Len(ss[i]) <= 1
  BY <1>1
<1>3. \A i \in 0 .. Len(ss) : Len(Concatenated(ss)[i]) <= i
  BY <1>1, <1>2, ConcatenatedShort
<1>4. Len(ps) \in 0 .. Len(ss)
  BY <1>0, <1>1
<1>. QED  BY <1>1, <1>3, <1>4, Zenon DEF Objects

(* A payload that is not a tombstone has an object among all of them.      *)
LEMMA SomeObject ==
    ASSUME NEW ps, ArePayloads(ps), NEW k \in 1 .. Len(ps), Len(ps[k].objects) # 0
    PROVE  Len(Objects(ps)) # 0
<1>. DEFINE ss == ObjectsOf(ps)
            C == Concatenated(ss)
<1>1. /\ AreSequences(ss) /\ Len(ss) = Len(ps) /\ ss[k] = ps[k].objects /\ Joined(ps) = C
      /\ Len(ps) \in Nat
  BY ObjectsOfPayloads
<1>2. /\ k \in 1 .. Len(ss) /\ k - 1 \in 0 .. Len(ss) /\ k \in 0 .. Len(ss)
      /\ Len(ps) \in k .. Len(ss) /\ Len(ss) \in Nat
  BY <1>1
<1>. HIDE DEF ss
<1>3. C[k] = C[k - 1] \o ss[k]
  BY <1>2, ConcatenatedUnfolds
<1>4. IsSequence(C[k - 1]) /\ IsSequence(ss[k]) /\ IsSequence(C[Len(ps)])
  BY <1>1, <1>2, ConcatenatedType DEF AreSequences
<1>5. Begins(C[k], C[Len(ps)])
  BY <1>1, <1>2, ConcatenatedGrows
<1>. HIDE DEF C
<1>6. Len(C[k - 1] \o ss[k]) = Len(C[k - 1]) + Len(ss[k]) /\ Len(C[k - 1]) \in Nat /\ Len(ss[k]) \in Nat
  BY <1>4, Concatenating, SequenceShape
<1>7. Len(C[k]) = Len(C[k - 1]) + Len(ss[k])
  BY <1>3, <1>6, Zenon
<1>8. Len(ss[k]) # 0 /\ Len(C[k]) <= Len(C[Len(ps)]) /\ Len(C[Len(ps)]) \in Nat
  BY <1>1, <1>4, <1>5, SequenceShape DEF Begins
<1>9. Len(C[Len(ps)]) # 0
  <2>1. \A a, b, y \in Nat : b # 0 /\ a + b <= y => y # 0
    OBVIOUS
  <2>2. Len(C[k - 1]) + Len(ss[k]) <= Len(C[Len(ps)])
    BY <1>7, <1>8, Zenon
  <2>. QED  BY <1>6, <1>8, <2>1, <2>2, Zenon
<1>. QED  BY <1>1, <1>9, Zenon DEF Objects

(* Payloads of one line each, whose values agree, decode with the schema   *)
(* of their first n, whatever n is, if those tell the types of the columns *)
(* that they name.                                                         *)
THEOREM DecodablePayloadsDecode ==
    ASSUME NEW ps, ArePayloads(ps), NEW n \in 1 .. Len(ps),
           \A i \in 1 .. Len(ps) : OneLine(ps[i]), Agree(Objects(ps)), Tell(n, ps)
    PROVE  Infers(SubSeq(ps, 1, n)) /\ Decodes(ps, InferSchema(SubSeq(ps, 1, n)))
<1>. DEFINE qs == SubSeq(ps, 1, n)
<1>0. Len(ps) \in Nat /\ DOMAIN ps = 1 .. Len(ps) /\ n \in 0 .. Len(ps) /\ n \in Nat
      /\ \A i \in 1 .. n : i \in 1 .. Len(ps)
  BY ObjectsOfPayloads
<1>1. /\ ArePayloads(qs) /\ Len(qs) = n /\ \A i \in 1 .. n : qs[i] = ps[i]
      /\ Begins(Objects(qs), Objects(ps))
  BY <1>0, SampleOfObjects
<1>2. /\ \E i \in 1 .. n : ps[i] # Tombstone
      /\ \A c \in Columns(Objects(qs)) :
           ValuesOf(c, Objects(qs)) = {Null} => ValuesOf(c, Objects(ps)) = {Null}
  BY DEF Tell
<1>. HIDE DEF qs
<1>3. /\ \A i \in 1 .. Len(ps) : ps[i].valid /\ ps[i].perLine /\ Len(ps[i].objects) <= 1
      /\ \A i \in 1 .. n : qs[i].valid /\ qs[i].perLine /\ Len(qs[i].objects) <= 1
      /\ DOMAIN qs = 1 .. n
  BY <1>0, <1>1, ObjectsOfPayloads DEF OneLine
<1>4. Infers(qs)
  BY <1>1, <1>2, <1>3 DEF Infers
<1>5. IsSequence(Objects(ps)) /\ Len(Objects(ps)) \in Nat /\ DOMAIN Objects(ps) = 1 .. Len(Objects(ps))
      /\ \A i \in DOMAIN Objects(ps) : IsObject(Objects(ps)[i])
  BY ObjectsShape
<1>6. IsSequence(Objects(qs)) /\ Len(Objects(qs)) \in Nat
  BY <1>1, ObjectsShape
<1>7. Taken(ps) = Objects(ps)
  <2>1. Len(Objects(ps)) <= Len(ps)
    BY <1>3, ObjectsShort
  <2>. QED  BY <2>1 DEF Taken, First
<1>8. First(Len(qs), Objects(qs)) = Objects(qs)
  <2>1. Len(Objects(qs)) <= Len(qs)
    BY <1>1, <1>3, ObjectsShort
  <2>. QED  BY <2>1 DEF First
<1>9. Taken(ps) # <<>>
  <2>1. PICK k \in 1 .. n : ps[k] # Tombstone
    BY <1>2
  <2>2. Len(ps[k].objects) \in Nat \ {0}
    BY <1>0, <1>3, <2>1, NoTombstone DEF ArePayloads
  <2>3. Len(Objects(ps)) # 0
    BY <1>0, <2>2, SomeObject
  <2>. QED  BY <1>7, <2>3, NoElements
<1>10. InferSchema(qs) = [c \in Columns(Objects(qs)) |-> TypeOf(c, Objects(qs))]
  BY <1>8 DEF InferSchema
<1>11. ASSUME NEW i \in DOMAIN Taken(ps) PROVE Fits(Taken(ps)[i], InferSchema(qs))
  <2>. DEFINE o == Taken(ps)[i]
              some == Objects(qs)
              all == Objects(ps)
  <2>1. o \in {all[j] : j \in DOMAIN all}
    BY <1>7
  <2>2. /\ IsSequence(all) /\ IsSequence(some) /\ Begins(some, all) /\ Agree(all)
        /\ \A j \in DOMAIN all : IsObject(all[j])
        /\ \A c \in Columns(some) : ValuesOf(c, some) = {Null} => ValuesOf(c, all) = {Null}
    BY <1>1, <1>2, <1>5, <1>6
  <2>. HIDE DEF o, some, all
  <2>3. Fits(o, [c \in Columns(some) |-> TypeOf(c, some)])
    BY <2>1, <2>2, AgreeingFit
  <2>. QED  BY <1>10, <2>3 DEF o, some
<1>12. Decodes(ps, InferSchema(qs))
  BY <1>0, <1>3, <1>9, <1>11 DEF Decodes
<1>. QED  BY <1>4, <1>12 DEF qs

(* A batch has a row for each object that the decoder took.                *)
LEMMA BatchShape ==
    ASSUME NEW ps, ArePayloads(ps), NEW schema
    PROVE  /\ IsSequence(DecodeBatch(ps, schema))
           /\ DOMAIN DecodeBatch(ps, schema) = DOMAIN Taken(ps)
           /\ \A i \in DOMAIN Taken(ps) : DecodeBatch(ps, schema)[i].id = Taken(ps)[i].id
<1>1. Len(ps) \in Nat /\ IsSequence(Objects(ps))
  BY ObjectsOfPayloads, ObjectsShape
<1>2. IsSequence(Taken(ps))
  BY <1>1, FirstOnes DEF Taken
<1>3. Len(Taken(ps)) \in Nat /\ DOMAIN Taken(ps) = 1 .. Len(Taken(ps))
  BY <1>2, SequenceShape
<1>. DEFINE batch == DecodeBatch(ps, schema)
<1>4. batch = [i \in DOMAIN Taken(ps) |-> Row(Taken(ps)[i], schema)]
  BY DEF DecodeBatch
<1>. HIDE DEF batch
<1>5. batch = [i \in 1 .. Len(Taken(ps)) |-> batch[i]]
  BY <1>3, <1>4
<1>6. IsSequence(batch)
  BY <1>3, <1>5, Tabulated
<1>7. \A i \in DOMAIN Taken(ps) : batch[i].id = Taken(ps)[i].id
  BY <1>4 DEF Row
<1>. QED  BY <1>4, <1>6, <1>7 DEF batch

(* When no payload has more than one object, the rows are of all objects,  *)
(* in their order.                                                         *)
THEOREM EveryObjectHasItsRow ==
    ASSUME NEW ps, ArePayloads(ps), NEW schema, \A i \in 1 .. Len(ps) : Len(ps[i].objects) <= 1
    PROVE  LET batch == DecodeBatch(ps, schema)
           IN  [i \in DOMAIN batch |-> batch[i].id]
               = [i \in DOMAIN Objects(ps) |-> Objects(ps)[i].id]
<1>1. Len(ps) \in Nat /\ Len(Objects(ps)) \in Nat
  BY ObjectsOfPayloads, ObjectsShape
<1>2. Len(Objects(ps)) <= Len(ps)
  BY ObjectsShort
<1>3. Taken(ps) = Objects(ps)
  BY <1>2 DEF Taken, First
<1>4. /\ DOMAIN DecodeBatch(ps, schema) = DOMAIN Objects(ps)
      /\ \A i \in DOMAIN Objects(ps) : DecodeBatch(ps, schema)[i].id = Objects(ps)[i].id
  BY <1>3, BatchShape
<1>. QED  BY <1>4

(* Of one sequence there is nothing to concatenate.                        *)
LEMMA ConcatenatedAlone ==
    ASSUME NEW s, IsSequence(s)
    PROVE  AreSequences(<<s>>) /\ Len(<<s>>) = 1 /\ Concatenated(<<s>>)[1] = s
<1>. DEFINE ss == <<s>>
<1>1. Len(ss) = 1 /\ ss[1] = s
  OBVIOUS
<1>. HIDE DEF ss
<1>2. AreSequences(ss)
  BY <1>1 DEF AreSequences
<1>3. Len(ss) \in Nat /\ 1 \in 1 .. Len(ss) /\ 1 - 1 = 0
  BY <1>1
<1>4. Concatenated(ss)[0] = <<>> /\ Concatenated(ss)[1] = Concatenated(ss)[1 - 1] \o ss[1]
  BY <1>3, ConcatenatedUnfolds, Zenon
<1>5. Concatenated(ss)[1] = s
  BY <1>1, <1>3, <1>4, NothingBefore
<1>. QED  BY <1>1, <1>2, <1>5 DEF ss

=============================================================================

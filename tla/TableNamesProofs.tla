-------------------------- MODULE TableNamesProofs --------------------------
(***************************************************************************)
(* What the names of tables and directories are worth, for every topic.    *)
(***************************************************************************)
EXTENDS TableNames, SequenceTheorems, TLAPS

(* A name begins with a letter or an underscore, and with the topic's own  *)
(* first character exactly where that is one.                              *)
LEMMA InitialShape ==
    ASSUME NEW c
    PROVE  /\ Len(Initial(c)) \in {1, 2}
           /\ Initial(c) \in Seq(WordCharacters)
           /\ Initial(c)[1] \in Letters \cup {Underscore}
           /\ c \in Letters \cup {Underscore} => Initial(c) = <<c>>
<1>1. CASE c \in Letters \cup {Underscore}
  <2>1. Initial(c) = <<c>>
    BY <1>1 DEF Initial
  <2>. QED  BY <1>1, <2>1 DEF WordCharacters
<1>2. CASE c \notin Letters \cup {Underscore} /\ c \in Digits
  <2>1. Initial(c) = <<Underscore, c>>
    BY <1>2 DEF Initial
  <2>2. Underscore \in WordCharacters /\ c \in WordCharacters
    BY <1>2 DEF WordCharacters
  <2>. QED  BY <1>2, <2>1, <2>2
<1>3. CASE c \notin Letters \cup {Underscore} /\ c \notin Digits
  <2>1. Initial(c) = <<Underscore>>
    BY <1>3 DEF Initial
  <2>. QED  BY <1>3, <2>1 DEF WordCharacters
<1>. QED  BY <1>1, <1>2, <1>3

(* The length and the characters of a name that is made from t.            *)
LEMMA SqlTableNameShape ==
    ASSUME NEW S, NEW t \in Seq(S), t # <<>>, NEW n, n = Len(Initial(t[1]))
    PROVE  /\ Len(t) \in Nat \ {0}
           /\ n \in {1, 2}
           /\ SqlTableName(t) \in Seq(WordCharacters)
           /\ Len(SqlTableName(t)) = n + Len(t) - 1
           /\ \A i \in 1 .. n : SqlTableName(t)[i] = Initial(t[1])[i]
           /\ \A i \in 1 .. (Len(t) - 1) : SqlTableName(t)[n + i] = Sanitised(t[i + 1])
<1>. DEFINE rest == [i \in 1 .. (Len(t) - 1) |-> Sanitised(t[i + 1])]
<1>1. Len(t) \in Nat \ {0}
  BY EmptySeq
<1>2. n \in {1, 2} /\ Initial(t[1]) \in Seq(WordCharacters)
  BY InitialShape
<1>3. \A c : Sanitised(c) \in WordCharacters
  BY DEF Sanitised, WordCharacters
<1>4. Len(t) - 1 \in Nat
  BY <1>1
<1>5. rest \in Seq(WordCharacters) /\ Len(rest) = Len(t) - 1
  BY <1>3, <1>4
<1>6. SqlTableName(t) = Initial(t[1]) \o rest
  BY DEF SqlTableName
<1>7. \A i \in 1 .. (Len(t) - 1) : rest[i] = Sanitised(t[i + 1])
  OBVIOUS
<1>. HIDE DEF rest
<1>8. /\ SqlTableName(t) \in Seq(WordCharacters)
      /\ Len(SqlTableName(t)) = n + (Len(t) - 1)
      /\ \A i \in 1 .. (n + (Len(t) - 1)) :
            SqlTableName(t)[i] = IF i <= n THEN Initial(t[1])[i] ELSE rest[i - n]
  <2>1. \A a, b \in Seq(WordCharacters) :
            /\ a \o b \in Seq(WordCharacters)
            /\ Len(a \o b) = Len(a) + Len(b)
            /\ \A i \in 1 .. (Len(a) + Len(b)) :
                  (a \o b)[i] = IF i <= Len(a) THEN a[i] ELSE b[i - Len(a)]
    BY ConcatProperties
  <2>2. PICK first \in Seq(WordCharacters) : first = Initial(t[1])
    BY <1>2
  <2>3. /\ first \o rest \in Seq(WordCharacters)
        /\ Len(first \o rest) = Len(first) + Len(rest)
        /\ \A i \in 1 .. (Len(first) + Len(rest)) :
              (first \o rest)[i] = IF i <= Len(first) THEN first[i] ELSE rest[i - Len(first)]
    BY <1>5, <2>1
  <2>4. Len(first) = n /\ Len(rest) = Len(t) - 1 /\ SqlTableName(t) = first \o rest
    BY <1>5, <1>6, <2>2
  <2>5. /\ SqlTableName(t) \in Seq(WordCharacters)
        /\ Len(SqlTableName(t)) = n + (Len(t) - 1)
    BY <2>3, <2>4
  <2>6. \A i \in 1 .. (n + (Len(t) - 1)) :
            SqlTableName(t)[i] = IF i <= n THEN first[i] ELSE rest[i - n]
    BY <2>3, <2>4
  <2>. QED  BY <2>2, <2>5, <2>6
<1>9. \A i \in 1 .. n : SqlTableName(t)[i] = Initial(t[1])[i]
  BY <1>1, <1>2, <1>8
<1>10. ASSUME NEW i \in 1 .. (Len(t) - 1)
       PROVE  SqlTableName(t)[n + i] = Sanitised(t[i + 1])
  <2>1. n + i \in 1 .. (n + (Len(t) - 1)) /\ ~(n + i <= n) /\ (n + i) - n = i
    BY <1>1, <1>2
  <2>. QED  BY <1>7, <1>8, <2>1
<1>. QED  BY <1>1, <1>2, <1>8, <1>9, <1>10

(* Whatever the topic is called, the name of its table is of letters,      *)
(* digits and underscores, with no digit first.  It may still be a word    *)
(* that SQL reserves: nothing in the code prevents that.                   *)
LEMMA TableNameCharacters ==
    ASSUME NEW S, NEW t \in Seq(S)
    PROVE  /\ SqlTableName(t) \in Seq(WordCharacters) \ {<<>>}
           /\ SqlTableName(t)[1] \in Letters \cup {Underscore}
<1>1. CASE t = <<>>
  <2>1. SqlTableName(t) = <<Underscore>>
    BY <1>1 DEF SqlTableName
  <2>2. Underscore \in WordCharacters
    BY DEF WordCharacters
  <2>. QED  BY <2>1, <2>2
<1>2. CASE t # <<>>
  <2>1. PICK n : n = Len(Initial(t[1]))
    OBVIOUS
  <2>2. /\ Len(t) \in Nat \ {0} /\ n \in {1, 2}
        /\ SqlTableName(t) \in Seq(WordCharacters)
        /\ Len(SqlTableName(t)) = n + Len(t) - 1
        /\ \A i \in 1 .. n : SqlTableName(t)[i] = Initial(t[1])[i]
    BY <1>2, <2>1, SqlTableNameShape
  <2>3. SqlTableName(t)[1] \in Letters \cup {Underscore}
    BY <2>2, InitialShape
  <2>4. Len(SqlTableName(t)) # 0
    BY <2>2
  <2>. QED  BY <2>2, <2>3, <2>4
<1>. QED  BY <1>1, <1>2

(* The warning that the table has another name than the topic is given     *)
(* exactly when it has.                                                    *)
THEOREM WarnedWhenChanged ==
    ASSUME NEW S, NEW t \in Seq(S)
    PROVE  WasChanged(t) <=> SqlTableName(t) # t
<1>1. CASE t = <<>>
  BY <1>1 DEF WasChanged, SqlTableName
<1>2. CASE t # <<>>
  <2>1. PICK n : n = Len(Initial(t[1]))
    OBVIOUS
  <2>2. /\ Len(t) \in Nat \ {0} /\ n \in {1, 2}
        /\ SqlTableName(t) \in Seq(WordCharacters)
        /\ Len(SqlTableName(t)) = n + Len(t) - 1
        /\ \A i \in 1 .. n : SqlTableName(t)[i] = Initial(t[1])[i]
        /\ \A i \in 1 .. (Len(t) - 1) : SqlTableName(t)[n + i] = Sanitised(t[i + 1])
    BY <1>2, <2>1, SqlTableNameShape
  <2>3. ASSUME ~WasChanged(t) PROVE SqlTableName(t) = t
    <3>1. t[1] \in Letters \cup {Underscore} /\ \A i \in 2 .. Len(t) : t[i] \in WordCharacters
      BY <2>3 DEF WasChanged
    <3>2. Initial(t[1]) = <<t[1]>>
      BY <3>1, InitialShape
    <3>3. n = 1 /\ Initial(t[1])[1] = t[1]
      BY <2>1, <3>2
    <3>4. ASSUME NEW i \in 1 .. Len(t) PROVE SqlTableName(t)[i] = t[i]
      <4>1. CASE i = 1
        BY <2>2, <3>3, <4>1
      <4>2. CASE i # 1
        <5>1. /\ i - 1 \in 1 .. (Len(t) - 1) /\ i \in 2 .. Len(t)
              /\ 1 + (i - 1) = i /\ (i - 1) + 1 = i
          BY <2>2, <4>2
        <5>2. SqlTableName(t)[1 + (i - 1)] = Sanitised(t[(i - 1) + 1])
          BY <2>2, <3>3, <5>1
        <5>3. Sanitised(t[i]) = t[i]
          BY <3>1, <5>1 DEF Sanitised
        <5>. QED  BY <5>1, <5>2, <5>3
      <4>. QED  BY <4>1, <4>2
    <3>5. Len(SqlTableName(t)) = Len(t)
      BY <2>2, <3>3
    <3>. QED  BY <2>2, <3>4, <3>5, SeqEqual
  <2>4. ASSUME SqlTableName(t) = t PROVE ~WasChanged(t)
    <3>1. t[1] \in Letters \cup {Underscore}
      BY <2>4, TableNameCharacters
    <3>2. \A i \in 2 .. Len(t) : t[i] \in WordCharacters
      BY <2>2, <2>4
    <3>. QED  BY <1>2, <3>1, <3>2 DEF WasChanged
  <2>. QED  BY <2>3, <2>4
<1>. QED  BY <1>1, <1>2

(* Topics that Kafka accepts keep their entries in directories of their    *)
(* own: no query is answered with the entry of another topic.              *)
THEOREM DirectoriesAreApart ==
    ASSUME NEW S, NEW t \in Seq(S), NEW u \in Seq(S), IsTopicName(t), IsTopicName(u),
           SafeSegment(t) = SafeSegment(u)
    PROVE  t = u
<1>1. ASSUME NEW x \in Seq(S), IsTopicName(x) PROVE SafeSegment(x) = x
  <2>1. x # <<>> /\ \A i \in 1 .. Len(x) : x[i] \in TopicCharacters
    BY <1>1 DEF IsTopicName
  <2>2. \A i \in 1 .. Len(x) : (IF x[i] \in TopicCharacters \cup Foreign THEN x[i] ELSE Underscore) = x[i]
    BY <2>1
  <2>3. SafeSegment(x)
            = [i \in 1 .. Len(x) |-> IF x[i] \in TopicCharacters \cup Foreign THEN x[i] ELSE Underscore]
    BY <2>1 DEF SafeSegment
  <2>4. x = [i \in 1 .. Len(x) |-> x[i]]
    OBVIOUS
  <2>. QED  BY <2>2, <2>3, <2>4
<1>. QED  BY <1>1
=============================================================================

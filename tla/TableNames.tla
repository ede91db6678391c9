----------------------------- MODULE TableNames -----------------------------
(***************************************************************************)
(* What becomes of the name of a topic: the name of its table              *)
(* (sql_table_name of table.rs), the name under which DataFusion files     *)
(* that table, and its directory in the cache (safe_segment of cache.rs).  *)
(* A name is a sequence of characters.                                     *)
(***************************************************************************)
EXTENDS Naturals, Sequences

CONSTANTS
    Letters,      \* of ASCII
    Digits,       \* of ASCII
    Foreign,      \* letters and digits outside ASCII
    LowerCase     \* the small letter of every letter

ASSUME NameAssumption ==
    /\ LowerCase \in [Letters -> Letters]
    /\ Letters \cap Digits = {}
    /\ Letters \cap Foreign = {} /\ Digits \cap Foreign = {}
    /\ (Letters \cup Digits \cup Foreign) \cap {"_", "-", "."} = {}

Underscore == "_"

WordCharacters == Letters \cup Digits \cup {Underscore}

TopicCharacters == WordCharacters \cup {"-", "."}

(* The names that Kafka accepts for a topic. *)
IsTopicName(t) == t # <<>> /\ \A i \in DOMAIN t : t[i] \in TopicCharacters

Initial(c) ==
    IF c \in Letters \cup {Underscore} THEN <<c>>
    ELSE IF c \in Digits THEN <<Underscore, c>>
    ELSE <<Underscore>>

Sanitised(c) == IF c \in WordCharacters THEN c ELSE Underscore

(* The name and, apart, whether it differs from the topic's. *)
SqlTableName(t) ==
    IF t = <<>> THEN <<Underscore>>
    ELSE Initial(t[1]) \o [i \in 1 .. (Len(t) - 1) |-> Sanitised(t[i + 1])]

WasChanged(t) ==
    \/ t = <<>>
    \/ t[1] \notin Letters \cup {Underscore}
    \/ \E i \in 2 .. Len(t) : t[i] \notin WordCharacters

(* DataFusion folds a name without quotes to lower case. *)
EngineName(n) ==
    [i \in 1 .. Len(n) |-> IF n[i] \in Letters THEN LowerCase[n[i]] ELSE n[i]]

(* A mutant: a directory is named like the table. *)
SafeSegmentLikeSql(t) == [i \in 1 .. Len(t) |-> Sanitised(t[i])]

SafeSegment(t) ==
    IF t = <<>> THEN <<Underscore>>
    ELSE [i \in 1 .. Len(t) |-> IF t[i] \in TopicCharacters \cup Foreign THEN t[i] ELSE Underscore]
=============================================================================

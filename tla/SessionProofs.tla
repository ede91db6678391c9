--------------------------- MODULE SessionProofs ---------------------------
(***************************************************************************)
(* Names, tables, schemas, answers and the cache of a session, for any     *)
(* topics, contents and command lines.                                     *)
(***************************************************************************)
EXTENDS Session, DecodeProofs, TableNamesProofs

Loading == {"load", "decode", "write", "register"}

(* Where the command is in its list of topics. *)
PlaceInv ==
    /\ command \in Invocations \cup {NoCommand}
    /\ next \in Nat \ {0}
    /\ pc \in Loading => next <= Len(command.topics)
    /\ pc \in {"sql", "print", "flush", "done"} => next = Len(command.topics) + 1
    /\ pc = "idle" => next = 1 /\ engine = Nothing /\ schemas = Nothing

(* No SQL runs while topics are loaded.                                    *)
StageInv == pc \in Loading \cup {"idle"} => touched = {}

(* Every loaded topic has a table, unless SQL has taken it, and none       *)
(* shares it: this is why the engine's refusal is enough.                  *)
TablesInv ==
    pc # "failed" =>
        /\ \A j \in 1 .. (next - 1) : TableOf(command.topics[j]) \in DOMAIN engine \cup touched
        /\ \A i, j \in 1 .. (next - 1) :
             TableOf(command.topics[i]) = TableOf(command.topics[j]) => i = j

SessionInv == PlaceInv /\ StageInv /\ TablesInv /\ DescribesNoOtherTable

-----------------------------------------------------------------------------
(* The list of topics of a command is a sequence.                          *)
LEMMA TopicsAreListed ==
    ASSUME NEW c \in Invocations \cup {NoCommand}
    PROVE  /\ Len(c.topics) \in Nat
           /\ DOMAIN c.topics = 1 .. Len(c.topics)
           /\ c \in Invocations => Len(c.topics) # 0
<1>1. CASE c \in Invocations
  <2>1. c.topics \in Seq(Topics) /\ c.topics # <<>>
    BY <1>1, SessionAssumption
  <2>. QED  BY <2>1
<1>2. CASE c = NoCommand
  <2>1. c.topics = <<>>
    BY <1>2 DEF NoCommand
  <2>2. c \notin Invocations
    <3>1. c.kind = "none"
      BY <1>2 DEF NoCommand
    <3>. QED  BY <3>1, SessionAssumption
  <2>. QED  BY <2>1, <2>2
<1>. QED  BY <1>1, <1>2

LEMMA SessionInit == Init => SessionInv
<1>. SUFFICES ASSUME Init PROVE SessionInv
  OBVIOUS
<1>1. PlaceInv /\ StageInv /\ TablesInv
  BY DEF Init, PlaceInv, StageInv, TablesInv, Loading
<1>2. DescribesNoOtherTable
  BY DEF Init, DescribesNoOtherTable, Nothing
<1>. QED  BY <1>1, <1>2 DEF SessionInv

(* A step that leaves names and tables alone.                              *)
LEMMA TablesStay ==
    ASSUME SessionInv, UNCHANGED <<command, next, tables>>,
           pc' \in Loading => pc \in Loading,
           pc' \in {"sql", "print", "flush", "done"} => pc \in {"sql", "print", "flush", "done"},
           pc' # "idle", pc # "failed"
    PROVE  SessionInv'
<1>1. /\ command' = command /\ next' = next
      /\ engine' = engine /\ schemas' = schemas /\ touched' = touched
  BY DEF tables
<1>2. PlaceInv' /\ StageInv'
  BY <1>1 DEF SessionInv, PlaceInv, StageInv, Caching
<1>3. TablesInv'
  BY <1>1 DEF SessionInv, TablesInv
<1>4. DescribesNoOtherTable'
  BY <1>1 DEF SessionInv, DescribesNoOtherTable
<1>. QED  BY <1>2, <1>3, <1>4 DEF SessionInv

LEMMA OthersKeep ==
    SessionInv /\ ((\E t \in Topics : Produce(t)) \/ (\E s \in DOMAIN cache : Expire(s))) => SessionInv'
<1>. SUFFICES ASSUME SessionInv,
                     (\E t \in Topics : Produce(t)) \/ (\E s \in DOMAIN cache : Expire(s))
              PROVE  SessionInv'
  OBVIOUS
<1>1. UNCHANGED <<command, pc, next, engine, schemas, touched>>
  BY DEF Produce, Expire, loading, tables
<1>2. PlaceInv' /\ StageInv'
  BY <1>1 DEF SessionInv, PlaceInv, StageInv, Caching
<1>3. TablesInv' /\ DescribesNoOtherTable'
  BY <1>1 DEF SessionInv, TablesInv, DescribesNoOtherTable
<1>. QED  BY <1>2, <1>3 DEF SessionInv

LEMMA BeginKeeps == SessionInv /\ Begin => SessionInv'
<1>. SUFFICES ASSUME SessionInv, Begin PROVE SessionInv'
  OBVIOUS
<1>1. /\ pc = "idle" /\ pc' = "load" /\ command' \in Invocations
      /\ next' = next /\ next = 1
      /\ engine' = engine /\ schemas' = schemas /\ touched' = touched
      /\ schemas = Nothing /\ touched = {}
  BY DEF Begin, Goto, loading, tables, SessionInv, PlaceInv, StageInv
<1>2. Len(command'.topics) \in Nat /\ Len(command'.topics) # 0
  BY <1>1, TopicsAreListed
<1>3. PlaceInv' /\ StageInv'
  BY <1>1, <1>2 DEF PlaceInv, StageInv, Loading
<1>4. TablesInv' /\ DescribesNoOtherTable'
  BY <1>1 DEF TablesInv, DescribesNoOtherTable, Nothing
<1>. QED  BY <1>3, <1>4 DEF SessionInv

LEMMA FetchKeeps == SessionInv /\ (Hit \/ Fetch \/ DecodePayloads \/ Write) => SessionInv'
<1>. SUFFICES ASSUME SessionInv, Hit \/ Fetch \/ DecodePayloads \/ Write PROVE SessionInv'
  OBVIOUS
<1>1. /\ UNCHANGED <<command, next, tables>>
      /\ pc \in Loading /\ pc' \in {"decode", "write", "register", "failed"}
  BY DEF Hit, Fetch, DecodePayloads, Write, Goto, Fail, Loading, loading
<1>. QED  BY <1>1, TablesStay DEF Loading

LEMMA RegisterKeeps == SessionInv /\ Register => SessionInv'
<1>. SUFFICES ASSUME SessionInv, Register PROVE SessionInv'
  OBVIOUS
<1>1. CASE TableName \in DOMAIN engine
  <2>1. UNCHANGED <<command, next, tables>> /\ pc = "register" /\ pc' = "failed"
    BY <1>1 DEF Register, Fail, loading, tables
  <2>. QED  BY <2>1, TablesStay DEF Loading
<1>2. CASE TableName \notin DOMAIN engine
  <2>1. /\ pc = "register" /\ command' = command /\ next' = next + 1 /\ touched' = touched
        /\ engine' = Put(engine, TableName, batches)
        /\ pc' = IF next < Len(command.topics) THEN "load" ELSE "sql"
        /\ \/ schemas' = schemas
           \/ \E s \in Described : schemas' = Put(schemas, SqlTableName(Topic), s)
    BY <1>2 DEF Register, Goto
  <2>2. /\ next \in Nat \ {0} /\ next <= Len(command.topics) /\ Len(command.topics) \in Nat
        /\ touched = {} /\ command \in Invocations \cup {NoCommand}
    BY <2>1, TopicsAreListed DEF SessionInv, PlaceInv, StageInv, Loading
  <2>3. PlaceInv' /\ StageInv'
    BY <2>1, <2>2 DEF PlaceInv, StageInv, Loading
  <2>4. /\ DOMAIN engine' = DOMAIN engine \cup {TableName}
        /\ engine'[TableName] = batches
        /\ \A n \in DOMAIN engine : engine'[n] = engine[n]
    BY <1>2, <2>1 DEF Put
  <2>5. TableOf(command.topics[next]) = TableName
    BY DEF TableOf, TableName, Topic
  <2>6. /\ \A j \in 1 .. (next - 1) : TableOf(command.topics[j]) \in DOMAIN engine
        /\ \A i, j \in 1 .. (next - 1) :
             TableOf(command.topics[i]) = TableOf(command.topics[j]) => i = j
    BY <2>1, <2>2 DEF SessionInv, TablesInv
  <2>7. TablesInv'
    <3>1. \A j \in 1 .. (next' - 1) : j \in 1 .. (next - 1) \/ j = next
      BY <2>1, <2>2
    <3>2. \A j \in 1 .. (next' - 1) : TableOf(command.topics[j]) \in DOMAIN engine'
      BY <2>4, <2>5, <2>6, <3>1
    <3>3. \A i, j \in 1 .. (next' - 1) :
             TableOf(command.topics[i]) = TableOf(command.topics[j]) => i = j
      BY <1>2, <2>5, <2>6, <3>1
    <3>. QED  BY <2>1, <3>2, <3>3 DEF TablesInv, TableOf
  <2>8. DescribesNoOtherTable'
    <3>1. ASSUME NEW n \in DOMAIN schemas', n \in DOMAIN schemas, schemas'[n] = schemas[n]
          PROVE  EngineName(n) \in DOMAIN engine'
                 /\ schemas'[n] \in {engine'[EngineName(n)].schema, Nothing}
      <4>1. EngineName(n) \in DOMAIN engine
            /\ schemas[n] \in {engine[EngineName(n)].schema, Nothing}
        BY <2>2, <3>1 DEF SessionInv, DescribesNoOtherTable
      <4>. QED  BY <2>4, <3>1, <4>1
    <3>2. CASE schemas' = schemas
      BY <3>1, <3>2 DEF DescribesNoOtherTable
    <3>3. CASE \E s \in Described : schemas' = Put(schemas, SqlTableName(Topic), s)
      <4>1. PICK s \in Described : schemas' = Put(schemas, SqlTableName(Topic), s)
        BY <3>3
      <4>2. /\ DOMAIN schemas' = DOMAIN schemas \cup {SqlTableName(Topic)}
            /\ schemas'[SqlTableName(Topic)] = s
            /\ \A n \in DOMAIN schemas : n # SqlTableName(Topic) => schemas'[n] = schemas[n]
        BY <4>1 DEF Put
      <4>3. EngineName(SqlTableName(Topic)) \in DOMAIN engine'
            /\ s \in {engine'[EngineName(SqlTableName(Topic))].schema, Nothing}
        BY <2>4 DEF Described, TableName
      <4>4. ASSUME NEW n \in DOMAIN schemas'
            PROVE  EngineName(n) \in DOMAIN engine'
                   /\ schemas'[n] \in {engine'[EngineName(n)].schema, Nothing}
        <5>1. CASE n = SqlTableName(Topic)
          BY <4>2, <4>3, <5>1
        <5>2. CASE n # SqlTableName(Topic)
          BY <3>1, <4>2, <5>2
        <5>. QED  BY <5>1, <5>2
      <4>. QED  BY <4>4 DEF DescribesNoOtherTable
    <3>. QED  BY <2>1, <3>2, <3>3
  <2>. QED  BY <2>3, <2>7, <2>8 DEF SessionInv
<1>. QED  BY <1>1, <1>2

LEMMA QueryKeeps == SessionInv /\ (RunQuery \/ Output) => SessionInv'
<1>. SUFFICES ASSUME SessionInv, RunQuery \/ Output PROVE SessionInv'
  OBVIOUS
<1>1. /\ UNCHANGED <<command, next, tables>>
      /\ pc \in {"sql", "print", "flush"} /\ pc' \in {"sql", "print", "flush", "done", "failed"}
  BY DEF RunQuery, Output, WriteTable, WriteBatch, FinishOutput, Flush, OutputFails,
         Execute, Goto, Fail, loading
<1>. QED  BY <1>1, TablesStay DEF Loading

(* SQL that changes tables: what it has touched is no longer described.    *)
LEMMA TouchKeeps ==
    ASSUME SessionInv, pc = "sql", UNCHANGED <<command, pc, next, schemas>>,
           NEW n, touched' = touched \cup {n},
           \A e : e # n => (e \in DOMAIN engine' <=> e \in DOMAIN engine),
           \A e \in DOMAIN engine : e # n => engine'[e] = engine[e]
    PROVE  SessionInv'
<1>1. PlaceInv' /\ StageInv'
  BY DEF SessionInv, PlaceInv, StageInv, Loading
<1>2. TablesInv'
  BY DEF SessionInv, TablesInv, TableOf
<1>3. DescribesNoOtherTable'
  <2>1. ASSUME NEW m \in DOMAIN schemas
        PROVE  LET e == EngineName(m)
               IN  \/ e \in touched'
                   \/ e \in DOMAIN engine' /\ schemas[m] \in {engine'[e].schema, Nothing}
    <3>1. CASE EngineName(m) = n
      BY <3>1
    <3>2. CASE EngineName(m) # n
      BY <3>2 DEF SessionInv, DescribesNoOtherTable
    <3>. QED  BY <3>1, <3>2
  <2>. QED  BY <2>1 DEF DescribesNoOtherTable
<1>. QED  BY <1>1, <1>2, <1>3 DEF SessionInv

LEMMA ReplKeeps == SessionInv /\ Repl => SessionInv'
<1>. SUFFICES ASSUME SessionInv, Repl PROVE SessionInv'
  OBVIOUS
<1>1. CASE (\E n \in DOMAIN engine, where \in BOOLEAN : Select(n, where))
           \/ (\E f \in Formats : SetFormat(f)) \/ Quit
  <2>1. /\ UNCHANGED <<command, next, tables>>
        /\ pc = "sql" /\ pc' \in {"sql", "print", "flush", "done"}
    BY <1>1 DEF Select, SetFormat, Quit, Prompt, Execute, Goto, loading
  <2>. QED  BY <2>1, TablesStay DEF Loading
<1>2. CASE \E n \in Created, m \in DOMAIN engine : CreateTable(n, m)
  <2>1. PICK n \in Created, m \in DOMAIN engine : CreateTable(n, m)
    BY <1>2
  <2>2. /\ pc = "sql" /\ UNCHANGED <<command, pc, next, schemas>>
        /\ touched' = touched \cup {n} /\ engine' = Put(engine, n, engine[m])
    BY <2>1 DEF CreateTable, Prompt, loading
  <2>3. /\ \A e : e # n => (e \in DOMAIN engine' <=> e \in DOMAIN engine)
        /\ \A e \in DOMAIN engine : e # n => engine'[e] = engine[e]
    BY <2>2 DEF Put
  <2>. QED  BY <2>2, <2>3, TouchKeeps
<1>3. CASE \E n \in DOMAIN engine : DropTable(n)
  <2>1. PICK n \in DOMAIN engine : DropTable(n)
    BY <1>3
  <2>2. /\ pc = "sql" /\ UNCHANGED <<command, pc, next, schemas>>
        /\ touched' = touched \cup {n} /\ engine' = Without(engine, n)
    BY <2>1 DEF DropTable, Prompt, loading
  <2>3. /\ \A e : e # n => (e \in DOMAIN engine' <=> e \in DOMAIN engine)
        /\ \A e \in DOMAIN engine : e # n => engine'[e] = engine[e]
    BY <2>2 DEF Without
  <2>. QED  BY <2>2, <2>3, TouchKeeps
<1>. QED  BY <1>1, <1>2, <1>3 DEF Repl

LEMMA ExitKeeps == SessionInv /\ Exit => SessionInv'
<1>. SUFFICES ASSUME SessionInv, Exit PROVE SessionInv'
  OBVIOUS
<1>1. PlaceInv' /\ StageInv' /\ TablesInv'
  BY DEF Exit, Goto, PlaceInv, StageInv, TablesInv, Loading
<1>2. DescribesNoOtherTable'
  BY DEF Exit, DescribesNoOtherTable, Nothing
<1>. QED  BY <1>1, <1>2 DEF SessionInv

(* The invariant of Session: where a command is in its topics, and what    *)
(* has become of those before.                                             *)
THEOREM SessionInvariance == Spec => []SessionInv
<1>1. Init => SessionInv
  BY SessionInit
<1>2. SessionInv /\ [Next]_vars => SessionInv'
  <2>. SUFFICES ASSUME SessionInv, [Next]_vars PROVE SessionInv'
    OBVIOUS
  <2>1. CASE (\E t \in Topics : Produce(t)) \/ (\E s \in DOMAIN cache : Expire(s))
    BY <2>1, OthersKeep
  <2>2. CASE Begin \/ Load
    BY <2>2, BeginKeeps, FetchKeeps, RegisterKeeps DEF Load
  <2>3. CASE RunQuery \/ Repl \/ Output \/ Exit
    BY <2>3, QueryKeeps, ReplKeeps, ExitKeeps
  <2>4. CASE UNCHANGED vars
    <3>1. UNCHANGED <<command, pc, next, engine, schemas, touched>>
      BY <2>4 DEF vars, loading, tables
    <3>2. PlaceInv' /\ StageInv'
      BY <3>1 DEF SessionInv, PlaceInv, StageInv, Caching
    <3>3. TablesInv' /\ DescribesNoOtherTable'
      BY <3>1 DEF SessionInv, TablesInv, DescribesNoOtherTable
    <3>. QED  BY <3>2, <3>3 DEF SessionInv
  <2>. QED  BY <2>1, <2>2, <2>3, <2>4 DEF Next
<1>. QED  BY <1>1, <1>2, PTL DEF Spec

(* No two topics of a command that gets as far as SQL share a table.       *)
THEOREM TablesAreApart == Spec => []OneTopicPerTable
<1>1. SessionInv => OneTopicPerTable
  <2>. SUFFICES ASSUME SessionInv, pc \in {"sql", "print", "flush", "done"},
                       NEW i \in DOMAIN command.topics, NEW j \in DOMAIN command.topics,
                       TableOf(command.topics[i]) = TableOf(command.topics[j])
                PROVE  i = j
    BY DEF OneTopicPerTable
  <2>1. command \in Invocations \cup {NoCommand} /\ next = Len(command.topics) + 1
    BY DEF SessionInv, PlaceInv
  <2>2. DOMAIN command.topics = 1 .. (next - 1)
    BY <2>1, TopicsAreListed
  <2>. QED  BY <2>2 DEF SessionInv, TablesInv
<1>. QED  BY <1>1, SessionInvariance, PTL

(* \d never shows the columns of another table than the one it names: it   *)
(* shows those that were loaded, or none.                                  *)
THEOREM Descriptions == Spec => []DescribesNoOtherTable
<1>1. SessionInv => DescribesNoOtherTable
  BY DEF SessionInv
<1>. QED  BY <1>1, SessionInvariance, PTL

-----------------------------------------------------------------------------
(* What tables and entries are made of. *)

(* rows are what some command makes of the first records.                  *)
Made(schema, rows, read, records) ==
    \E m \in 1 .. read :
        LET first == SubSeq(records, 1, read)
            inferred == InferSchema(SubSeq(first, 1, m))
        IN  schema = inferred /\ rows = DecodeBatch(first, inferred)

(* Entries are of the topic whose directory they are in.                   *)
CacheInv ==
    /\ log \in Contents
    /\ DOMAIN high = Topics /\ \A t \in Topics : high[t] \in 0 .. Len(log[t])
    /\ DOMAIN cache \subseteq {SafeSegment(t) : t \in Topics}
    /\ \A t \in Topics :
         SafeSegment(t) \in DOMAIN cache =>
            LET e == cache[SafeSegment(t)]
            IN  e.read \in 1 .. high[t] /\ Made(e.schema, e.rows, e.read, log[t])

(* What is loaded for a topic is of that topic, at every step of the way.  *)
LoadInv ==
    /\ pc = "decode" => \E k \in 1 .. high[Topic] : payloads = SubSeq(log[Topic], 1, k)
    /\ pc \in {"write", "register"} => 
         /\ AreSequences(batches.batches)
         /\ batches.read \in 1 .. high[Topic]
         /\ Made(batches.schema, RowsOf(batches.batches), batches.read, log[Topic])

(* Before SQL changes them, tables are those that were loaded, and each    *)
(* reads its topic.                                                        *)
EngineInv ==
    /\ \A n \in DOMAIN engine : AreSequences(engine[n].batches)
    /\ touched = {} =>
         \A n \in DOMAIN engine : \E j \in 1 .. (next - 1) : n = TableOf(command.topics[j])
    /\ \A j \in 1 .. (next - 1) :
         LET t == command.topics[j]
             n == TableOf(t)
         IN  \/ n \in touched
             \/ /\ n \in DOMAIN engine /\ engine[n].read \in 1 .. high[t]
                /\ Made(engine[n].schema, RowsOf(engine[n].batches), engine[n].read, log[t])

FailureInv ==
    /\ pc \in Loading \cup {"sql", "print", "flush", "idle", "done", "failed"}
    /\ failure = "none" <=> pc # "failed"

(* What is written so far are the batches that were shown.                 *)
OutputInv ==
    /\ AreSequences(answer) /\ shown \in 0 .. Len(answer)
    /\ out = [heads |-> out.heads, rows |-> out.rows, closed |-> out.closed]
    /\ out.heads \in {0, 1} /\ out.closed \in BOOLEAN
    /\ pc = "print" =>
         /\ out.rows = Concatenated(answer)[shown] /\ ~out.closed
         /\ out.heads = IF format = "csv" /\ shown # 0 THEN 1 ELSE 0
    /\ pc = "flush" => IsDocument

(* A query answers its statement, once and in full.                        *)
QueryInv ==
    command.kind = "query" =>
        /\ touched = {}
        /\ pc \in {"print", "flush"} => ~command.explain
        /\ pc \in {"print", "flush", "done"} /\ ~command.explain =>
             /\ command.select \in DOMAIN engine
             /\ answer = Answers(command.select, command.where)
        /\ pc = "done" /\ ~command.explain => IsDocument

DataInv ==
    /\ CacheInv /\ LoadInv /\ EngineInv
    /\ FailureInv /\ DecodableTopicsDecode /\ OutputInv /\ QueryInv

-----------------------------------------------------------------------------
(* The Parquet reader's batches hold the rows, in their order.             *)
LEMMA SplitRows ==
    ASSUME NEW rows, IsSequence(rows)
    PROVE  AreSequences(Split(rows)) /\ RowsOf(Split(rows)) = rows
<1>. DEFINE L == Len(rows)
            B == BatchRows
            q == (L + B - 1) \div B
            upTo(i) == IF i * B <= L THEN i * B ELSE L
            ss == Split(rows)
            C == Concatenated(ss)
            S == {i \in Nat : C[i] = SubSeq(rows, 1, upTo(i))}
<1>0. L \in Nat /\ B \in Nat \ {0}
  BY SequenceShape, SessionAssumption
<1>1. ss = [i \in 1 .. q |-> SubSeq(rows, (i - 1) * B + 1, upTo(i))]
  BY DEF Split
<1>. HIDE DEF L, B, ss
<1>2. q \in Nat /\ q * B >= L /\ (q - 1) * B < L
  BY <1>0
<1>. HIDE DEF q
<1>3. \A i \in 1 .. q : /\ i - 1 \in 0 .. q - 1 /\ (i - 1) * B \in Nat /\ (i - 1) * B <= L
                        /\ upTo(i - 1) = (i - 1) * B
                        /\ upTo(i) \in (i - 1) * B .. L
  <2>. SUFFICES ASSUME NEW i \in 1 .. q
                PROVE  /\ i - 1 \in 0 .. q - 1 /\ (i - 1) * B \in Nat /\ (i - 1) * B <= L
                       /\ upTo(i - 1) = (i - 1) * B
                       /\ upTo(i) \in (i - 1) * B .. L
    OBVIOUS
  <2>1. i * B \in Nat /\ (i - 1) * B \in Nat /\ (i - 1) * B <= (q - 1) * B /\ (i - 1) * B <= i * B
    BY <1>0, <1>2
  <2>2. (q - 1) * B \in Int
    BY <1>0, <1>2
  <2>3. (i - 1) * B <= L
    BY <1>0, <1>2, <2>1, <2>2
  <2>. QED  BY <1>0, <1>2, <2>1, <2>3
<1>4. ss = [i \in 1 .. q |-> ss[i]]
  BY <1>1
<1>5. Len(ss) = q
  BY <1>2, <1>4, Tabulated
<1>6. \A i \in 1 .. q : ss[i] = SubSeq(rows, (i - 1) * B + 1, upTo(i))
  BY <1>1
<1>. HIDE DEF upTo
<1>7. ASSUME NEW i \in 1 .. q
      PROVE  IsSequence(ss[i]) /\ SubSeq(rows, 1, upTo(i - 1)) \o ss[i] = SubSeq(rows, 1, upTo(i))
  <2>. DEFINE a == (i - 1) * B
              b == upTo(i)
  <2>1. a \in Nat /\ b \in a .. Len(rows) /\ upTo(i - 1) = a /\ ss[i] = SubSeq(rows, a + 1, b)
    BY <1>3, <1>6 DEF L
  <2>. HIDE DEF a, b
  <2>2. IsSequence(SubSeq(rows, a + 1, b))
        /\ SubSeq(rows, 1, a) \o SubSeq(rows, a + 1, b) = SubSeq(rows, 1, b)
    BY <2>1, Part, CutInTwo
  <2>3. IsSequence(ss[i]) /\ SubSeq(rows, 1, upTo(i - 1)) \o ss[i] = SubSeq(rows, 1, b)
    BY <2>1, <2>2, Zenon
  <2>. QED  BY <2>3 DEF b
<1>8. AreSequences(ss)
  BY <1>2, <1>5, <1>7 DEF AreSequences
<1>9. /\ C[0] = <<>>
      /\ \A i \in 1 .. q : C[i] = C[i - 1] \o ss[i]
  BY <1>2, <1>5, ConcatenatedUnfolds
<1>. HIDE DEF C
<1>10. 0 \in S
  <2>1. upTo(0) = 0
    BY <1>0 DEF upTo
  <2>2. 0 \in 0 .. Len(rows)
    BY <1>0 DEF L
  <2>3. IsSequence(SubSeq(rows, 1, 0)) /\ Len(SubSeq(rows, 1, 0)) = 0
    BY <2>2, Beginning
  <2>4. SubSeq(rows, 1, 0) = <<>>
    BY <2>3, NoElements, SequencesEqual
  <2>. QED  BY <1>9, <2>1, <2>4
<1>11. ASSUME NEW i \in 0 .. q - 1, i \in S PROVE i + 1 \in S
  <2>1. i + 1 \in 1 .. q /\ (i + 1) - 1 = i /\ i + 1 \in Nat
    BY <1>2
  <2>2. C[i + 1] = C[i] \o ss[i + 1]
    BY <1>9, <2>1
  <2>3. C[i] = SubSeq(rows, 1, upTo(i))
    BY <1>11
  <2>4. SubSeq(rows, 1, upTo(i)) \o ss[i + 1] = SubSeq(rows, 1, upTo(i + 1))
    BY <1>7, <2>1
  <2>5. C[i + 1] = SubSeq(rows, 1, upTo(i + 1))
    BY <2>2, <2>3, <2>4, Zenon
  <2>. QED  BY <2>1, <2>5
<1>12. q \in S
  <2>. HIDE DEF S
  <2>1. \A i \in 0 .. q : i \in S
    BY <1>2, <1>10, <1>11, BoundedInduction
  <2>. QED  BY <1>2, <2>1
<1>13. C[q] = SubSeq(rows, 1, L)
  <2>1. upTo(q) = L
    BY <1>0, <1>2 DEF upTo
  <2>2. C[q] = SubSeq(rows, 1, upTo(q))
    BY <1>12
  <2>. QED  BY <2>1, <2>2, Zenon
<1>14. SubSeq(rows, 1, L) = rows
  <2>1. L \in 0 .. Len(rows)
    BY <1>0 DEF L
  <2>2. /\ IsSequence(SubSeq(rows, 1, L)) /\ Len(SubSeq(rows, 1, L)) = L
        /\ \A i \in 1 .. L : SubSeq(rows, 1, L)[i] = rows[i]
    BY <2>1, Beginning
  <2>. QED  BY <2>2, SequencesEqual DEF L
<1>15. RowsOf(ss) = rows
  BY <1>5, <1>13, <1>14, Zenon DEF RowsOf, C
<1>. QED  BY <1>8, <1>15 DEF ss

(* Producers write payloads, and topics have directories of their own.     *)
LEMMA LogsArePayloads ==
    ASSUME NEW l \in Contents, NEW t \in Topics
    PROVE  ArePayloads(l[t]) /\ IsSequence(l[t]) /\ Len(l[t]) \in Nat
<1>1. IsSequence(l[t]) /\ \A i \in DOMAIN l[t] : IsPayload(l[t][i])
  BY SessionAssumption
<1>2. Len(l[t]) \in Nat /\ DOMAIN l[t] = 1 .. Len(l[t])
  BY <1>1, SequenceShape
<1>. QED  BY <1>1, <1>2 DEF ArePayloads

LEMMA OneDirectoryEach ==
    ASSUME NEW t \in Topics, NEW u \in Topics, SafeSegment(t) = SafeSegment(u)
    PROVE  t = u
BY SessionAssumption, DirectoriesAreApart

(* While a topic is loaded there is one.                                   *)
LEMMA TopicIsListed ==
    ASSUME SessionInv, pc \in Loading
    PROVE  Topic \in Topics /\ command \in Invocations
<1>1. next \in Nat \ {0} /\ next <= Len(command.topics) /\ command \in Invocations \cup {NoCommand}
  BY DEF SessionInv, PlaceInv
<1>2. command \in Invocations
  <2>1. NoCommand.topics = <<>>
    BY DEF NoCommand
  <2>2. Len(NoCommand.topics) = 0
    BY <2>1, NoElements
  <2>. QED  BY <1>1, <2>2
<1>3. command.topics \in Seq(Topics)
  BY <1>2, SessionAssumption
<1>4. next \in 1 .. Len(command.topics)
  BY <1>1, <1>3
<1>. QED  BY <1>2, <1>3, <1>4 DEF Topic

(* Rows are a sequence.                                                    *)
LEMMA MadeRows ==
    ASSUME NEW records, ArePayloads(records), NEW schema, NEW rows, NEW read \in 1 .. Len(records),
           Made(schema, rows, read, records)
    PROVE  IsSequence(rows)
<1>1. read \in 0 .. Len(records)
  BY SequenceShape DEF ArePayloads
<1>2. ArePayloads(SubSeq(records, 1, read))
  BY <1>1, SampleOfObjects
<1>. QED  BY <1>2, BatchShape DEF Made

(* A table is a reading when its rows are made of its topic.               *)
LEMMA Readings ==
    ASSUME NEW t
    PROVE  \A table : IsReadingOf(table, t) <=>
             /\ table.read \in 1 .. high[t]
             /\ Made(table.schema, RowsOf(table.batches), table.read, log[t])
BY DEF IsReadingOf, Made

-----------------------------------------------------------------------------
(* The steps of the cache and of producers. *)

LEMMA CacheKeeps == SessionInv /\ DataInv /\ [Next]_vars => CacheInv'
<1>. SUFFICES ASSUME SessionInv, DataInv, [Next]_vars PROVE CacheInv'
  OBVIOUS
<1>1. CASE UNCHANGED <<log, high, cache>>
  BY <1>1 DEF DataInv, CacheInv
<1>2. ASSUME NEW u \in Topics, Produce(u) PROVE CacheInv'
  <2>1. /\ log' = log /\ cache' = cache
        /\ high[u] < Len(log[u]) /\ high' = [high EXCEPT ![u] = high[u] + 1]
    BY <1>2 DEF Produce
  <2>2. log \in Contents /\ \A t \in Topics : high[t] \in 0 .. Len(log[t]) /\ Len(log[t]) \in Nat
    BY LogsArePayloads DEF DataInv, CacheInv
  <2>3. \A t \in Topics : high'[t] \in 0 .. Len(log[t]) /\ high[t] <= high'[t]
    BY <2>1, <2>2 DEF DataInv, CacheInv
  <2>4. \A t \in Topics : 1 .. high[t] \subseteq 1 .. high'[t]
    BY <2>2, <2>3
  <2>5. DOMAIN high' = Topics
    BY <2>1 DEF DataInv, CacheInv
  <2>. QED  BY <2>1, <2>3, <2>4, <2>5 DEF DataInv, CacheInv
<1>3. ASSUME NEW s \in DOMAIN cache, Expire(s) PROVE CacheInv'
  <2>1. log' = log /\ high' = high /\ cache' = Without(cache, s)
    BY <1>3 DEF Expire, topicVars
  <2>2. DOMAIN cache' \subseteq DOMAIN cache /\ \A d \in DOMAIN cache' : cache'[d] = cache[d]
    BY <2>1 DEF Without
  <2>. QED  BY <2>1, <2>2 DEF DataInv, CacheInv
<1>4. ASSUME Write PROVE CacheInv'
  <2>. DEFINE entry == [schema |-> batches.schema, rows |-> RowsOf(batches.batches),
                        read |-> batches.read]
  <2>1. log' = log /\ high' = high /\ pc = "write"
        /\ (cache' = cache \/ cache' = Put(cache, SafeSegment(Topic), entry))
    BY <1>4 DEF Write, topicVars
  <2>2. Topic \in Topics
    BY <2>1, TopicIsListed DEF Loading
  <2>3. /\ entry.read \in 1 .. high[Topic]
        /\ Made(entry.schema, entry.rows, entry.read, log[Topic])
    BY <2>1 DEF DataInv, LoadInv
  <2>. HIDE DEF entry
  <2>4. CASE cache' = Put(cache, SafeSegment(Topic), entry)
    <3>1. /\ DOMAIN cache' = DOMAIN cache \cup {SafeSegment(Topic)}
          /\ cache'[SafeSegment(Topic)] = entry
          /\ \A d \in DOMAIN cache : d # SafeSegment(Topic) => cache'[d] = cache[d]
      BY <2>4 DEF Put
    <3>2. ASSUME NEW t \in Topics, SafeSegment(t) \in DOMAIN cache'
          PROVE  LET e == cache'[SafeSegment(t)]
                 IN  e.read \in 1 .. high'[t] /\ Made(e.schema, e.rows, e.read, log'[t])
      <4>1. CASE t = Topic
        BY <2>1, <2>3, <3>1, <4>1
      <4>2. CASE t # Topic
        <5>1. SafeSegment(t) # SafeSegment(Topic)
          BY <2>2, <4>2, OneDirectoryEach
        <5>. QED  BY <2>1, <3>1, <3>2, <5>1 DEF DataInv, CacheInv
      <4>. QED  BY <4>1, <4>2
    <3>3. DOMAIN cache' \subseteq {SafeSegment(t) : t \in Topics}
      BY <2>2, <3>1 DEF DataInv, CacheInv
    <3>. QED  BY <2>1, <3>2, <3>3 DEF DataInv, CacheInv
  <2>. QED  BY <1>1, <2>1, <2>4
<1>5. CASE ~(\E t \in Topics : Produce(t)) /\ ~(\E s \in DOMAIN cache : Expire(s)) /\ ~Write
  <2>1. UNCHANGED <<log, high, cache>>
    BY <1>5 DEF Next, Begin, Load, Hit, Fetch, DecodePayloads, Register, RunQuery,
                Repl, Select, CreateTable, DropTable, SetFormat, Quit,
                Output, WriteTable, WriteBatch, FinishOutput, Flush, OutputFails, Exit, topicVars, vars
  <2>. QED  BY <1>1, <2>1
<1>. QED  BY <1>2, <1>3, <1>4, <1>5

-----------------------------------------------------------------------------
(* The steps that load a topic. *)

(* What is decoded, and the sample of it that is never empty.              *)
LEMMA DecodedAndSample ==
    ASSUME SessionInv, DataInv, pc = "decode"
    PROVE  /\ Len(payloads) \in 1 .. high[Topic]
           /\ payloads = SubSeq(log[Topic], 1, Len(payloads))
           /\ ArePayloads(payloads)
           /\ SampleSize \in 1 .. Len(payloads)
<1>1. Topic \in Topics /\ command \in Invocations
  BY TopicIsListed DEF Loading
<1>2. ArePayloads(log[Topic]) /\ Len(log[Topic]) \in Nat /\ high[Topic] \in 0 .. Len(log[Topic])
  BY <1>1, LogsArePayloads DEF DataInv, CacheInv
<1>3. PICK k \in 1 .. high[Topic] : payloads = SubSeq(log[Topic], 1, k)
  BY DEF DataInv, LoadInv
<1>4. k \in 0 .. Len(log[Topic])
  BY <1>2
<1>5. ArePayloads(payloads) /\ Len(payloads) = k
  BY <1>2, <1>3, <1>4, SampleOfObjects
<1>6. command.sample \in Nat
  BY <1>1, SessionAssumption
<1>7. SampleSize \in 1 .. k
  BY <1>2, <1>5, <1>6 DEF SampleSize
<1>. QED  BY <1>3, <1>5, <1>7

LEMMA LoadKeeps == SessionInv /\ DataInv /\ [Next]_vars => LoadInv'
<1>. SUFFICES ASSUME SessionInv, DataInv, [Next]_vars PROVE LoadInv'
  OBVIOUS
<1>1. CASE pc' \notin {"decode", "write", "register"}
  BY <1>1 DEF LoadInv
<1>2. CASE Hit
  <2>. DEFINE e == cache[SafeSegment(Topic)]
  <2>1. /\ pc = "load" /\ pc' = "register" /\ SafeSegment(Topic) \in DOMAIN cache
        /\ batches' = [schema |-> e.schema, batches |-> Split(e.rows), read |-> e.read]
        /\ log' = log /\ high' = high /\ Topic' = Topic
    BY <1>2 DEF Hit, Goto, topicVars, Topic
  <2>2. Topic \in Topics
    BY <2>1, TopicIsListed DEF Loading
  <2>3. e.read \in 1 .. high[Topic] /\ Made(e.schema, e.rows, e.read, log[Topic])
    BY <2>1, <2>2 DEF DataInv, CacheInv
  <2>4. ArePayloads(log[Topic]) /\ Len(log[Topic]) \in Nat /\ high[Topic] \in 0 .. Len(log[Topic])
    BY <2>2, LogsArePayloads DEF DataInv, CacheInv
  <2>. HIDE DEF e
  <2>5. IsSequence(e.rows)
    <3>1. e.read \in 1 .. Len(log[Topic])
      BY <2>3, <2>4
    <3>. QED  BY <2>3, <2>4, <3>1, MadeRows
  <2>6. AreSequences(Split(e.rows)) /\ RowsOf(Split(e.rows)) = e.rows
    BY <2>5, SplitRows
  <2>7. /\ AreSequences(batches'.batches) /\ batches'.read \in 1 .. high'[Topic']
        /\ Made(batches'.schema, RowsOf(batches'.batches), batches'.read, log'[Topic'])
    BY <2>1, <2>3, <2>6
  <2>. QED  BY <2>1, <2>7 DEF LoadInv
<1>3. CASE Fetch /\ pc' = "decode"
  <2>1. /\ pc = "load" /\ high[Topic] > 0 /\ payloads' = SubSeq(log[Topic], 1, high[Topic])
        /\ log' = log /\ high' = high /\ Topic' = Topic
    BY <1>3 DEF Fetch, Goto, Fail, topicVars, Topic
  <2>2. Topic \in Topics
    BY <2>1, TopicIsListed DEF Loading
  <2>3. high[Topic] \in 1 .. high[Topic]
    BY <2>1, <2>2, LogsArePayloads DEF DataInv, CacheInv
  <2>4. \E k \in 1 .. high'[Topic'] : payloads' = SubSeq(log'[Topic'], 1, k)
    BY <2>1, <2>3
  <2>. QED  BY <1>3, <2>4 DEF LoadInv
<1>4. CASE DecodePayloads /\ pc' # "failed"
  <2>. DEFINE inferred == InferSchema(Sample)
              rows == DecodeBatch(payloads, inferred)
  <2>1. /\ pc = "decode" /\ pc' \in {"write", "register"}
        /\ batches' = [schema |-> inferred, batches |-> <<rows>>, read |-> Len(payloads)]
        /\ log' = log /\ high' = high /\ Topic' = Topic
    BY <1>4 DEF DecodePayloads, Goto, Fail, topicVars, Topic
  <2>2. /\ Len(payloads) \in 1 .. high[Topic]
        /\ payloads = SubSeq(log[Topic], 1, Len(payloads))
        /\ ArePayloads(payloads) /\ SampleSize \in 1 .. Len(payloads)
    BY <2>1, DecodedAndSample
  <2>3. Made(inferred, rows, Len(payloads), log[Topic])
    BY <2>2 DEF Made, Sample
  <2>4. IsSequence(rows)
    BY <2>2, BatchShape
  <2>. HIDE DEF inferred, rows
  <2>5. AreSequences(<<rows>>) /\ RowsOf(<<rows>>) = rows
    BY <2>4, ConcatenatedAlone DEF RowsOf
  <2>6. /\ AreSequences(batches'.batches) /\ batches'.read \in 1 .. high'[Topic']
        /\ Made(batches'.schema, RowsOf(batches'.batches), batches'.read, log'[Topic'])
    BY <2>1, <2>2, <2>3, <2>5
  <2>. QED  BY <2>1, <2>6 DEF LoadInv
<1>5. CASE Write
  <2>1. /\ pc = "write" /\ pc' = "register" /\ batches' = batches
        /\ log' = log /\ high' = high /\ Topic' = Topic
    BY <1>5 DEF Write, Goto, loading, topicVars, Topic
  <2>2. /\ AreSequences(batches.batches) /\ batches.read \in 1 .. high[Topic]
        /\ Made(batches.schema, RowsOf(batches.batches), batches.read, log[Topic])
    BY <2>1 DEF DataInv, LoadInv
  <2>3. /\ AreSequences(batches'.batches) /\ batches'.read \in 1 .. high'[Topic']
        /\ Made(batches'.schema, RowsOf(batches'.batches), batches'.read, log'[Topic'])
    BY <2>1, <2>2
  <2>. QED  BY <2>1, <2>3 DEF LoadInv
<1>6. CASE UNCHANGED vars
  <2>1. UNCHANGED <<pc, payloads, batches, log, high, command, next>>
    BY <1>6 DEF vars, loading, topicVars
  <2>. QED  BY <2>1 DEF DataInv, LoadInv, Topic
<1>7. CASE Next /\ ~Hit /\ ~(Fetch /\ pc' = "decode") /\ ~(DecodePayloads /\ pc' # "failed") /\ ~Write
  <2>1. pc' \in {"idle", "load", "sql", "print", "flush", "done", "failed"}
    BY <1>7 DEF Next, Produce, Expire, Begin, Load, Fetch, DecodePayloads, Register, RunQuery,
                Repl, Select, CreateTable, DropTable, SetFormat, Quit, Prompt, Execute,
                Output, WriteTable, WriteBatch, FinishOutput, Flush, OutputFails, Exit, Goto, Fail
  <2>. QED  BY <1>1, <2>1
<1>. QED  BY <1>2, <1>3, <1>4, <1>5, <1>6, <1>7

-----------------------------------------------------------------------------
(* The steps that fill and change the engine. *)

(* Topics may grow while tables stay.                                      *)
LEMMA EngineStays ==
    ASSUME SessionInv, DataInv, UNCHANGED <<log, command, next, engine, touched>>,
           high' = high \/ (pc \in {"idle", "load"} /\ \E u \in Topics : Produce(u))
    PROVE  EngineInv'
<1>1. ASSUME NEW j \in 1 .. (next - 1) PROVE 1 .. high[command.topics[j]] \subseteq 1 .. high'[command.topics[j]]
  <2>1. CASE high' = high
    BY <2>1
  <2>2. CASE pc \in {"idle", "load"} /\ \E u \in Topics : Produce(u)
    <3>1. PICK u \in Topics : high' = [high EXCEPT ![u] = high[u] + 1]
      BY <2>2 DEF Produce
    <3>2. next \in Nat \ {0} /\ pc = "load" /\ next <= Len(command.topics)
      BY <2>2 DEF SessionInv, PlaceInv, Loading
    <3>3. command.topics \in Seq(Topics)
      BY <3>2, TopicIsListed, SessionAssumption DEF Loading
    <3>4. command.topics[j] \in Topics
      BY <3>2, <3>3
    <3>5. /\ high[command.topics[j]] \in Nat
          /\ high'[command.topics[j]] \in {high[command.topics[j]], high[command.topics[j]] + 1}
      <4>1. \A t \in Topics : high[t] \in 0 .. Len(log[t]) /\ Len(log[t]) \in Nat
        BY LogsArePayloads DEF DataInv, CacheInv
      <4>2. high[command.topics[j]] \in Nat
        BY <3>4, <4>1
      <4>3. ASSUME NEW t PROVE t \in DOMAIN high => high'[t] \in {high[t], high[t] + 1}
        BY <3>1
      <4>4. command.topics[j] \in DOMAIN high
        BY <3>4 DEF DataInv, CacheInv
      <4>. QED  BY <4>2, <4>3, <4>4
    <3>. QED  BY <3>5
  <2>. QED  BY <2>1, <2>2
<1>2. ASSUME NEW j \in 1 .. (next - 1)
      PROVE  LET t == command.topics[j]
                 n == TableOf(t)
             IN  \/ n \in touched
                 \/ /\ n \in DOMAIN engine /\ engine[n].read \in 1 .. high'[t]
                    /\ Made(engine[n].schema, RowsOf(engine[n].batches), engine[n].read, log[t])
  BY <1>1 DEF DataInv, EngineInv
<1>3. /\ \A n \in DOMAIN engine : AreSequences(engine[n].batches)
      /\ touched = {} =>
           \A n \in DOMAIN engine : \E j \in 1 .. (next - 1) : n = TableOf(command.topics[j])
  BY DEF DataInv, EngineInv
<1>. QED  BY <1>2, <1>3 DEF EngineInv, TableOf

LEMMA RegisterFills == SessionInv /\ DataInv /\ Register => EngineInv'
<1>. SUFFICES ASSUME SessionInv, DataInv, Register PROVE EngineInv'
  OBVIOUS
<1>1. CASE TableName \in DOMAIN engine
  <2>1. UNCHANGED <<log, high, command, next, engine, touched>>
    BY <1>1 DEF Register, loading, topicVars
  <2>. QED  BY <2>1, EngineStays
<1>2. CASE TableName \notin DOMAIN engine
  <2>1. /\ pc = "register" /\ command' = command /\ next' = next + 1 /\ touched' = touched
        /\ engine' = Put(engine, TableName, batches) /\ log' = log /\ high' = high
    BY <1>2 DEF Register, topicVars
  <2>2. next \in Nat \ {0} /\ touched = {}
    BY <2>1 DEF SessionInv, PlaceInv, StageInv, Loading
  <2>3. /\ DOMAIN engine' = DOMAIN engine \cup {TableName}
        /\ engine'[TableName] = batches
        /\ \A n \in DOMAIN engine : n # TableName /\ engine'[n] = engine[n]
    BY <1>2, <2>1 DEF Put
  <2>4. TableOf(command.topics[next]) = TableName
    BY DEF TableOf, TableName, Topic
  <2>5. \A j \in 1 .. (next' - 1) : j \in 1 .. (next - 1) \/ j = next
    BY <2>1, <2>2
  <2>6. next \in 1 .. (next' - 1) /\ \A j \in 1 .. (next - 1) : j \in 1 .. (next' - 1)
    BY <2>1, <2>2
  <2>7. /\ AreSequences(batches.batches) /\ batches.read \in 1 .. high[command.topics[next]]
        /\ Made(batches.schema, RowsOf(batches.batches), batches.read, log[command.topics[next]])
    BY <2>1 DEF DataInv, LoadInv, Topic
  <2>8. \A n \in DOMAIN engine' : AreSequences(engine'[n].batches)
    BY <2>3, <2>7 DEF DataInv, EngineInv
  <2>9. \A n \in DOMAIN engine' : \E j \in 1 .. (next' - 1) : n = TableOf(command.topics[j])
    BY <2>2, <2>3, <2>4, <2>6 DEF DataInv, EngineInv
  <2>10. ASSUME NEW j \in 1 .. (next' - 1)
         PROVE  LET t == command.topics[j]
                    n == TableOf(t)
                IN  /\ n \in DOMAIN engine' /\ engine'[n].read \in 1 .. high[t]
                    /\ Made(engine'[n].schema, RowsOf(engine'[n].batches), engine'[n].read, log[t])
    <3>1. CASE j = next
      BY <2>3, <2>4, <2>7, <3>1
    <3>2. CASE j \in 1 .. (next - 1)
      <4>. DEFINE n == TableOf(command.topics[j])
      <4>1. /\ n \in DOMAIN engine /\ engine[n].read \in 1 .. high[command.topics[j]]
            /\ Made(engine[n].schema, RowsOf(engine[n].batches), engine[n].read, log[command.topics[j]])
        BY <2>2, <3>2 DEF DataInv, EngineInv
      <4>. QED  BY <2>3, <4>1
    <3>. QED  BY <2>5, <3>1, <3>2
  <2>. QED  BY <2>1, <2>8, <2>9, <2>10 DEF EngineInv, TableOf
<1>. QED  BY <1>1, <1>2

(* What SQL touches is no longer said to be a topic's.                     *)
LEMMA TouchedEngine ==
    ASSUME DataInv, UNCHANGED <<log, high, command, next>>,
           NEW n, touched' = touched \cup {n},
           \A e : e # n => (e \in DOMAIN engine' <=> e \in DOMAIN engine),
           \A e \in DOMAIN engine : e # n => engine'[e] = engine[e],
           n \in DOMAIN engine' => AreSequences(engine'[n].batches)
    PROVE  EngineInv'
<1>1. \A e \in DOMAIN engine' : AreSequences(engine'[e].batches)
  BY DEF DataInv, EngineInv
<1>2. touched' # {}
  OBVIOUS
<1>3. ASSUME NEW j \in 1 .. (next - 1)
      PROVE  LET t == command.topics[j]
                 e == TableOf(t)
             IN  \/ e \in touched'
                 \/ /\ e \in DOMAIN engine' /\ engine'[e].read \in 1 .. high[t]
                    /\ Made(engine'[e].schema, RowsOf(engine'[e].batches), engine'[e].read, log[t])
  <2>. DEFINE e == TableOf(command.topics[j])
  <2>1. CASE e = n
    BY <2>1
  <2>2. CASE e # n
    <3>1. \/ e \in touched
          \/ /\ e \in DOMAIN engine /\ engine[e].read \in 1 .. high[command.topics[j]]
             /\ Made(engine[e].schema, RowsOf(engine[e].batches), engine[e].read, log[command.topics[j]])
      BY DEF DataInv, EngineInv
    <3>2. e \in DOMAIN engine => e \in DOMAIN engine' /\ engine'[e] = engine[e]
      BY <2>2
    <3>. QED  BY <3>1, <3>2
  <2>. QED  BY <2>1, <2>2
<1>. QED  BY <1>1, <1>2, <1>3 DEF EngineInv, TableOf

LEMMA EngineKeeps == SessionInv /\ DataInv /\ [Next]_vars => EngineInv'
<1>. SUFFICES ASSUME SessionInv, DataInv, [Next]_vars PROVE EngineInv'
  OBVIOUS
<1>1. CASE Register
  BY <1>1, RegisterFills
<1>2. CASE Begin \/ Exit
  <2>1. engine' = Nothing /\ next' = 1
    BY <1>2 DEF Begin, Exit, loading, tables, SessionInv, PlaceInv
  <2>. QED  BY <2>1 DEF EngineInv, Nothing
<1>3. ASSUME NEW n \in Created, NEW m \in DOMAIN engine, CreateTable(n, m) PROVE EngineInv'
  <2>1. /\ UNCHANGED <<log, high, command, next>>
        /\ touched' = touched \cup {n} /\ engine' = Put(engine, n, engine[m])
    BY <1>3 DEF CreateTable, loading, topicVars
  <2>2. /\ \A e : e # n => (e \in DOMAIN engine' <=> e \in DOMAIN engine)
        /\ \A e \in DOMAIN engine : e # n => engine'[e] = engine[e]
        /\ engine'[n] = engine[m]
    BY <2>1 DEF Put
  <2>3. AreSequences(engine[m].batches)
    BY DEF DataInv, EngineInv
  <2>. QED  BY <2>1, <2>2, <2>3, TouchedEngine
<1>4. ASSUME NEW n \in DOMAIN engine, DropTable(n) PROVE EngineInv'
  <2>1. /\ UNCHANGED <<log, high, command, next>>
        /\ touched' = touched \cup {n} /\ engine' = Without(engine, n)
    BY <1>4 DEF DropTable, loading, topicVars
  <2>2. /\ \A e : e # n => (e \in DOMAIN engine' <=> e \in DOMAIN engine)
        /\ \A e \in DOMAIN engine : e # n => engine'[e] = engine[e]
        /\ n \notin DOMAIN engine'
    BY <2>1 DEF Without
  <2>. QED  BY <2>1, <2>2, TouchedEngine
<1>5. CASE \E u \in Topics : Produce(u)
  <2>1. UNCHANGED <<log, command, next, engine, touched>> /\ pc \in {"idle", "load"}
    BY <1>5 DEF Produce, loading, tables
  <2>. QED  BY <1>5, <2>1, EngineStays
<1>6. CASE /\ ~Register /\ ~Begin /\ ~Exit /\ ~(\E u \in Topics : Produce(u))
           /\ ~(\E n \in Created, m \in DOMAIN engine : CreateTable(n, m))
           /\ ~(\E n \in DOMAIN engine : DropTable(n))
  <2>1. UNCHANGED <<log, high, command, next, engine, touched>>
    BY <1>6 DEF Next, Expire, Load, Hit, Fetch, DecodePayloads, Write, RunQuery,
                Repl, Select, SetFormat, Quit,
                Output, WriteTable, WriteBatch, FinishOutput, Flush, OutputFails,
                topicVars, loading, tables, vars
  <2>. QED  BY <2>1, EngineStays
<1>. QED  BY <1>1, <1>2, <1>3, <1>4, <1>5, <1>6

-----------------------------------------------------------------------------
(* The steps that fail. *)

LEMMA FailureKeeps == SessionInv /\ DataInv /\ [Next]_vars => FailureInv'
<1>. SUFFICES ASSUME SessionInv, DataInv, [Next]_vars PROVE FailureInv'
  OBVIOUS
<1>0. FailureInv
  BY DEF DataInv
<1>1. CASE \/ \E u \in Topics : Produce(u)
           \/ \E s \in DOMAIN cache : Expire(s)
           \/ Begin \/ Exit
  <2>1. (pc' = pc /\ failure' = failure) \/ (pc = "idle" /\ pc' = "load" /\ failure' = failure)
        \/ (pc' = "idle" /\ failure' = "none")
    BY <1>1 DEF Produce, Expire, Begin, Exit, Goto
  <2>. QED  BY <1>0, <2>1 DEF FailureInv, Loading
<1>2. CASE Load
  <2>1. \/ /\ pc \in Loading /\ pc' \in Loading \cup {"sql"} /\ failure' = failure
        \/ pc' = "failed" /\ failure' \in {"kafka", "decode", "register"}
    BY <1>2 DEF Load, Hit, Fetch, DecodePayloads, Write, Register, Goto, Fail, Loading
  <2>. QED  BY <1>0, <2>1 DEF FailureInv, Loading
<1>3. CASE RunQuery \/ Repl \/ Output
  <2>1. \/ /\ pc \in {"sql", "print", "flush"} /\ pc' \in {"sql", "print", "flush", "done"}
           /\ failure' = failure
        \/ pc' = "failed" /\ failure' \in {"sql", "output"}
    BY <1>3 DEF RunQuery, Repl, Select, CreateTable, DropTable, SetFormat, Quit, Prompt, Execute,
                Output, WriteTable, WriteBatch, FinishOutput, Flush, OutputFails, Goto, Fail
  <2>. QED  BY <1>0, <2>1 DEF FailureInv, Loading
<1>4. CASE UNCHANGED vars
  <2>1. pc' = pc /\ failure' = failure
    BY <1>4 DEF vars
  <2>. QED  BY <1>0, <2>1 DEF FailureInv
<1>. QED  BY <1>1, <1>2, <1>3, <1>4 DEF Next

(* A topic fails to decode when its records disagree, or their beginning   *)
(* tells too little.                                                       *)
LEMMA DecodableKeeps == SessionInv /\ DataInv /\ [Next]_vars => DecodableTopicsDecode'
<1>. SUFFICES ASSUME SessionInv, DataInv, [Next]_vars, failure' = "decode"
              PROVE  DecodableTopicsDecode'
  BY DEF DecodableTopicsDecode
<1>1. CASE DecodePayloads
  <2>1. pc = "decode" /\ payloads' = payloads /\ command' = command
        /\ ~(Infers(Sample) /\ Decodes(payloads, InferSchema(Sample)))
    <3>1. pc = "decode" /\ payloads' = payloads /\ command' = command
      BY <1>1 DEF DecodePayloads
    <3>2. failure = "none"
      BY <3>1 DEF DataInv, FailureInv
    <3>. QED  BY <1>1, <3>1, <3>2 DEF DecodePayloads
  <2>2. ArePayloads(payloads) /\ SampleSize \in 1 .. Len(payloads)
    BY <2>1, DecodedAndSample
  <2>3. /\ DOMAIN payloads = 1 .. Len(payloads)
        /\ \/ \E i \in 1 .. Len(payloads) : ~OneLine(payloads[i])
           \/ ~Agree(Objects(payloads)) \/ ~Tell(SampleSize, payloads)
    BY <2>1, <2>2, ObjectsOfPayloads, DecodablePayloadsDecode DEF Sample
  <2>4. \/ command.sample = SampleSize
        \/ command.sample = 0 /\ SampleSize = 1
        \/ command.sample > SampleSize /\ SampleSize = Len(payloads)
    <3>1. command.sample \in Nat /\ Len(payloads) \in Nat
      BY <2>1, <2>2, TopicIsListed, SessionAssumption, SequenceShape DEF Loading, ArePayloads
    <3>. QED  BY <3>1 DEF SampleSize
  <2>. QED  BY <2>1, <2>2, <2>3, <2>4, Zenon DEF DecodableTopicsDecode
<1>2. CASE Next /\ ~DecodePayloads
  <2>1. failure' = failure \/ failure' \in {"none", "kafka", "register", "sql", "output"}
    BY <1>2 DEF Next, Produce, Expire, Begin, Load, Hit, Fetch, Write, Register, RunQuery,
                Repl, Select, CreateTable, DropTable, SetFormat, Quit,
                Output, WriteTable, WriteBatch, FinishOutput, Flush, OutputFails, Exit, Fail
  <2>2. pc = "failed"
    BY <2>1 DEF DataInv, FailureInv
  <2>3. Exit
    BY <1>2, <2>2 DEF Next, Produce, Expire, Begin, Load, Hit, Fetch, Write, Register, RunQuery,
                Repl, Select, CreateTable, DropTable, SetFormat, Quit, Prompt,
                Output, WriteTable, WriteBatch, FinishOutput, Flush, OutputFails
  <2>. QED  BY <2>3 DEF Exit
<1>3. CASE UNCHANGED vars
  <2>1. failure' = failure /\ payloads' = payloads /\ command' = command
    BY <1>3 DEF vars, loading
  <2>. QED  BY <2>1 DEF DataInv, DecodableTopicsDecode
<1>. QED  BY <1>1, <1>2, <1>3

-----------------------------------------------------------------------------
(* The steps of the writers. *)

(* Nothing is written, and nothing new is to be written.                   *)
LEMMA OutputStays ==
    ASSUME DataInv, UNCHANGED <<answer, shown, out>>,
           pc' \in {"print", "flush"} => pc' = pc /\ format' = format
    PROVE  OutputInv'
BY DEF DataInv, OutputInv, IsDocument, RowsOf

(* An answer is written from its first batch.                              *)
LEMMA ExecuteStarts ==
    ASSUME DataInv, NEW n \in DOMAIN engine, NEW where, Execute(n, where)
    PROVE  OutputInv'
<1>1. answer' = Answers(n, where) /\ shown' = 0 /\ out' = NoOutput /\ pc' = "print"
  BY DEF Execute, Goto
<1>2. AreSequences(answer')
  <2>1. AreSequences(engine[n].batches)
    BY DEF DataInv, EngineInv
  <2>2. AreSequences(<<>>)
    BY NoElements DEF AreSequences
  <2>. QED  BY <1>1, <2>1, <2>2 DEF Answers
<1>3. Len(answer') \in Nat
  BY <1>2 DEF AreSequences
<1>4. Concatenated(answer')[0] = <<>>
  BY <1>3, ConcatenatedUnfolds
<1>5. out'.heads = 0 /\ out'.rows = <<>> /\ out'.closed = FALSE
      /\ out' = [heads |-> out'.heads, rows |-> out'.rows, closed |-> out'.closed]
  BY <1>1 DEF NoOutput
<1>6. shown' \in 0 .. Len(answer')
  BY <1>1, <1>3
<1>7. out'.rows = Concatenated(answer')[shown']
  BY <1>1, <1>4, <1>5, Zenon
<1>8. out'.heads \in {0, 1} /\ out'.closed \in BOOLEAN /\ ~out'.closed
  BY <1>5
<1>9. out'.heads = IF format' = "csv" /\ shown' # 0 THEN 1 ELSE 0
  BY <1>1, <1>5
<1>10. pc' # "flush"
  BY <1>1
<1>. QED  BY <1>2, <1>5, <1>6, <1>7, <1>8, <1>9, <1>10, Zenon DEF OutputInv

LEMMA OutputKeeps == SessionInv /\ DataInv /\ [Next]_vars => OutputInv'
<1>. SUFFICES ASSUME SessionInv, DataInv, [Next]_vars PROVE OutputInv'
  OBVIOUS
<1>0. /\ AreSequences(answer) /\ Len(answer) \in Nat /\ shown \in 0 .. Len(answer)
      /\ out = [heads |-> out.heads, rows |-> out.rows, closed |-> out.closed]
      /\ out.heads \in {0, 1}
  BY DEF DataInv, OutputInv, AreSequences
<1>1. ASSUME NEW n \in DOMAIN engine, NEW where, Execute(n, where) PROVE OutputInv'
  BY <1>1, ExecuteStarts
<1>2. CASE WriteTable
  <2>1. /\ answer' = answer /\ shown' = Len(answer) /\ pc' = "flush" /\ format = "table" /\ format' = format
        /\ out' = [heads |-> IF Len(answer) = 0 THEN 0 ELSE 1, rows |-> RowsOf(answer), closed |-> TRUE]
    BY <1>2 DEF WriteTable, Goto
  <2>2. /\ out'.heads = IF Len(answer) = 0 THEN 0 ELSE 1
        /\ out'.rows = RowsOf(answer) /\ out'.closed = TRUE
        /\ out' = [heads |-> out'.heads, rows |-> out'.rows, closed |-> out'.closed]
    BY <2>1
  <2>3. RowsOf(answer') = RowsOf(answer)
    BY <2>1
  <2>4. IsDocument'
    BY <2>1, <2>2, <2>3 DEF IsDocument
  <2>. QED  BY <1>0, <2>1, <2>2, <2>4 DEF OutputInv
<1>3. CASE WriteBatch
  <2>1. /\ pc = "print" /\ pc' = pc /\ format' = format
        /\ answer' = answer /\ shown' = shown + 1 /\ shown < Len(answer)
        /\ out' = [out EXCEPT !.heads = IF format = "csv" THEN 1 ELSE 0,
                              !.rows = @ \o answer[shown + 1]]
    BY <1>3 DEF WriteBatch
  <2>2. out.rows = Concatenated(answer)[shown] /\ ~out.closed
    BY <2>1 DEF DataInv, OutputInv
  <2>3. /\ out'.heads = (IF format = "csv" THEN 1 ELSE 0) /\ out'.rows = out.rows \o answer[shown + 1]
        /\ out'.closed = out.closed
        /\ out' = [heads |-> out'.heads, rows |-> out'.rows, closed |-> out'.closed]
    BY <1>0, <2>1
  <2>4. shown + 1 \in 1 .. Len(answer) /\ (shown + 1) - 1 = shown /\ shown + 1 \in 0 .. Len(answer)
        /\ shown + 1 # 0
    BY <1>0, <2>1
  <2>5. Concatenated(answer)[shown + 1] = Concatenated(answer)[shown] \o answer[shown + 1]
    BY <1>0, <2>4, ConcatenatedUnfolds
  <2>6. out'.rows = Concatenated(answer')[shown']
    BY <2>1, <2>2, <2>3, <2>5, Zenon
  <2>7. AreSequences(answer') /\ shown' \in 0 .. Len(answer')
    BY <1>0, <2>1, <2>4
  <2>8. out'.closed \in BOOLEAN /\ ~out'.closed /\ out'.heads \in {0, 1}
    BY <2>2, <2>3 DEF DataInv, OutputInv
  <2>9. /\ out'.heads = IF format' = "csv" /\ shown' # 0 THEN 1 ELSE 0
        /\ pc' # "flush"
    BY <2>1, <2>3, <2>4
  <2>. QED  BY <2>3, <2>6, <2>7, <2>8, <2>9, Zenon DEF OutputInv
<1>4. CASE FinishOutput
  <2>1. /\ pc = "print" /\ pc' = "flush" /\ answer' = answer /\ shown' = shown /\ shown = Len(answer)
        /\ out' = [out EXCEPT !.closed = TRUE] /\ format # "table" /\ format' = format
    BY <1>4 DEF FinishOutput, Goto
  <2>2. out.rows = RowsOf(answer) /\ out.heads = IF format = "csv" /\ Len(answer) # 0 THEN 1 ELSE 0
    BY <2>1 DEF DataInv, OutputInv, RowsOf
  <2>3. /\ out'.heads = out.heads /\ out'.rows = out.rows /\ out'.closed = TRUE
        /\ out' = [heads |-> out'.heads, rows |-> out'.rows, closed |-> out'.closed]
    BY <1>0, <2>1
  <2>4. RowsOf(answer') = RowsOf(answer)
    BY <2>1
  <2>5. IsDocument'
    BY <2>1, <2>2, <2>3, <2>4 DEF IsDocument
  <2>. QED  BY <1>0, <2>1, <2>3, <2>5 DEF OutputInv
<1>5. CASE Exit
  <2>1. answer' = <<>> /\ shown' = 0 /\ out' = NoOutput /\ pc' = "idle"
    BY <1>5 DEF Exit, Goto
  <2>2. AreSequences(answer') /\ Len(answer') = 0
    BY <2>1, NoElements DEF AreSequences
  <2>3. out'.heads \in {0, 1} /\ out'.closed \in BOOLEAN
        /\ out' = [heads |-> out'.heads, rows |-> out'.rows, closed |-> out'.closed]
    BY <2>1 DEF NoOutput
  <2>4. shown' \in 0 .. Len(answer') /\ pc' # "print" /\ pc' # "flush"
    BY <2>1, <2>2
  <2>. QED  BY <2>2, <2>3, <2>4, Zenon DEF OutputInv
<1>6. CASE RunQuery
  <2>1. \/ command.select \in DOMAIN engine /\ Execute(command.select, command.where)
        \/ UNCHANGED <<answer, shown, out>> /\ pc' \notin {"print", "flush"}
    BY <1>6 DEF RunQuery, Goto, Fail
  <2>. QED  BY <1>1, <2>1, OutputStays
<1>7. CASE Repl
  <2>1. \/ \E n \in DOMAIN engine, where \in BOOLEAN : Execute(n, where)
        \/ UNCHANGED <<answer, shown, out>> /\ pc' \notin {"print", "flush"}
    BY <1>7 DEF Repl, Select, CreateTable, DropTable, SetFormat, Quit, Prompt, Goto, output
  <2>. QED  BY <1>1, <2>1, OutputStays
<1>8. CASE Flush \/ OutputFails \/ Load \/ Begin
  <2>1. UNCHANGED <<answer, shown, out>> /\ pc' \notin {"print", "flush"}
    BY <1>8 DEF Flush, OutputFails, Begin, Load, Hit, Fetch, DecodePayloads, Write, Register,
                Goto, Fail, output
  <2>. QED  BY <2>1, OutputStays
<1>9. CASE (\E u \in Topics : Produce(u)) \/ (\E s \in DOMAIN cache : Expire(s)) \/ UNCHANGED vars
  <2>1. UNCHANGED <<answer, shown, out, pc, format>>
    BY <1>9 DEF Produce, Expire, output, vars
  <2>. QED  BY <2>1, OutputStays
<1>. QED  BY <1>2, <1>3, <1>4, <1>5, <1>6, <1>7, <1>8, <1>9 DEF Next, Output

-----------------------------------------------------------------------------
(* The steps of query. *)

LEMMA QueryAnswers == SessionInv /\ DataInv /\ [Next]_vars => QueryInv'
<1>. SUFFICES ASSUME SessionInv, DataInv, [Next]_vars, command'.kind = "query"
              PROVE  /\ touched' = {}
                     /\ pc' \in {"print", "flush"} => ~command'.explain
                     /\ pc' \in {"print", "flush", "done"} /\ ~command'.explain =>
                          /\ command'.select \in DOMAIN engine'
                          /\ answer' = Answers(command.select, command.where)'
                     /\ pc' = "done" /\ ~command'.explain => IsDocument'
  BY DEF QueryInv
<1>1. CASE Begin
  <2>1. touched' = touched /\ pc = "idle" /\ pc' = "load"
    BY <1>1 DEF Begin, tables, Goto
  <2>. QED  BY <2>1 DEF SessionInv, StageInv
<1>2. CASE Load
  <2>1. touched' = touched /\ pc \in Loading /\ pc' \in Loading \cup {"sql", "failed"}
    BY <1>2 DEF Load, Hit, Fetch, DecodePayloads, Write, Register, tables, Goto, Fail, Loading
  <2>. QED  BY <2>1 DEF SessionInv, StageInv, Loading
<1>3. CASE RunQuery
  <2>1. touched' = touched /\ engine' = engine /\ command' = command
    BY <1>3 DEF RunQuery, tables
  <2>2. touched = {}
    BY <2>1 DEF DataInv, QueryInv
  <2>3. \/ /\ command.select \in DOMAIN engine /\ ~command.explain /\ pc' = "print"
           /\ answer' = Answers(command.select, command.where)
        \/ command.explain /\ pc' = "done"
        \/ pc' = "failed"
    BY <1>3 DEF RunQuery, Execute, Goto, Fail
  <2>. QED  BY <2>1, <2>2, <2>3 DEF Answers
<1>4. CASE Repl
  <2>1. command.kind = "repl" /\ command' = command
    BY <1>4 DEF Repl, Select, CreateTable, DropTable, SetFormat, Quit, Prompt
  <2>. QED  BY <2>1
<1>5. CASE Output
  <2>1. /\ pc \in {"print", "flush"} /\ UNCHANGED <<command, touched, engine, answer>>
        /\ pc' \in {"print", "flush", "failed"} \/ (pc' = "done" /\ pc = "flush" /\ UNCHANGED output)
    <3>1. CASE WriteTable
      BY <3>1 DEF WriteTable, Goto, tables
    <3>2. CASE WriteBatch
      BY <3>2 DEF WriteBatch, tables
    <3>3. CASE FinishOutput
      BY <3>3 DEF FinishOutput, Goto, tables
    <3>4. CASE Flush
      BY <3>4 DEF Flush, Goto, tables, output
    <3>5. CASE OutputFails
      BY <3>5 DEF OutputFails, Goto, Fail, tables, output
    <3>. QED  BY <1>5, <3>1, <3>2, <3>3, <3>4, <3>5 DEF Output
  <2>2. /\ touched = {} /\ ~command.explain /\ command.select \in DOMAIN engine
        /\ answer = Answers(command.select, command.where)
    BY <2>1 DEF DataInv, QueryInv
  <2>3. pc' = "done" => IsDocument'
    <3>. SUFFICES ASSUME pc' = "done" PROVE IsDocument'
      OBVIOUS
    <3>1. pc = "flush" /\ UNCHANGED <<out, answer, format>>
      BY <2>1 DEF output
    <3>2. IsDocument
      BY <3>1 DEF DataInv, OutputInv
    <3>. QED  BY <3>1, <3>2 DEF IsDocument, RowsOf
  <2>. QED  BY <2>1, <2>2, <2>3 DEF Answers
<1>6. CASE Exit
  <2>1. command'.kind = "none"
    BY <1>6 DEF Exit, NoCommand
  <2>. QED  BY <2>1
<1>7. CASE (\E u \in Topics : Produce(u)) \/ (\E s \in DOMAIN cache : Expire(s)) \/ UNCHANGED vars
  <2>1. UNCHANGED <<command, touched, engine, answer, pc, out, format>>
    BY <1>7 DEF Produce, Expire, tables, output, vars
  <2>2. IsDocument => IsDocument'
    BY <2>1 DEF IsDocument, RowsOf
  <2>. QED  BY <2>1, <2>2 DEF DataInv, QueryInv, Answers
<1>. QED  BY <1>1, <1>2, <1>3, <1>4, <1>5, <1>6, <1>7 DEF Next

-----------------------------------------------------------------------------
(* The invariant, and what follows from it. *)

LEMMA DataInit == Init => DataInv
<1>. SUFFICES ASSUME Init PROVE DataInv
  OBVIOUS
<1>1. CacheInv
  <2>1. /\ log \in Contents /\ high = [t \in Topics |-> 0] /\ DOMAIN cache = {}
    BY DEF Init, Nothing
  <2>2. \A t \in Topics : high[t] \in 0 .. Len(log[t])
    BY <2>1, LogsArePayloads
  <2>. QED  BY <2>1, <2>2 DEF CacheInv
<1>2. LoadInv /\ FailureInv
  BY DEF Init, LoadInv, FailureInv, Loading
<1>3. EngineInv
  BY DEF Init, EngineInv, Nothing
<1>4. DecodableTopicsDecode
  BY DEF Init, DecodableTopicsDecode
<1>5. OutputInv
  <2>1. answer = <<>> /\ shown = 0 /\ out = NoOutput /\ pc = "idle"
    BY DEF Init
  <2>2. AreSequences(answer) /\ Len(answer) = 0
    BY <2>1, NoElements DEF AreSequences
  <2>3. out.heads \in {0, 1} /\ out.closed \in BOOLEAN /\ ~out.closed
        /\ out = [heads |-> out.heads, rows |-> out.rows, closed |-> out.closed]
    BY <2>1 DEF NoOutput
  <2>4. shown \in 0 .. Len(answer) /\ pc # "print" /\ pc # "flush"
    BY <2>1, <2>2
  <2>. QED  BY <2>2, <2>3, <2>4, Zenon DEF OutputInv
<1>6. QueryInv
  BY DEF Init, QueryInv, NoCommand
<1>. QED  BY <1>1, <1>2, <1>3, <1>4, <1>5, <1>6 DEF DataInv

(* What a session has made of records, in its tables, in the cache and on  *)
(* its way to the output.                                                  *)
THEOREM DataInvariance == Spec => []DataInv
<1>1. Init => DataInv
  BY DataInit
<1>2. SessionInv /\ DataInv /\ [Next]_vars => DataInv'
  BY CacheKeeps, LoadKeeps, EngineKeeps, FailureKeeps, DecodableKeeps, OutputKeeps, QueryAnswers
     DEF DataInv
<1>. QED  BY <1>1, <1>2, SessionInvariance, PTL DEF Spec

(* Types, and where a command is in its list of topics.                    *)
THEOREM SessionTyping == Spec => []TypeOK
<1>1. SessionInv /\ DataInv => TypeOK
  <2>. SUFFICES ASSUME SessionInv, DataInv PROVE TypeOK
    OBVIOUS
  <2>1. /\ log \in Contents /\ \A t \in Topics : high[t] \in 0 .. Len(log[t])
        /\ DOMAIN cache \subseteq {SafeSegment(t) : t \in Topics}
    BY DEF DataInv, CacheInv
  <2>2. /\ pc \in Loading \cup {"sql", "print", "flush", "idle", "done", "failed"}
        /\ failure = "none" <=> pc # "failed"
    BY DEF DataInv, FailureInv
  <2>3. shown \in 0 .. Len(answer)
    BY DEF DataInv, OutputInv
  <2>4. /\ command \in Invocations \cup {NoCommand} /\ next \in Nat \ {0}
        /\ pc \in Loading => next <= Len(command.topics)
        /\ pc \in {"sql", "print", "flush", "done"} => next = Len(command.topics) + 1
    BY DEF SessionInv, PlaceInv
  <2>5. pc \in Loading => next \in DOMAIN command.topics
    BY <2>4, TopicsAreListed
  <2>. QED  BY <2>1, <2>2, <2>3, <2>4, <2>5 DEF TypeOK, Loading
<1>. QED  BY <1>1, SessionInvariance, DataInvariance, PTL

(* Every loaded topic is a table of its own that holds what the topic had  *)
(* when it was read, by this command or by the one that left the entry.    *)
THEOREM TablesRead == Spec => []TablesAreTheirTopics
<1>1. DataInv => TablesAreTheirTopics
  BY Readings DEF DataInv, EngineInv, TablesAreTheirTopics
<1>. QED  BY <1>1, DataInvariance, PTL

(* A topic only fails to decode when its records are to blame, or when the *)
(* sample that was asked for does not tell the type of a column it names.  *)
THEOREM Decodable == Spec => []DecodableTopicsDecode
<1>1. DataInv => DecodableTopicsDecode
  BY DEF DataInv
<1>. QED  BY <1>1, DataInvariance, PTL

(* A query that succeeds has written its answer as one whole document.     *)
THEOREM Document == Spec => []OneDocument
<1>1. DataInv => OneDocument
  BY DEF DataInv, OutputInv, QueryInv, OneDocument
<1>. QED  BY <1>1, DataInvariance, PTL

(* A query of records of one object each answers with each of them, in     *)
(* order and once.                                                         *)
THEOREM Answered == Spec => []QueryAnswersEveryRecord
<1>1. SessionInv /\ DataInv => QueryAnswersEveryRecord
  <2>. SUFFICES ASSUME SessionInv, DataInv, pc = "done", command.kind = "query",
                       ~command.explain, command.where
                PROVE  \E j \in DOMAIN command.topics :
                         LET t == command.topics[j]
                             read == SubSeq(log[t], 1, engine[command.select].read)
                             Ids(objects) == [i \in DOMAIN objects |-> objects[i].id]
                         IN  /\ TableOf(t) = command.select
                             /\ Plain(read) => Ids(out.rows) = Ids(Objects(read))
    BY Zenon DEF QueryAnswersEveryRecord
  <2>1. /\ touched = {} /\ command.select \in DOMAIN engine
        /\ answer = engine[command.select].batches /\ out.rows = RowsOf(answer)
    BY DEF DataInv, QueryInv, IsDocument, Answers
  <2>2. PICK j \in 1 .. (next - 1) : command.select = TableOf(command.topics[j])
    BY <2>1 DEF DataInv, EngineInv
  <2>. DEFINE t == command.topics[j]
              table == engine[command.select]
              read == SubSeq(log[t], 1, table.read)
  <2>3. /\ table.read \in 1 .. high[t]
        /\ Made(table.schema, RowsOf(table.batches), table.read, log[t])
    BY <2>1, <2>2 DEF DataInv, EngineInv
  <2>4. command \in Invocations /\ j \in DOMAIN command.topics /\ t \in Topics
    <3>1. command \in Invocations \cup {NoCommand} /\ next = Len(command.topics) + 1
      BY DEF SessionInv, PlaceInv
    <3>2. command \in Invocations
      BY <3>1 DEF NoCommand
    <3>3. j \in DOMAIN command.topics
      BY <2>2, <3>1, TopicsAreListed
    <3>4. command.topics \in Seq(Topics)
      BY <3>2, SessionAssumption
    <3>. QED  BY <3>2, <3>3, <3>4
  <2>5. ArePayloads(read)
    <3>1. ArePayloads(log[t]) /\ Len(log[t]) \in Nat /\ high[t] \in 0 .. Len(log[t])
      BY <2>4, LogsArePayloads DEF DataInv, CacheInv
    <3>2. table.read \in 0 .. Len(log[t])
      BY <2>3, <3>1
    <3>. HIDE DEF t, table
    <3>. QED  BY <3>1, <3>2, SampleOfObjects
  <2>6. PICK schema : out.rows = DecodeBatch(read, schema)
    BY <2>1, <2>3 DEF Made
  <2>. HIDE DEF read
  <2>7. ASSUME Plain(read)
        PROVE  [i \in DOMAIN out.rows |-> out.rows[i].id]
               = [i \in DOMAIN Objects(read) |-> Objects(read)[i].id]
    <3>1. \A i \in 1 .. Len(read) : Len(read[i].objects) <= 1
      BY <2>5, <2>7, ObjectsOfPayloads DEF Plain
    <3>. QED  BY <2>5, <2>6, <3>1, EveryObjectHasItsRow
  <2>. QED  BY <2>2, <2>4, <2>7 DEF read
<1>. QED  BY <1>1, SessionInvariance, DataInvariance, PTL
=============================================================================

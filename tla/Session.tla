------------------------------ MODULE Session ------------------------------
(***************************************************************************)
(* "kqr query" and "kqr repl": a command loads its topics one after the    *)
(* other as tables of its engine, from Kafka or from an entry that an      *)
(* earlier query left in the cache, and then answers SQL.  Topics grow     *)
(* meanwhile.  Reading a window and keeping an entry are single steps      *)
(* here: Consume and ParquetCache are about them.                          *)
(***************************************************************************)
EXTENDS Decode, TableNames, FiniteSets

CONSTANTS
    Topics,        \* the topics there are
    Contents,      \* what producers may write: payloads of every topic
    Invocations,   \* command lines, with the format that pick_format chose
    Created,       \* names that SQL of the REPL gives to tables it creates
    BatchRows,     \* rows in a batch of the Parquet reader
    Formats,       \* arguments of \format
    MaxEntries     \* bound: entries that are kept

ASSUME SessionAssumption ==
    /\ \A t \in Topics : t \in Seq(TopicCharacters) /\ IsTopicName(t)
    /\ \A l \in Contents : \A t \in Topics :
         IsSequence(l[t]) /\ \A i \in DOMAIN l[t] : IsPayload(l[t][i])
    /\ \A c \in Invocations :
         /\ c.kind \in {"query", "repl"} /\ c.topics \in Seq(Topics) /\ c.topics # <<>>
         /\ {c.reuse, c.explain} \subseteq BOOLEAN /\ c.sample \in Nat
         /\ c.format \in {"table", "json", "ndjson", "csv"}
    /\ Formats \subseteq {"table", "json", "ndjson", "csv"}
    /\ BatchRows \in Nat \ {0} /\ MaxEntries \in Nat

VARIABLES
    log,        \* log[t]: the payloads that topic t is going to have
    high,       \* high[t]: how many of them it has
    cache,      \* cache[s]: the entry of directory s, if there is one
    command,    \* the command line
    pc,         \* where the command is
    next,       \* position of the topic that is being loaded
    payloads,   \* what was consumed of it
    batches,    \* what is to become its table: schema, batches of rows and,
                \* for the properties alone, of how many payloads they are
    engine,     \* the tables of the engine by their names
    schemas,    \* Session.schemas of the REPL
    touched,    \* names that SQL of the user has created or dropped
    format,     \* the output format
    answer,     \* the batches that SQL has returned
    shown,      \* how many of them are written
    out,        \* what is written for them
    failure     \* why the command failed

topicVars == <<log, high>>
loading == <<next, payloads, batches>>
tables == <<engine, schemas, touched>>
output == <<format, answer, shown, out>>
vars == <<topicVars, cache, command, pc, loading, tables, output, failure>>

Nothing == [x \in {} |-> 0]

NoTable == [schema |-> Nothing, batches |-> <<>>, read |-> 0]

NoOutput == [heads |-> 0, rows |-> <<>>, closed |-> FALSE]

NoCommand ==
    [kind |-> "none", topics |-> <<>>, reuse |-> FALSE, explain |-> FALSE, sample |-> 0,
     format |-> "table", select |-> <<>>, where |-> TRUE]

Put(f, k, v) == [x \in DOMAIN f \cup {k} |-> IF x = k THEN v ELSE f[x]]

Without(f, k) == [x \in DOMAIN f \ {k} |-> f[x]]

(* All rows of a sequence of batches. *)
RowsOf(bs) == Concatenated(bs)[Len(bs)]

Init ==
    /\ log \in Contents
    /\ high = [t \in Topics |-> 0]
    /\ cache = Nothing
    /\ command = NoCommand
    /\ pc = "idle"
    /\ next = 1 /\ payloads = <<>> /\ batches = NoTable
    /\ engine = Nothing /\ schemas = Nothing /\ touched = {}
    /\ format = "table" /\ answer = <<>> /\ shown = 0 /\ out = NoOutput
    /\ failure = "none"

(* A producer.  What it writes is only looked at by Fetch. *)
Produce(t) ==
    /\ high[t] < Len(log[t])
    /\ pc \in {"idle", "load"}
    /\ high' = [high EXCEPT ![t] = @ + 1]
    /\ UNCHANGED <<log, cache, command, pc, loading, tables, output, failure>>

(* An entry passes its TTL, after which it is as good as gone. *)
Expire(s) ==
    /\ pc \in {"idle", "load"}
    /\ cache' = Without(cache, s)
    /\ UNCHANGED <<topicVars, command, pc, loading, tables, output, failure>>

Goto(l) == pc' = l

Fail(why) == pc' = "failed" /\ failure' = why

-----------------------------------------------------------------------------
(* run of query.rs and of repl.rs, up to the loop over topics *)

Begin ==
    /\ pc = "idle"
    /\ command' \in Invocations
    /\ Goto("load")
    /\ format' = command'.format
    /\ UNCHANGED <<topicVars, cache, loading, tables, answer, shown, out, failure>>

Topic == command.topics[next]

(* The REPL loads without the cache that it makes; --reuse is a flag of    *)
(* query alone, and nothing reads the flag that \reuse sets.               *)
Caching == command.kind = "query" /\ command.reuse

(* A mutant: the sample is as long as it was asked to be, be it zero. *)
SampleSizeRaw == IF command.sample <= Len(payloads) THEN command.sample ELSE Len(payloads)

SampleSize ==
    IF command.sample = 0 THEN 1
    ELSE IF command.sample <= Len(payloads) THEN command.sample ELSE Len(payloads)

Sample == SubSeq(payloads, 1, SampleSize)

-----------------------------------------------------------------------------
(* register_topic *)

(* The Parquet reader returns the rows in batches of its own size. *)
Split(rows) ==
    [i \in 1 .. ((Len(rows) + BatchRows - 1) \div BatchRows) |->
        SubSeq(rows, (i - 1) * BatchRows + 1,
               IF i * BatchRows <= Len(rows) THEN i * BatchRows ELSE Len(rows))]

(* A mutant: only the first batch of an entry is pushed to the builder. *)
HitFirstBatch ==
    /\ pc = "load" /\ Caching
    /\ SafeSegment(Topic) \in DOMAIN cache
    /\ LET e == cache[SafeSegment(Topic)]
       IN  batches' = [schema |-> e.schema, batches |-> <<Split(e.rows)[1]>>, read |-> e.read]
    /\ Goto("register")
    /\ UNCHANGED <<topicVars, cache, command, next, payloads, tables, output, failure>>

Hit ==
    /\ pc = "load" /\ Caching
    /\ SafeSegment(Topic) \in DOMAIN cache
    /\ LET e == cache[SafeSegment(Topic)]
       IN  batches' = [schema |-> e.schema, batches |-> Split(e.rows), read |-> e.read]
    /\ Goto("register")
    /\ UNCHANGED <<topicVars, cache, command, next, payloads, tables, output, failure>>

(* Consume delivers the window, which for this module is all there is, or  *)
(* fails; a window without messages is an error.                           *)
Fetch ==
    /\ pc = "load"
    /\ Caching => SafeSegment(Topic) \notin DOMAIN cache
    /\ \/ /\ high[Topic] > 0
          /\ payloads' = SubSeq(log[Topic], 1, high[Topic])
          /\ Goto("decode") /\ UNCHANGED failure
       \/ Fail("kafka") /\ UNCHANGED payloads
    /\ UNCHANGED <<topicVars, cache, command, next, batches, tables, output>>

DecodePayloads ==
    /\ pc = "decode"
    /\ IF Infers(Sample) /\ Decodes(payloads, InferSchema(Sample))
       THEN /\ batches' = [schema |-> InferSchema(Sample),
                           batches |-> <<DecodeBatch(payloads, InferSchema(Sample))>>,
                           read |-> Len(payloads)]
            /\ Goto(IF Caching THEN "write" ELSE "register")
            /\ UNCHANGED failure
       ELSE Fail("decode") /\ UNCHANGED batches
    /\ UNCHANGED <<topicVars, cache, command, next, payloads, tables, output>>

(* A write that fails is only warned about; one beyond the bound does. *)
Write ==
    /\ pc = "write"
    /\ \/ /\ cache' = Put(cache, SafeSegment(Topic),
                          [schema |-> batches.schema, rows |-> RowsOf(batches.batches),
                           read |-> batches.read])
          /\ Cardinality(DOMAIN cache') <= MaxEntries
       \/ UNCHANGED cache
    /\ Goto("register")
    /\ UNCHANGED <<topicVars, command, loading, tables, output, failure>>

TableName == EngineName(SqlTableName(Topic))

(* What "select * from t limit 0" tells about the schema of t: DataFusion  *)
(* need not return a batch for no rows, and what has no batch has no       *)
(* columns.  For a name that is a word of SQL the statement fails.         *)
Described == {batches.schema, Nothing}

(* Two mutants: a table replaces one of the same name, and the REPL files  *)
(* schemas under the names of topics.                                      *)
RegisterReplacing ==
    /\ pc = "register"
    /\ engine' = Put(engine, TableName, batches)
    /\ \/ UNCHANGED schemas
       \/ /\ command.kind = "repl"
          /\ \E s \in Described : schemas' = Put(schemas, SqlTableName(Topic), s)
    /\ next' = next + 1 /\ payloads' = <<>> /\ batches' = NoTable
    /\ Goto(IF next < Len(command.topics) THEN "load" ELSE "sql")
    /\ UNCHANGED <<topicVars, cache, command, touched, output, failure>>

RegisterTopicNames ==
    /\ pc = "register"
    /\ IF TableName \in DOMAIN engine
       THEN Fail("register") /\ UNCHANGED <<loading, engine, schemas>>
       ELSE /\ engine' = Put(engine, TableName, batches)
            /\ \/ UNCHANGED schemas
               \/ /\ command.kind = "repl"
                  /\ \E s \in Described : schemas' = Put(schemas, Topic, s)
            /\ next' = next + 1 /\ payloads' = <<>> /\ batches' = NoTable
            /\ Goto(IF next < Len(command.topics) THEN "load" ELSE "sql")
            /\ UNCHANGED failure
    /\ UNCHANGED <<topicVars, cache, command, touched, output>>

(* The end of register_topic and of the loop's body.  The engine refuses a *)
(* name that it has.                                                       *)
Register ==
    /\ pc = "register"
    /\ IF TableName \in DOMAIN engine
       THEN Fail("register") /\ UNCHANGED <<loading, engine, schemas>>
       ELSE /\ engine' = Put(engine, TableName, batches)
            /\ \/ UNCHANGED schemas
               \/ /\ command.kind = "repl"
                  /\ \E s \in Described : schemas' = Put(schemas, SqlTableName(Topic), s)
            /\ next' = next + 1 /\ payloads' = <<>> /\ batches' = NoTable
            /\ Goto(IF next < Len(command.topics) THEN "load" ELSE "sql")
            /\ UNCHANGED failure
    /\ UNCHANGED <<topicVars, cache, command, touched, output>>

-----------------------------------------------------------------------------
(* SQL: "select * from n", also with a condition that no row meets. *)

Answers(n, where) == IF where THEN engine[n].batches ELSE <<>>

(* A mutant: the writer starts where it was. *)
ExecuteOn(n, where) ==
    /\ answer' = Answers(n, where)
    /\ out' = NoOutput /\ UNCHANGED shown
    /\ Goto("print")

Execute(n, where) ==
    /\ answer' = Answers(n, where)
    /\ shown' = 0
    /\ out' = NoOutput
    /\ Goto("print")

(* query: the statement of the command line, or its plan. *)
RunQuery ==
    /\ pc = "sql" /\ command.kind = "query"
    /\ \/ /\ command.select \in DOMAIN engine /\ ~command.explain
          /\ Execute(command.select, command.where) /\ UNCHANGED failure
       \/ /\ command.select \in DOMAIN engine /\ command.explain
          /\ Goto("done") /\ UNCHANGED <<answer, shown, out, failure>>
       \/ /\ command.select \notin DOMAIN engine
          /\ Fail("sql") /\ UNCHANGED <<answer, shown, out>>
    /\ UNCHANGED <<topicVars, cache, command, loading, tables, format>>

(* The REPL's prompt.  A statement that fails leaves everything as it is.  *)
Prompt == pc = "sql" /\ command.kind = "repl"

Select(n, where) ==
    /\ Prompt /\ n \in DOMAIN engine
    /\ Execute(n, where)
    /\ UNCHANGED <<topicVars, cache, command, loading, tables, format, failure>>

(* "create table n as select * from m", "drop table n" *)
CreateTable(n, m) ==
    /\ Prompt /\ m \in DOMAIN engine /\ n \notin DOMAIN engine
    /\ engine' = Put(engine, n, engine[m])
    /\ touched' = touched \cup {n}
    /\ UNCHANGED <<topicVars, cache, command, pc, loading, schemas, output, failure>>

DropTable(n) ==
    /\ Prompt /\ n \in DOMAIN engine
    /\ engine' = Without(engine, n)
    /\ touched' = touched \cup {n}
    /\ UNCHANGED <<topicVars, cache, command, pc, loading, schemas, output, failure>>

(* handle_meta: \format, and \q or the end of input.  \d reads schemas and *)
(* nothing else; \timing and \reuse set flags that decide on no state.     *)
SetFormat(f) ==
    /\ Prompt /\ f # format
    /\ format' = f
    /\ UNCHANGED <<topicVars, cache, command, pc, loading, tables, answer, shown, out, failure>>

Quit ==
    /\ Prompt
    /\ Goto("done")
    /\ UNCHANGED <<topicVars, cache, command, loading, tables, output, failure>>

-----------------------------------------------------------------------------
(* write_batches *)

(* write_table: laid out as a whole, then written. *)
WriteTable ==
    /\ pc = "print" /\ format = "table"
    /\ out' = [heads |-> IF Len(answer) = 0 THEN 0 ELSE 1, rows |-> RowsOf(answer), closed |-> TRUE]
    /\ shown' = Len(answer)
    /\ Goto("flush")
    /\ UNCHANGED <<topicVars, cache, command, loading, tables, format, answer, failure>>

(* A mutant: every batch is written with a header. *)
WriteBatchHeaded ==
    /\ pc = "print" /\ format # "table" /\ shown < Len(answer)
    /\ shown' = shown + 1
    /\ out' = [out EXCEPT !.heads = @ + (IF format = "csv" THEN 1 ELSE 0),
                          !.rows = @ \o answer[shown + 1]]
    /\ UNCHANGED <<topicVars, cache, command, pc, loading, tables, format, answer, failure>>

(* write_csv and write_json: batch by batch. *)
WriteBatch ==
    /\ pc = "print" /\ format # "table" /\ shown < Len(answer)
    /\ shown' = shown + 1
    /\ out' = [out EXCEPT !.heads = IF format = "csv" THEN 1 ELSE 0,
                          !.rows = @ \o answer[shown + 1]]
    /\ UNCHANGED <<topicVars, cache, command, pc, loading, tables, format, answer, failure>>

(* finish: of JSON, the closing bracket. *)
FinishOutput ==
    /\ pc = "print" /\ format # "table" /\ shown = Len(answer)
    /\ out' = [out EXCEPT !.closed = TRUE]
    /\ Goto("flush")
    /\ UNCHANGED <<topicVars, cache, command, loading, tables, format, answer, shown, failure>>

(* lock.flush(), after write_batches. *)
Flush ==
    /\ pc = "flush"
    /\ Goto(IF command.kind = "query" THEN "done" ELSE "sql")
    /\ UNCHANGED <<topicVars, cache, command, loading, tables, output, failure>>

(* Standard output is gone: a query fails, be it only the flush that does; *)
(* the REPL goes on.                                                       *)
OutputFails ==
    /\ pc \in {"print", "flush"}
    /\ IF command.kind = "query" THEN Fail("output") ELSE Goto("sql") /\ UNCHANGED failure
    /\ UNCHANGED <<topicVars, cache, command, loading, tables, output>>

-----------------------------------------------------------------------------
Load == Hit \/ Fetch \/ DecodePayloads \/ Write \/ Register

Repl ==
    \/ \E n \in DOMAIN engine, where \in BOOLEAN : Select(n, where)
    \/ \E n \in Created, m \in DOMAIN engine : CreateTable(n, m)
    \/ \E n \in DOMAIN engine : DropTable(n)
    \/ \E f \in Formats : SetFormat(f)
    \/ Quit

(* The process ends; what stays are files. *)
Exit ==
    /\ pc \in {"done", "failed"}
    /\ command' = NoCommand
    /\ Goto("idle")
    /\ next' = 1 /\ payloads' = <<>> /\ batches' = NoTable
    /\ engine' = Nothing /\ schemas' = Nothing /\ touched' = {}
    /\ format' = "table" /\ answer' = <<>> /\ shown' = 0 /\ out' = NoOutput
    /\ failure' = "none"
    /\ UNCHANGED <<topicVars, cache>>

Output == WriteTable \/ WriteBatch \/ FinishOutput \/ Flush \/ OutputFails

Next ==
    \/ \E t \in Topics : Produce(t)
    \/ \E s \in DOMAIN cache : Expire(s)
    \/ Begin \/ Load \/ RunQuery \/ Repl \/ Output \/ Exit

Spec == Init /\ [][Next]_vars
-----------------------------------------------------------------------------
(* Properties. *)

(* The type of every variable but the rows: where the command is says which *)
(* topic it is at, and what is written is part of what was answered.        *)
TypeOK ==
    /\ log \in Contents /\ \A t \in Topics : high[t] \in 0 .. Len(log[t])
    /\ DOMAIN cache \subseteq {SafeSegment(t) : t \in Topics}
    /\ command \in Invocations \cup {NoCommand}
    /\ pc \in {"load", "decode", "write", "register", "sql", "print", "flush", "idle", "done",
              "failed"}
    /\ pc \in {"load", "decode", "write", "register"} => next \in DOMAIN command.topics
    /\ pc \in {"sql", "print", "flush", "done"} => next = Len(command.topics) + 1
    /\ shown \in 0 .. Len(answer)
    /\ failure = "none" <=> pc # "failed"

(* What some command may have made of the first records of topic t. *)
IsReadingOf(table, t) ==
    /\ table.read \in 1 .. high[t]
    /\ \E m \in 1 .. table.read :
         LET read == SubSeq(log[t], 1, table.read)
             inferred == InferSchema(SubSeq(read, 1, m))
         IN  table.schema = inferred /\ RowsOf(table.batches) = DecodeBatch(read, inferred)

TableOf(t) == EngineName(SqlTableName(t))

(* Every topic loaded so far is a table of its own, found under its name   *)
(* and made of all records that the topic had when it was read, whether it *)
(* came from Kafka or from an entry that some other command left, until    *)
(* SQL replaces it.                                                        *)
TablesAreTheirTopics ==
    \A j \in 1 .. (next - 1) :
        LET t == command.topics[j]
            n == TableOf(t)
        IN  \/ n \in touched
            \/ /\ n \in DOMAIN engine
               /\ IsReadingOf(engine[n], t)

(* No two topics of a command share a table: a command whose topics have   *)
(* one SQL name between them fails before any SQL runs.                    *)
OneTopicPerTable ==
    pc \in {"sql", "print", "flush", "done"} =>
        \A i, j \in DOMAIN command.topics :
            TableOf(command.topics[i]) = TableOf(command.topics[j]) => i = j

(* Records that are one object, or none, each. *)
Plain(read) == \A i \in DOMAIN read : read[i].valid /\ Len(read[i].objects) <= 1

(* "select * from t" answers with every record of the window, in order and *)
(* once, when no record bundles several objects, also when it comes from   *)
(* an entry that is read back in several batches.                          *)
QueryAnswersEveryRecord ==
    (pc = "done" /\ command.kind = "query" /\ ~command.explain /\ command.where) =>
        \E j \in DOMAIN command.topics :
            LET t == command.topics[j]
                read == SubSeq(log[t], 1, engine[command.select].read)
                Ids(objects) == [i \in DOMAIN objects |-> objects[i].id]
            IN  /\ TableOf(t) = command.select
                /\ Plain(read) => Ids(out.rows) = Ids(Objects(read))

(* A topic only fails to decode when a record of it is not one object on   *)
(* one line, when its records disagree on the type of a column, or when    *)
(* the sample that was asked for shows too little: nothing but tombstones, *)
(* or a column that is null as far as the sample goes and has values       *)
(* later.  Asking for no records, or for more than there are, is no reason.*)
DecodableTopicsDecode ==
    failure = "decode" =>
        \/ \E i \in DOMAIN payloads : ~OneLine(payloads[i])
        \/ ~Agree(Objects(payloads))
        \/ \E m \in 1 .. Len(payloads) :
             /\ \/ command.sample = m
                \/ command.sample = 0 /\ m = 1
                \/ command.sample > m /\ m = Len(payloads)
             /\ ~Tell(m, payloads)

(* All batches of the answer in their order and once, behind one header    *)
(* where the format has one and there is a batch to take it from, and      *)
(* closed.                                                                 *)
IsDocument ==
    /\ out.rows = RowsOf(answer) /\ out.closed
    /\ out.heads = IF format \in {"csv", "table"} /\ Len(answer) # 0 THEN 1 ELSE 0

(* A query that succeeds has written one document, and so has any answer   *)
(* that was written without an error.                                      *)
OneDocument ==
    /\ pc = "flush" => IsDocument
    /\ pc = "done" /\ command.kind = "query" /\ ~command.explain => IsDocument

(* \d knows tables by the names that SQL knows them by, and never shows    *)
(* the columns of another table: it shows those that were loaded, or none, *)
(* until SQL has created or dropped the table.                             *)
DescribesNoOtherTable ==
    \A n \in DOMAIN schemas :
        LET e == EngineName(n)
        IN  e \in touched \/ (e \in DOMAIN engine /\ schemas[n] \in {engine[e].schema, Nothing})

TablesShowColumns ==
    \A n \in DOMAIN schemas :
        EngineName(n) \notin touched => schemas[n] = engine[EngineName(n)].schema

AnswersShowColumns == pc = "flush" /\ format \in {"csv", "table"} => out.heads = 1

(* "\d <table>  print schema of <table>", and "Empty input writes only     *)
(* headers": the columns of a table that was loaded and of an answer that  *)
(* is tabular can always be seen.                                          *)
ColumnsAlwaysShown == TablesShowColumns /\ AnswersShowColumns
=============================================================================

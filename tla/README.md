# kqr in TLA+

kqr reads a bounded window of a Kafka topic, turns the JSON payloads into an
Arrow table and answers SQL about it. This directory specifies kqr from the
command line to the last byte of output: what a command line, a configuration
and an environment amount to; the task that consumes, the channel it fills, the
command that drains it and a topic that does not stand still; the cache files
that several processes share; and the tables, answers and sessions made of what
was consumed. TLC checks the specifications on small instances,
and TLAPS proves what matters most about each of them for all.

Source paths below are relative to `src/`.

## Inventory

| Component | State | Operations | Modelled in |
| --- | --- | --- | --- |
| Consume task, `kqr-core/src/infra/kafka/consumer.rs` (`RdkafkaSource`) | plan, `remaining` per partition, `left_to_send`, fetch positions, the record being sent, offsets stored and committed | resolve and assign, poll, skip, send, commit, return | `Consume` |
| `KafkaSource` trait, `kafka/mod.rs` | none | `consume`, `list_topics` | `KafkaSource` (the promise of `consume`) |
| Window resolution, `resolve_assignments` and below | watermarks, answers to time look-ups | requests to the broker, clamping, arithmetic | `Resolve`, `Assignments`, `Plans` |
| Window flags, `kafka/window.rs`, the argument group of `kqr-cli/src/cli.rs` | none | `WindowParse::resolve`, `check_range`, `cache_token` | `WindowFlags`, `Launch` |
| Configuration, `infra/config.rs`, `resolve_profile` of `main.rs` | file, environment, profile | load, select, expand, override | `Profiles`, `Launch` |
| Command line and dispatch, `main.rs`, `commands/topics.rs` | how far the command is | parse, resolve, look into the cache, connect | `Launch` |
| Commands `query`, `sample`, `schema` in `kqr-cli/src/commands` | payloads received, how far the command is | receive, hang up, join, decode, cache, print | `Consume`, `ParquetCache`, `Session` |
| Parquet cache, `kqr-core/src/app/cache.rs` | files | `read`, `is_fresh`, `write`, `key_path` | `ParquetCache` (one entry), `Launch` and `Session` (keys) |
| JSON decoder, `app/decode/json.rs` | none | `infer_schema`, `decode_batch` | `Decode` |
| Table names and builder, `app/table.rs` | batches | `sql_table_name`, `push`, `build` | `TableNames`, `Session` |
| Query engine, `app/query.rs` | tables by name | `register_table`, `execute`, `explain` | `Session` |
| REPL, `commands/repl.rs` | format, timing, reuse, schemas (the first and last are modelled) | meta commands, SQL | `Session` |
| Output writers, `app/output.rs` | what is written | table, JSON, NDJSON, CSV | `Session` |
| Progress, errors | none that anything depends on | | not modelled |

How they interact: a command resolves its flags to a `TimeWindow`, spawns
`consume` on a tokio task with the sending end of a bounded channel, receives
until the channel ends (`schema`: until it has enough), and then awaits the
task. `query` decodes what it received, writes it to the cache when `--reuse`
is given, and registers a table; with a cache hit it never consumes. Different
processes meet in the files of the cache and, with `--consumer-group-id`, in
the offsets of the group.

What is hard: records appended after the window was resolved; offsets that
hold no record; a full channel and a receiver that goes away; offsets stored
when a record is polled and committed by a timer before it is sent; broker
answers from different moments; integer division and casts; crashes between
two writes, and two processes writing one file; keys that forget part of what
was asked; errors that are swallowed, and defaults from a file, a variable and
a flag at once; topics whose names become one; records that the sample did not
foretell; output that ends in the middle. `PROJECT.json` lists every one
of these hazards at its line, with the properties that watch it.

What makes each part correct:

* consume: only the window, all of the window, in order, once, up to the limit;
  it ends; a group is not committed past what was handed over, and loses no more
  than a channel of records when a command dies;
* resolution: the plan lies within the log, is the window asked for, and no more
  than the limit;
* cache: an entry is whole, readable and fresh, whoever writes and dies; it
  answers the question that was asked and no other;
* command line and configuration: every flag decides or is refused, the brokers
  and the profile are those that were named, nothing unexpanded gets through;
* session: a table is its topic's and all of it, an answer is one document with
  every row, `\d` shows no columns but a table's own, and what fails to decode
  does so because of its records or of a sample that tells too little of them.

## Modules

* `Plans`: the plan, an interval of offsets for each partition. Used by the two
  next.
* `Assignments`: the pure arithmetic of `resolve_assignments`. Integers keep
  their width: `HalfRange` stands for 2^63, so that casts and additions wrap.
* `Resolve`: the resolution one request at a time (`FetchWatermarks`,
  `LookupFrom`, `LookupTo`, `Build`, `Fail`) while `Produce` and `Retain` move
  the topic. It is the step `ResolvePlan` of `Consume` taken apart.
* `Consume`: one command, its task and its topic. The receive loop is one action
  per way through its body: `Skip`, `ReachEnd`, `Take`, `Send`, `SinkClosed`,
  `Finish`, `PollFails`. `sent` is everything ever put in the channel and
  `taken` how much of it was received. `Receive`, `Drained`, `OutputFails` and
  `Join` are the command. librdkafka and the topic are external: `Delivers`,
  `AutoCommit`, `Append1`, `Remove`.
* `KafkaSource`: what the trait promises of `consume`, without remaining counts,
  positions or channel. `Consume` instantiates it as `Source`.
* `ConsumeInv`, `ConsumeProofs`, `ConsumeRefinement`, `ResolveProofs`,
  `ParquetCacheProofs`, `TableNamesProofs`, `LaunchProofs`, `DecodeProofs`,
  `SessionProofs`: inductive invariants and proofs.
* `ParquetCache`: commands that share one entry. Names point to inodes and
  descriptors stay with their inode, since the atomicity of `write` rests on
  what a rename does to those who have the old file open. `CheckExists`,
  `CheckFresh`, `Open` and `Read` are the four steps of `read`; `Create`,
  `WriteRows`, `WriteFooter` and `Rename` those of `write`.
* `SnapshotStore`: what an entry promises, without files: one snapshot or none,
  replaced in one step and served in one step. `ParquetCache` instantiates it as
  `Store`; the entry is what the key's inode holds, and a command is served at
  the moment it opens the file.
* `WindowFlags`: `WindowParse::resolve` as a function of flags that have been
  parsed: absent, a duration, an instant, malformed. The order of its branches
  is the code's, since that order is what decides between flags.
* `Profiles`: `load_from`, `select_profile` with the expansion of `${VAR}`, and
  `resolve_profile`, as functions of a file and an environment.
* `Launch`: commands one after the other, each with a command line of its own,
  while files, variables and the clock change between them. The order of the
  steps is the program's: `ResolveProfile`, `Dispatch`, `ParseFlags`, `Lookup`,
  `Connect`, `Read` and `Write`. An entry carries the question it answered, so that
  `HitAnswersTheQuestion` can compare.
* `TableNames`: the three names a topic gets: of its table, as the engine files
  it, and of its directory in the cache, character by character. Most properties
  of `Session` only need to know which names coincide; the characters are there
  because the three functions differ in nothing else, and because that two topics
  never share a directory is a fact about characters (`DirectoriesAreApart`).
* `Decode`: schema inference over a sample and decoding of all payloads. A
  payload is the sequence of objects in it, an object the kinds of value in its
  columns (`IsPayload`, `IsObject`): integers, other numbers, null, and text for
  all others. A null tells nothing of a type, so that a column of nulls gets the
  type Null, which takes no value later; integers and other numbers make a column
  of floats; and a column of integers cuts off the fractions that it meets
  later. `Concatenated` is the one recursion: the objects of payloads, and the
  rows of batches, one behind the other. `OneLine`, `Agree` and `Tell` are the
  vocabulary of the properties: records that are one object a line, that agree
  on types, and a sample that tells the types of the columns it names.
* `Session`: `query` and `repl` over several topics: `Hit`, `Fetch`,
  `DecodePayloads`, `Write` and `Register` are `register_topic`; `RunQuery`,
  `Select`, `CreateTable`, `DropTable`, `SetFormat` and `Quit` what is done with
  the tables; `WriteTable`, `WriteBatch`, `FinishOutput`, `Flush` and
  `OutputFails` the writers. It composes `Decode` and `TableNames`, and takes from the others
  their promise: `Fetch` delivers the whole window or fails, which is
  `SuccessIsComplete` of `Consume`, and an entry is whole and replaced in one
  step, which is `ImplementsStore` of `ParquetCache`. The field `read` of a table
  and of an entry is for the properties alone.
* `MCConsume`, `MCResolve`, `MCParquetCache`, `MCLaunch`, `MCSession`: the
  instances for TLC.

Definitions named as mutants change one definition of the model the way a bug
would; each belongs to a property that detects it, listed in `PROJECT.json`.

The plan of `Consume` is any plan of intervals below the watermarks
(`PlansBelow`); that `Resolve` only makes such plans is `PlanFitsConsume`,
checked and proved there.

## Runs

| Run | Result | Shows |
| --- | --- | --- |
| `consume_core` | passes | Without gaps in the log, limits, no hang-up on a task that could still use the receiver, no wait for a record that is not there, and every command ends. |
| `consume_gaps` | passes | With gaps, order, window, completeness, group offsets and what a group may lose, the inductive invariant, and the refinement of `KafkaSource`. |
| `consume_hang` | violated | `remaining` counts records and not offsets. When the last offset of the window holds no record and nothing is appended behind it, the task waits for ever although it has fetched the whole window. |
| `consume_commit` | violated | A record behind the window, polled and dropped, moves the group. |
| `resolve_windows` | passes | Time windows are exact when timestamps are in order and the look-ups succeed; open windows miss nothing in any order; offset windows stay within their limit or one record per partition, and lose less than one per partition to rounding; overflowing limits still give a plan within the log. |
| `resolve_capped` | violated | With limit 1 and two partitions, two messages are planned. |
| `cache_single` | passes | Crashes and failing writes leave the entry whole; readers never fail on it, and are served what was fresh when checked; and it implements `SnapshotStore`. |
| `cache_race` | violated | Two refreshing commands share the temporary file: a half-written file is renamed. |
| `launch_lines` | passes | Each command reads from the brokers, with the profile and in the window that were asked for, or fails; with `--brokers` the other fields come from one profile or from none; what `--reuse` serves was fetched for the same brokers and the same window, to the second. |
| `launch_settings` | violated | Settings that are accepted and do not bind; see below. |
| `session_topics` | passes | Every table is its topic's, with every record it had when it was read, although an earlier query with another sample, or of a topic with the same SQL name, left the entry; two topics with one name never answer for each other; only records that disagree, or a sample that tells too little, fail to decode; what was written and flushed is one document; `\d` never shows another table's columns. |
| `session_columns` | violated | Columns that are known and not shown; see below. |

The six violated properties state what the trait's or a function's comment or
the documents of kqr say; `findings` in `PROJECT.json` quotes the lines. Two of
them are conjunctions of promises of one kind, and TLC stops at the first state
that violates any; each conjunct is violated too when it alone is the invariant
of the same run:

* `SettingsBind`, what a user sets is refused or does what is documented.
  `LimitCaps`: `--limit` caps nothing unless `--offset` is given too. `ToEnds`:
  `--to` next to `--offset` is neither refused, as DESIGN.md says, nor an end.
  `SinceIsLast`: `--since` with a duration that chrono cannot hold is not the
  same as `--last`; it reads from now on, or panics. `TtlHolds`: `[cache] ttl`
  is never used. `FlagsDecide`, which is checked and proved, says that all other
  command lines get the window that DESIGN.md gives them, or none when it allows
  none; `PassesOver` and `Far` name those it leaves aside, which are these.
* `ColumnsAlwaysShown`, the columns of a table and of an answer can be seen.
  `TablesShowColumns`: `\d` may print a table without columns, since it reads
  them off the first batch of a statement that has no rows. The engine need not
  return a batch for it; DataFusion plans a limit of zero as an empty relation,
  and `Described` leaves both outcomes open. `AnswersShowColumns`: an answer
  without batches has no header in CSV, and in a table the words "(empty
  result)". `DescribesNoOtherTable` and `OneDocument`, which are checked and
  proved, say what holds all the same.

Bounds. Two partitions are enough for one to be done while the other is not,
for order across partitions to differ from order within one, and for a limit
below the number of partitions. `MaxOffset = 2` gives windows of none, one and
two offsets with records before, in and behind them, and room to append behind
a window that ends at its watermark. A channel of one slot is the tightest: a
task that must wait at every second record. Limits 0, 1 and 2 lie below, at and
above what a window holds. In `Resolve`, `HalfRange = 8` lets the limits 14, 16
and 31 wrap, in the cast and in the addition, as 2^63 and above do in the code,
and over two partitions the limits 3 and 5 lose a record to the division: with 3
each partition's share is one record, which logs of two can hold.
In the cache, two commands suffice for a reader and a writer or two writers;
a TTL of 1 and a clock up to 2 let an entry be fresh, expire and be
refreshed. `MaxRefreshing` says how many commands refresh at once:
with 1 the cache is what it promises, with 2 it is not (`cache_race`), and that
is the boundary the two runs draw.

In `Launch`, one entry and a TTL of 1 within a clock of 2 let a command find its
own entry, another's, and an expired one; the command lines pair every window
flag with the flag that it overrides or is refused with, and there are two
profiles of three fields, one of them with a plain field and one whose variable
may be unset, so that taking fields one by one shows. In `Session` the three topics are
chosen by their names: two with one SQL name and two directories, and a third
whose name has to be changed in its first character and its case. The first
topic's contents run over records that agree, disagree, are tombstones, hold two
objects, are spread over lines or are no JSON, and over columns of integers, of
integers and other numbers, and of null first and a value later. Batches of one row split every
entry of two, one entry makes the cache full, and one created table is enough to
take the name of a dropped one.

Fairness (`Fairness` in `Consume`): tokio runs the task and the command, the
metadata and watermark requests have a timeout, and librdkafka serves every
partition that has a record to fetch. Nothing is assumed of producers, of
stream errors or of the commit timer. `Terminates` needs a topic without gaps:
`consume_hang` is why.

## Proofs

All theorems hold for any number of partitions or commands, any capacity,
limits, log and clock; the constants' only assumptions are those named in the
modules.

* `ConsumeProofs`. `IndInv` of `ConsumeInv` is inductive. Its parts: what
  `remaining` counts (a partition that is still read has at least as many
  messages expected as offsets before its end, and exactly as many without
  gaps: `ProgressInv`), that what the position has passed was handed over
  (`PassedInv`), that what is left to send is what the limit leaves or covers all
  that is still expected (`QuotaInv`), what the command may assume of the task
  (`CommandInv`), that stored and committed offsets trail the position
  (`GroupInv`), and that what was sent and did not arrive fits in the channel
  (`ChannelInv`). None of the properties is inductive alone: that nothing is
  skipped needs to know why a partition was declared done, and that a success
  is complete needs both counts. From it follow `Typing`, `Window`, `Order`,
  `Limit`, `Listening`, `Complete`, `Success`, `Committed`, `Losses` and
  `Starvation`. `Losses` counts: what the group has committed was polled, what
  was polled was sent or is being sent (`PassedInv`), and what was sent and not
  received is in the channel, so that the lost are at most as many as fit there
  and one.
* `ConsumeRefinement`. Every step of `Consume` is a step of `KafkaSource` or a
  stutter of it: polls and drops are stutters, `Send` is `Emit`, and the return
  of the task is `Succeed`, allowed because the window is exhausted, the limit
  reached or the receiver gone.
* `ResolveProofs`. Every plan lies within the log (`PlanFits`), for every limit
  and every width of integers: the clamps, and the filter of empty intervals,
  absorb any wrapped sum. `TimeWindows` and `OpenWindows` need to know what an
  old answer still tells (`AnswersInv`): the records before an answered offset,
  and all below the fetched watermark when there was no answer, remain too early,
  since offsets are not reused; hence the clamped bound divides what is still
  readable (`ClampDivides`). `OffsetWindowsBounded` and `OffsetWindowsFilled`
  count the plan with injections into, and from, a share for each partition
  (`PlanAtMost`, `PlanAtLeast`); a share that turns negative in its cast is one
  that no log can fill, since offsets are i64 themselves (`ResolveAssumption`).
* `ParquetCacheProofs`. With `MaxRefreshing = 1`: the temporary file is not the
  entry, only the one who refreshes writes it, and it is complete when renamed.
  Readers keep an inode that is never written again, and a replacement is never
  older than what it replaces; hence `EntryWhole`, `Readable` and `FreshHits`.
  There, too, is the refinement (`StoreRefinement`): every step on files is a step
  of `SnapshotStore` or a stutter: creating and filling the temporary file are
  stutters, since it is neither the entry nor open for a reader; the rename is
  `Publish`, since the file then holds the snapshot that its writer took, which
  is the part of the invariant (`TmpInv`) that says more than that it is whole;
  opening is `Serve`, and reading afterwards a stutter, since an inode that has
  been an entry is never written again.
* `TableNamesProofs`. For every topic: the warning of a changed name is exact
  (`WarnedWhenChanged`), which needs to know the characters of a table's name
  (`TableNameCharacters`; it may still be a word that SQL reserves, and a command
  that names it without quotes fails), and topics that Kafka accepts never share a directory
  of the cache (`DirectoriesAreApart`), which `Session` relies on.
* `LaunchProofs`. `LaunchInv` is inductive: besides the types and the three
  properties of profiles (`OneProfile`, `NamedProfile`, `Expansion`) it
  says that a command has no profile before it has resolved one (`ProfileInv`),
  that what is looked up or read is a window that the flags can make
  (`WindowInv`), that brokers were checked before anyone connected to them
  (`BrokersInv`), and that every entry is filed under what it answers
  (`EntriesInv`). `HitAnswers` then needs a fact about keys (`TokensTell`):
  windows with one token differ at most by a fraction of a second of `--last`.
  `FlagsAreDecisive` needs no invariant: it follows the branches of
  `WindowParse::resolve` through every set of lower bounds, for all command lines
  but those that `SettingsBind` is about.
* `DecodeProofs`. What a recursion computes for every input needs induction over
  data, and the library's induction theorems take an operator, which the provers
  cannot instantiate. They are not needed: `Induction` says of a *set* that it
  has all numbers when it has 0 and the successor of each member, and follows
  from the least element of its complement (`WFMin` and `NatLessThanWellFounded`
  of the library, neither of which takes an operator). A property becomes the
  set of the numbers that have it. In this way `ConcatenatedUnfolds` shows that
  there is a function that satisfies the recursion, hence that its equations
  hold, and its neighbours that a prefix stays a prefix and that short sequences
  stay short together. From them come the two theorems about the decoder, for
  any number of payloads: those that are one object a line and agree decode with
  the schema of their first n, whenever these tell the type of every column that
  they name (`DecodablePayloadsDecode`), since what the sample shows is the
  beginning of what all of them show. That the sample tells is needed: of
  `{"k":null}` and `{"k":1}` the first alone makes a column that takes no number.
  Nor is a larger sample always better: a column that it does not name is no
  column at all, so that `{}` before those two decodes with a sample of one and
  not of two. And the rows are those of all objects
  when no record holds several (`EveryObjectHasItsRow`), since the limit of as
  many rows as payloads is then not reached.
* `SessionProofs`, for any topics, payloads, samples, batch sizes and cache, in
  two invariants. `SessionInv` is about names: two topics with one name never
  both become tables (`TablesAreApart`), since a topic is only taken up when no
  earlier one has its name; and `\d` shows the columns that were loaded, or none,
  and no others (`Descriptions`), since only the statements that `touched` keeps
  account of change tables behind its back.
  `DataInv` is about contents, and follows records from the topic to the output:
  every entry is made of the first records of the one topic whose directory it is
  in (`CacheInv`, by `DirectoriesAreApart`), so is what is on its way to the engine
  (`LoadInv`; an entry that is read back in batches has its rows again,
  `SplitRows`), and so is each table until SQL touches it (`EngineInv`); what is
  written is the batches shown so far (`OutputInv`), and what a query has written
  in the end is the table it named (`QueryInv`). No property is inductive alone:
  that a table is its topic's needs to know it of entries, of what was decoded
  and of the sample; that an answer is complete needs all of them.
  `SessionTyping`, `TablesRead`, `Answered`, `Decodable` and `Document` follow.

Model-checked only: `Terminates`, since liveness under fairness is out of the
prover's reach, and the six properties that are violated. All other properties
of the runs are proved.

## Not modelled

Keys and timestamps of records (in `Consume` payloads too), statistics, logging,
progress, colours and layout are left out: nothing decides on them. DataFusion,
arrow-json, the Parquet encoding, clap, librdkafka's fetching and the broker are
external and appear as what kqr sees of them.

* Hashes: `short_hash` keeps eight bytes of a SHA-256; `Launch` takes it to be
  injective.
* Parsing of durations and timestamps: flags are what they parse as, with the
  values that make arithmetic fail as kinds of their own.
* JSON that only parses together with the next record: `decode_batch` feeds
  records to one decoder, so that two fragments may make an object. `Decode`
  takes a fragment for malformed.
* SQL beyond selecting whole tables, explaining, creating and dropping. What
  `sample` and `schema` print. `\timing` of the REPL and its history file.
* `\reuse` of the REPL. Its help, the comment of `repl.rs` and DESIGN.md say that
  it decides on the use of the cache; nothing reads the flag, and there is no
  consume after the start that could. No state depends on it, so that there is
  nothing to check; `Caching` is the test that the code does make.
* Look-ups that fail for single partitions: `Resolve` has them, and plans stay
  within the log, but that their windows are complete is neither promised nor
  true. Nor is it of closed windows when timestamps are out of order.
* Topic names that Kafka does not accept: one of them may share a directory of
  the cache with one that it does.
* Memory: `query` holds every payload of its window, and nothing bounds them.
* Group offsets in `Session`: what a failing query of several topics has
  committed for the earlier ones is `Consume`, one topic at a time.
* `read_or_fetch` of `cache.rs`, which the program does not call.
* Crashes kill processes and not the machine: a rename that is not followed by
  an fsync is listed as a hazard. A clock that goes back is not modelled.

## Plan

1. Done: `Consume` with its trait, `Resolve`, `ParquetCache` with its store,
   `Launch` with `WindowFlags` and `Profiles`, `Session` with `Decode` and
   `TableNames`; the proofs above, of every safety property that holds, and of
   both refinements.
2. Next: an abstract specification of the session as a set of named tables,
   each a reading of its topic, that queries copy, drop and answer from, and
   `Session` shown to implement it from `SessionInv` and `DataInv`.
3. Where the code grows: a clock that goes back and a machine that fails in
   `ParquetCache`, and several readers of one group in `Consume`.

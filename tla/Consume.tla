------------------------------- MODULE Consume -------------------------------
(***************************************************************************)
(* One command of kqr reading one topic: the task that runs                *)
(* RdkafkaSource::consume, the bounded channel it fills, and the command   *)
(* (query, sample or schema) that drains the channel and then joins it.    *)
(* The topic moves meanwhile: producers append to it, retention and        *)
(* compaction take records away, and some offsets never hold a record an   *)
(* application sees (the markers of transactions).                         *)
(***************************************************************************)
EXTENDS Plans, Sequences, FiniteSets

CONSTANTS
    Partitions,  \* partitions of the topic
    MaxOffset,   \* bound: no partition grows beyond this offset
    Capacity,    \* of the mpsc channel: 1024 for query, 256 for the others
    Modes,       \* the commands considered, of "query", "sample", "schema"
    Limits,      \* values of --n and --schema-sample
    Gaps         \* whether offsets may hold no deliverable record

ASSUME ConsumeAssumption ==
    /\ IsFiniteSet(Partitions)
    /\ MaxOffset \in Nat
    /\ Capacity \in Nat \ {0}
    /\ Modes \subseteq {"query", "sample", "schema"}
    /\ Limits \subseteq Nat
    /\ Gaps \in BOOLEAN

VARIABLES
    (* the topic *)
    log,        \* log[p]: offsets of the deliverable records p holds
    high,       \* high[p]: next offset p will assign, its high watermark
    (* the command line *)
    mode,       \* which command runs
    cap,        \* its --n or --schema-sample; means nothing to a query
    group,      \* whether a --consumer-group-id was given
    (* the consume task *)
    pc,         \* "resolve", "poll", "send"; then "ok", "failed", "cancelled"
    plan,       \* plan[p]: interval of offsets to read from p
    pos,        \* pos[p]: where librdkafka fetches p next
    remaining,  \* remaining[p]: messages still expected of p
    left,       \* left_to_send
    inflight,   \* the record polled and not yet sent, if any
    (* the channel: everything ever sent, of which taken records are received *)
    sent,
    taken,
    (* the command *)
    cmd,        \* "receiving", "joining"; then "ok", "failed", "empty", "panicked"
    (* the consumer group, for the position of each partition: 0 is none *)
    stored,     \* offsets librdkafka has stored for the next commit
    committed   \* offsets the group has committed

topic == <<log, high>>
args  == <<mode, cap, group>>
task  == <<pc, plan, pos, remaining, left, inflight>>
chan  == <<sent, taken>>
offsets == <<stored, committed>>
vars == <<topic, args, task, chan, cmd, offsets>>

Record == [partition : Partitions, offset : Nat]

Running == pc \in {"resolve", "poll", "send"}

Finished == ~Running /\ cmd \in {"ok", "failed", "empty", "panicked"}

-----------------------------------------------------------------------------
(* Operators of the task. *)

(* total_remaining, the sum of what every partition is expected to yield,  *)
(* as the number of messages still to come.                                *)
ToCome(rem) == UNION {{p} \X (1 .. rem[p]) : p \in Partitions}

TotalRemaining(rem) == Cardinality(ToCome(rem))

(* A mutant: the limit forgotten. *)
QuotaUnlimited(total) == total

(* How many messages consume sets out to send: a query passes no limit. *)
Quota(total) == IF mode = "query" \/ total <= cap THEN total ELSE cap

(* A mutant: only the partitions end the loop. *)
ContinuesUnlimited == \E p \in Partitions : remaining[p] > 0

(* The condition of the receive loop. *)
Continues == left > 0 /\ \E p \in Partitions : remaining[p] > 0

(* A mutant: the record at the end offset taken for one of the window. *)
PastEndInclusive(p, o) == o > plan[p].end

(* Whether a polled record lies behind the interval of its partition. *)
PastEnd(p, o) == o >= plan[p].end

(* The record of p a fetch at pos[p] yields: the first one not before it.  *)
(* A position that retention has overtaken is reset to the earliest record.*)
Delivers(p, o) ==
    /\ o \in log[p]
    /\ o >= pos[p]
    /\ \A q \in log[p] : q < o => q < pos[p]

(* A mutant: the same record is delivered again. *)
PollsAgain(p, o) ==
    /\ pc = "poll"
    /\ Continues
    /\ p \in AssignedIn(plan)
    /\ Delivers(p, o)
    /\ pos' = [pos EXCEPT ![p] = o]
    /\ stored' = IF group THEN [stored EXCEPT ![p] = o + 1] ELSE stored

(* stream.next() hands over record o of p.  Unless kqr made up the group   *)
(* id, librdkafka stores the offset in the same step.                      *)
Polls(p, o) ==
    /\ pc = "poll"
    /\ Continues
    /\ p \in AssignedIn(plan)
    /\ Delivers(p, o)
    /\ pos' = [pos EXCEPT ![p] = o + 1]
    /\ stored' = IF group THEN [stored EXCEPT ![p] = o + 1] ELSE stored

(* A mutant: the ends of the plan committed, whatever was read. *)
ReturnOkCommittingPlan ==
    /\ pc' = "ok"
    /\ committed' \in {committed, IF group THEN [p \in Partitions |-> plan[p].end] ELSE stored}

(* The task returns.  It commits first when the group is the user's own,   *)
(* without waiting for the answer and with a warning at most if it fails.  *)
ReturnOk ==
    /\ pc' = "ok"
    /\ committed' \in {committed, stored}

(* What the sender of a bounded channel waits for. *)
HasRoom == Len(sent) - taken < Capacity

-----------------------------------------------------------------------------
Init ==
    /\ high \in [Partitions -> 0 .. MaxOffset]
    /\ log = [p \in Partitions |-> 0 .. (high[p] - 1)]
    /\ mode \in Modes
    /\ cap \in IF mode = "query" THEN {0}
               ELSE {n \in Limits : mode = "sample" \/ n > 0}
    /\ group \in BOOLEAN
    /\ pc = "resolve"
    /\ plan = [p \in Partitions |-> Unassigned]
    /\ pos = [p \in Partitions |-> 0]
    /\ remaining = [p \in Partitions |-> 0]
    /\ left = 0
    /\ inflight = {}
    /\ sent = <<>>
    /\ taken = 0
    /\ cmd = "receiving"
    /\ stored = [p \in Partitions |-> 0]
    /\ committed = [p \in Partitions |-> 0]

(* A producer appends a record. *)
Append1(p) ==
    /\ high[p] < MaxOffset
    /\ high' = [high EXCEPT ![p] = @ + 1]
    /\ log' = [log EXCEPT ![p] = @ \cup {high[p]}]
    /\ UNCHANGED <<args, task, chan, cmd, offsets>>

(* Retention or compaction removes a record, or an offset turns out to     *)
(* hold no record for the application.                                     *)
Remove(p, o) ==
    /\ Gaps
    /\ log' = [log EXCEPT ![p] = @ \ {o}]
    /\ UNCHANGED <<high, args, task, chan, cmd, offsets>>

(* resolve_assignments has answered, and the consumer is assigned. *)
ResolvePlan ==
    /\ pc = "resolve"
    /\ pc' = "poll"
    /\ plan' \in PlansBelow(high)
    /\ AssignedIn(plan') # {}
    /\ pos' = [p \in Partitions |-> plan'[p].start]
    /\ remaining' = [p \in Partitions |-> PlannedCount(plan'[p])]
    /\ left' = Quota(TotalRemaining(remaining'))
    /\ UNCHANGED <<topic, args, inflight, chan, cmd, offsets>>

(* A request to the broker fails, the topic is missing, or every interval  *)
(* is empty (KafkaEmptyWindow).                                            *)
ResolveFails ==
    /\ pc = "resolve"
    /\ pc' = "failed"
    /\ UNCHANGED <<topic, args, plan, pos, remaining, left, inflight, chan, cmd, offsets>>

(* A mutant: a partition done one record early. *)
SkipOneEarly(p, o) ==
    /\ Polls(p, o)
    /\ remaining[p] <= 1
    /\ UNCHANGED <<topic, args, pc, plan, remaining, left, inflight, chan, cmd, committed>>

(* A record of a partition that is already done: dropped. *)
Skip(p, o) ==
    /\ Polls(p, o)
    /\ remaining[p] <= 0
    /\ UNCHANGED <<topic, args, pc, plan, remaining, left, inflight, chan, cmd, committed>>

(* The first record seen behind the interval ends its partition. *)
ReachEnd(p, o) ==
    /\ Polls(p, o)
    /\ remaining[p] > 0
    /\ PastEnd(p, o)
    /\ remaining' = [remaining EXCEPT ![p] = 0]
    /\ UNCHANGED <<topic, args, pc, plan, left, inflight, chan, cmd, committed>>

(* A record of the window: the task goes on to send it. *)
Take(p, o) ==
    /\ Polls(p, o)
    /\ remaining[p] > 0
    /\ ~PastEnd(p, o)
    /\ inflight' = {[partition |-> p, offset |-> o]}
    /\ pc' = "send"
    /\ UNCHANGED <<topic, args, plan, remaining, left, chan, cmd, committed>>

(* The channel has room for the record, and somebody receives from it. *)
Send ==
    /\ pc = "send"
    /\ cmd = "receiving"
    /\ HasRoom
    /\ \E r \in inflight :
        /\ sent' = Append(sent, r)
        /\ remaining' = [remaining EXCEPT ![r.partition] = @ - 1]
    /\ left' = left - 1
    /\ inflight' = {}
    /\ pc' = "poll"
    /\ UNCHANGED <<topic, args, plan, pos, taken, cmd, offsets>>

(* A mutant: the failure of the send is ignored, and the task reads on.    *)
SinkIgnored ==
    /\ pc = "send"
    /\ cmd # "receiving"
    /\ inflight' = {}
    /\ pc' = "poll"
    /\ UNCHANGED <<topic, args, plan, pos, remaining, left, chan, cmd, offsets>>

(* The receiver is gone: the record is dropped and the loop left. *)
SinkClosed ==
    /\ pc = "send"
    /\ cmd # "receiving"
    /\ inflight' = {}
    /\ ReturnOk
    /\ UNCHANGED <<topic, args, plan, pos, remaining, left, chan, cmd, stored>>

(* Two mutants: a limit that stops the loop but not the call, and a call   *)
(* that ends with the first partition that is done.                        *)
FinishWithoutLimit ==
    /\ pc = "poll"
    /\ \A p \in Partitions : remaining[p] = 0
    /\ ReturnOk
    /\ UNCHANGED <<topic, args, plan, pos, remaining, left, inflight, chan, cmd, stored>>

FinishWithFirst ==
    /\ pc = "poll"
    /\ left = 0 \/ \E p \in AssignedIn(plan) : remaining[p] = 0
    /\ ReturnOk
    /\ UNCHANGED <<topic, args, plan, pos, remaining, left, inflight, chan, cmd, stored>>

(* The loop is done: the limit is reached or every partition is.           *)

Finish ==
    /\ pc = "poll"
    /\ ~Continues
    /\ ReturnOk
    /\ UNCHANGED <<topic, args, plan, pos, remaining, left, inflight, chan, cmd, stored>>

(* The stream yields an error other than PartitionEOF: the task does not   *)
(* get as far as its own commit.                                           *)
PollFails ==
    /\ pc = "poll"
    /\ Continues
    /\ pc' = "failed"
    /\ UNCHANGED <<topic, args, plan, pos, remaining, left, inflight, chan, cmd, offsets>>

(* With enable.auto.commit librdkafka's timer commits what is stored, and  *)
(* so does closing the consumer when the task ends, whatever its result.   *)
AutoCommit ==
    /\ group
    /\ committed # stored
    /\ committed' = stored
    /\ UNCHANGED <<topic, args, task, chan, cmd, stored>>

-----------------------------------------------------------------------------
(* The command. *)

(* A mutant: schema stops listening one record early. *)
ReceiveOneShort ==
    /\ cmd = "receiving"
    /\ taken < Len(sent)
    /\ taken' = taken + 1
    /\ cmd' = IF mode = "schema" /\ taken' >= cap - 1 THEN "joining" ELSE cmd
    /\ UNCHANGED <<topic, args, task, sent, offsets>>

(* rx.recv() yields a record.  schema stops listening when it has enough. *)
Receive ==
    /\ cmd = "receiving"
    /\ taken < Len(sent)
    /\ taken' = taken + 1
    /\ cmd' = IF mode = "schema" /\ taken' >= cap THEN "joining" ELSE cmd
    /\ UNCHANGED <<topic, args, task, sent, offsets>>

(* The channel is empty and its sender dropped: rx.recv() yields None. *)
Drained ==
    /\ cmd = "receiving"
    /\ taken = Len(sent)
    /\ ~Running
    /\ cmd' = "joining"
    /\ UNCHANGED <<topic, args, task, chan, offsets>>

(* sample prints each record as it arrives; println! panics when stdout is *)
(* closed, which drops the receiver and ends the program.                  *)
OutputFails ==
    /\ mode = "sample"
    /\ cmd = "receiving"
    /\ taken < Len(sent)
    /\ taken' = taken + 1
    /\ cmd' = "panicked"
    /\ UNCHANGED <<topic, args, task, sent, offsets>>

(* The runtime drops the task of a program that ends. *)
Cancelled ==
    /\ cmd = "panicked"
    /\ Running
    /\ pc' = "cancelled"
    /\ UNCHANGED <<topic, args, plan, pos, remaining, left, inflight, chan, cmd, offsets>>

(* A mutant: every command ignores the task's failure. *)
JoinIgnoringFailure ==
    /\ cmd = "joining"
    /\ ~Running
    /\ cmd' = IF taken = 0 /\ mode # "sample" THEN "empty" ELSE "ok"
    /\ UNCHANGED <<topic, args, task, chan, offsets>>

(* The command awaits the task and looks at its result: query and sample   *)
(* pass a failure on, schema ignores it; query and schema refuse to go on  *)
(* without a message.                                                      *)
Join ==
    /\ cmd = "joining"
    /\ ~Running
    /\ cmd' = IF pc = "failed" /\ mode # "schema" THEN "failed"
              ELSE IF taken = 0 /\ mode # "sample" THEN "empty"
              ELSE "ok"
    /\ UNCHANGED <<topic, args, task, chan, offsets>>

Terminating == Finished /\ UNCHANGED vars

-----------------------------------------------------------------------------
Topic == \E p \in Partitions :
    \/ Append1(p)
    \/ \E o \in log[p] : Remove(p, o)

Deliver(p) == \E o \in log[p] : Skip(p, o) \/ ReachEnd(p, o) \/ Take(p, o)

Task ==
    \/ ResolvePlan \/ ResolveFails
    \/ \E p \in Partitions : Deliver(p)
    \/ Send \/ SinkClosed \/ Finish \/ PollFails \/ AutoCommit

Command == Receive \/ Drained \/ OutputFails \/ Cancelled \/ Join

Next == Topic \/ Task \/ Command \/ Terminating

(* The task and the command are scheduled, the requests of the resolution  *)
(* time out, and the broker serves every partition that has something to   *)
(* fetch.  Nothing promises that producers append, that a stream fails or  *)
(* that a timer fires.                                                     *)
Fairness ==
    /\ WF_vars(ResolvePlan \/ ResolveFails)
    /\ \A p \in Partitions : WF_vars(Deliver(p))
    /\ WF_vars(Send \/ SinkClosed \/ Finish)
    /\ WF_vars(Receive \/ Drained \/ Cancelled \/ Join)

Spec == Init /\ [][Next]_vars

FairSpec == Spec /\ Fairness

-----------------------------------------------------------------------------
(* Properties. *)

(* The type of every variable. *)
TypeOK ==
    /\ log \in [Partitions -> SUBSET Nat]
    /\ high \in [Partitions -> Nat]
    /\ mode \in {"query", "sample", "schema"}
    /\ cap \in Nat
    /\ group \in BOOLEAN
    /\ pc \in {"resolve", "poll", "send", "ok", "failed", "cancelled"}
    /\ plan \in [Partitions -> [start : Nat, end : Nat]]
    /\ pos \in [Partitions -> Nat]
    /\ remaining \in [Partitions -> Nat]
    /\ left \in Nat
    /\ inflight \subseteq Record
    /\ sent \in Seq(Record)
    /\ taken \in 0 .. Len(sent)
    /\ cmd \in {"receiving", "joining", "ok", "failed", "empty", "panicked"}
    /\ stored \in [Partitions -> Nat]
    /\ committed \in [Partitions -> Nat]

(* Every record handed over lies in the window that was resolved when the  *)
(* command started, however far the topic has grown since.                 *)
SentInWindow ==
    \A i \in DOMAIN sent : sent[i].offset \in Span(plan[sent[i].partition])

(* The records of one partition arrive in offset order and none twice.     *)
SentInOrder ==
    \A i, j \in DOMAIN sent :
        i < j /\ sent[i].partition = sent[j].partition
            => sent[i].offset < sent[j].offset

(* --n of sample and --schema-sample of schema are hard caps.              *)
LimitRespected == mode # "query" => Len(sent) + Cardinality(inflight) <= cap

HandedOver == {sent[i] : i \in DOMAIN sent} \cup inflight

(* A record of the window that still exists is only passed over, by the    *)
(* fetch position or by a partition declared done, once it is handed over. *)
NothingSkipped ==
    \A p \in Partitions : \A o \in log[p] \cap Span(plan[p]) :
        (remaining[p] = 0 \/ o < pos[p]) /\ pc \in {"poll", "send", "ok"} /\ cmd # "panicked"
            => [partition |-> p, offset |-> o] \in HandedOver

(* A query that succeeds has received the whole window; a sample that      *)
(* succeeds has received as many messages as asked for or all there are.   *)
SuccessIsComplete ==
    cmd = "ok" /\ mode # "schema" =>
        \/ mode = "sample" /\ taken = cap
        \/ \A p \in Partitions : \A o \in log[p] \cap Span(plan[p]) :
              \E i \in 1 .. taken : sent[i] = [partition |-> p, offset |-> o]

(* query and schema never hang up on the task: no record they could have   *)
(* used is lost in a send that fails.                                      *)
NobodyHangsUp == pc = "send" => cmd \in {"receiving", "panicked"}

(* A group never resumes behind a record that this command was to read     *)
(* and has not been given: what is committed was at least polled to be     *)
(* sent, unless it fell out of the window or the receiver was gone.        *)
CommittedWasHandedOver ==
    \A p \in Partitions : \A o \in log[p] \cap Span(plan[p]) :
        o < committed[p] /\ cmd # "panicked"
            => [partition |-> p, offset |-> o] \in HandedOver

(* How many records have come to use: the one on which println! panicked   *)
(* was received and not shown.                                             *)
Arrived == IF cmd = "panicked" THEN taken - 1 ELSE taken

(* The records of the window that still exist, those of them the fetch     *)
(* position has passed, and those the group has committed although they    *)
(* never came to use.                                                      *)
WindowRecords ==
    UNION {{[partition |-> p, offset |-> o] : o \in log[p] \cap Span(plan[p])} :
              p \in Partitions}

Passed == {r \in WindowRecords : r.offset < pos[r.partition]}

Lost == {r \in WindowRecords : /\ r.offset < committed[r.partition]
                               /\ \A i \in 1 .. Arrived : sent[i] # r}

(* Offsets are stored as records are polled, and a timer commits them, so  *)
(* that a program that dies loses records for its group: never more than   *)
(* the channel holds and the one being sent.  (What a query has received   *)
(* it prints only at its end; a failure before that is not counted here.)  *)
LossIsBounded == Cardinality(Lost) <= Capacity + 1

(* Without gaps, the task never waits for a record that is not there.      *)
NeverStarves ==
    ~Gaps /\ pc = "poll" /\ Continues =>
        \E p \in AssignedIn(plan) : remaining[p] > 0 /\
            \E o \in log[p] : Delivers(p, o) /\ ~PastEnd(p, o)

(* "Messages with offset >= end_offset are not consumed": a group that the *)
(* command commits for should not move beyond the window.                  *)
CommittedWithinWindow ==
    \A p \in AssignedIn(plan) : committed[p] <= plan[p].end

(* Every command ends: it prints its result or an error.                   *)
Terminates == <>Finished

(* "Returns when every assigned partition has reached its resolved end     *)
(* offset": once nothing of the window is left to fetch, consume returns.  *)
NothingLeft ==
    \A p \in AssignedIn(plan) : \A o \in log[p] \cap Span(plan[p]) : o < pos[p]

ReturnsAtEnd == (pc = "poll" /\ NothingLeft) ~> ~Running

-----------------------------------------------------------------------------
(* The trait's promise, with the state of this module for its variables.   *)
Source == INSTANCE KafkaSource WITH
    listening <- cmd = "receiving",
    limit <- IF mode = "query" THEN -1 ELSE cap,
    window <- [p \in Partitions |-> Span(plan[p])],
    status <- CASE pc = "resolve" -> "resolving"
                [] pc \in {"poll", "send"} -> "reading"
                [] pc = "ok" -> "ok"
                [] OTHER -> "failed"

(* The task implements the trait.                                          *)
ImplementsSource == Source!Spec
=============================================================================

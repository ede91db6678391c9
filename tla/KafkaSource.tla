----------------------------- MODULE KafkaSource -----------------------------
(***************************************************************************)
(* What the KafkaSource trait promises of one call of consume, and nothing *)
(* of how it is done: records of a window, resolved once, are handed to    *)
(* the sink, each partition's in offset order and each at most once, and   *)
(* the call only succeeds when there is nothing left to hand over, when    *)
(* the limit is reached, or when nobody listens to the sink any more.      *)
(***************************************************************************)
EXTENDS Integers, Sequences

CONSTANT Partitions

VARIABLES
    log,        \* log[p]: offsets of the records partition p holds now
    listening,  \* whether the receiver of the sink is alive
    limit,      \* cap on the messages, NoLimit when there is none
    window,     \* window[p]: offsets of p in the resolved window; <<>> before
    sent,       \* records handed to the sink, in order
    status      \* "resolving", "reading", "ok", "failed"

vars == <<log, listening, limit, window, sent, status>>

NoLimit == -1

Sent(p, o) == \E i \in DOMAIN sent : sent[i] = [partition |-> p, offset |-> o]

SentOffsets(p) == {sent[i].offset : i \in {j \in DOMAIN sent : sent[j].partition = p}}

Exhausted == \A p \in Partitions : \A o \in window[p] \cap log[p] : Sent(p, o)

Init ==
    /\ status = "resolving"
    /\ sent = <<>>
    /\ window = [p \in Partitions |-> {}]

(* At any time records are appended or disappear, and the receiver may leave. *)
Environment ==
    /\ \A p \in Partitions :
         \A o \in log'[p] \ log[p] : \A q \in log[p] \cup SentOffsets(p) : q < o
    /\ listening' \in {listening, FALSE}
    /\ limit' = limit

Idle == Environment /\ UNCHANGED <<window, sent, status>>

Resolve ==
    /\ status = "resolving"
    /\ status' = "reading"
    /\ Environment
    /\ sent' = sent
    /\ window' \in [Partitions -> SUBSET Nat]

Emit ==
    /\ status = "reading"
    /\ listening
    /\ limit = NoLimit \/ Len(sent) < limit
    /\ \E p \in Partitions :
         \E o \in window[p] :
            /\ \A q \in SentOffsets(p) : q < o
            /\ sent' = Append(sent, [partition |-> p, offset |-> o])
    /\ Environment
    /\ UNCHANGED <<window, status>>

Succeed ==
    /\ status = "reading"
    /\ Exhausted \/ Len(sent) = limit \/ ~listening
    /\ status' = "ok"
    /\ Environment
    /\ UNCHANGED <<window, sent>>

Fail ==
    /\ status \in {"resolving", "reading"}
    /\ status' = "failed"
    /\ Environment
    /\ UNCHANGED <<window, sent>>

Next == Idle \/ Resolve \/ Emit \/ Succeed \/ Fail

Spec == Init /\ [][Next]_vars
=============================================================================

----------------------------- MODULE ConsumeInv ------------------------------
(***************************************************************************)
(* Why the safety properties of Consume hold: an inductive invariant, in   *)
(* named parts.  TLC checks it, ConsumeProofs proves it.                   *)
(***************************************************************************)
EXTENDS Consume

One(p) == IF \E r \in inflight : r.partition = p THEN 1 ELSE 0

(* Plans stay below the watermarks, which bound the offsets that exist.    *)
TopicInv ==
    \A p \in Partitions :
        /\ plan[p] = Unassigned \/ plan[p].start < plan[p].end
        /\ plan[p].end <= high[p]
        /\ log[p] \subseteq 0 .. (high[p] - 1)
        /\ ~Gaps => log[p] = 0 .. (high[p] - 1)

(* Nothing has happened before the plan is there.                          *)
StartInv ==
    pc = "resolve" =>
        /\ sent = <<>>
        /\ cmd = "receiving"
        /\ \A p \in Partitions : plan[p] = Unassigned /\ stored[p] = 0

(* A record is in flight exactly while it is being sent.                   *)
InflightInv ==
    /\ pc = "send" => inflight # {}
    /\ inflight # {} =>
        /\ pc \in {"send", "cancelled"}
        /\ \E r \in inflight : inflight = {r} /\ remaining[r.partition] > 0 /\ left > 0

(* What was handed over lies in the window and behind the fetch position.  *)
HandedInv ==
    /\ \A i \in DOMAIN sent :
        /\ sent[i].offset \in Span(plan[sent[i].partition])
        /\ sent[i].offset < pos[sent[i].partition]
        /\ \A r \in inflight :
            r.partition = sent[i].partition => sent[i].offset < r.offset
    /\ \A r \in inflight :
        r.offset \in Span(plan[r.partition]) /\ r.offset < pos[r.partition]

(* remaining counts messages, not offsets: it never promises less than the *)
(* offsets still ahead, and exactly those when the log has no gaps.        *)
ProgressInv ==
    \A p \in Partitions :
        /\ plan[p].start <= pos[p]
        /\ pos[p] + remaining[p] >= plan[p].end + One(p)
        /\ ~Gaps /\ pc \in {"poll", "send"} /\ remaining[p] > 0 =>
              pos[p] + remaining[p] = plan[p].end + One(p)

(* What the fetch position has passed was handed over, except for one      *)
(* record if the command gave up while it was being sent.                  *)
PassedInv ==
    \/ Passed \subseteq HandedOver
    \/ /\ cmd = "panicked" /\ pc = "ok"
       /\ \E r \in Passed : Passed \subseteq HandedOver \cup {r}

(* The channel keeps to its capacity, also when the record that a sample   *)
(* could not print is counted.                                             *)
ChannelInv == Len(sent) - Arrived <= Capacity

(* left_to_send is what a limit leaves, or covers all that is to come.     *)
QuotaInv ==
    /\ mode # "query" => left + Len(sent) <= cap
    /\ \/ mode # "query" /\ left + Len(sent) = cap
       \/ left >= TotalRemaining(remaining)

(* How far the command is compared with the task.                          *)
CommandInv ==
    /\ cmd = "joining" /\ Running => mode = "schema" /\ taken >= cap
    /\ cmd \in {"joining", "ok", "failed", "empty"} /\ mode # "schema" => taken = Len(sent)
    /\ cmd \in {"ok", "failed", "empty"} => ~Running
    /\ cmd = "ok" /\ mode # "schema" => pc = "ok"
    /\ pc = "cancelled" => cmd = "panicked"
    /\ pc = "ok" /\ cmd # "panicked" => ~Continues

(* The group never commits ahead of the fetch position.                    *)
GroupInv == \A p \in Partitions : committed[p] <= stored[p] /\ stored[p] <= pos[p]

IndInv ==
    /\ TypeOK
    /\ TopicInv
    /\ StartInv
    /\ InflightInv
    /\ HandedInv
    /\ SentInOrder
    /\ ProgressInv
    /\ PassedInv
    /\ QuotaInv
    /\ CommandInv
    /\ GroupInv
    /\ ChannelInv
=============================================================================

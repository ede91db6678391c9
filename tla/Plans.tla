-------------------------------- MODULE Plans --------------------------------
(***************************************************************************)
(* The plan of one call of consume: for each partition the interval of     *)
(* offsets [start, end) it will read (struct Assignment of consumer.rs).   *)
(***************************************************************************)
EXTENDS Integers

(* A partition the plan does not read. *)
Unassigned == [start |-> 0, end |-> 0]

(* resolve_assignments drops the empty intervals in its last step. *)
KeepNonEmpty(i) == IF i.end > i.start THEN i ELSE Unassigned

(* The offsets an interval stands for: its end is exclusive. *)
Span(i) == i.start .. (i.end - 1)

(* A mutant: the end taken for inclusive. *)
PlannedCountInclusive(i) == i.end - i.start + 1

(* How many offsets of an interval consume has to see. *)
PlannedCount(i) == i.end - i.start

(* The partitions a plan reads. *)
AssignedIn(plan) == {p \in DOMAIN plan : plan[p].end > plan[p].start}

(* What a plan may ask of a partition whose high watermark is h. *)
IntervalsBelow(h) ==
    {Unassigned} \cup {i \in [start : 0..h, end : 0..h] : i.end > i.start}

PlansBelow(high) ==
    {plan \in [DOMAIN high -> UNION {IntervalsBelow(high[p]) : p \in DOMAIN high}] :
        \A p \in DOMAIN high : plan[p] \in IntervalsBelow(high[p])}
=============================================================================

------------------------------- MODULE Resolve -------------------------------
(***************************************************************************)
(* resolve_assignments: a time or offset window becomes a plan.  The       *)
(* answers it is computed from are given one after the other, each by the  *)
(* leader of a partition and each about the topic of that moment, while    *)
(* producers append and retention removes.  This is the step ResolvePlan   *)
(* of Consume, taken apart.                                                *)
(***************************************************************************)
EXTENDS Assignments, Sequences, FiniteSets

CONSTANTS
    Partitions,    \* partitions of the topic
    MaxOffset,     \* bound: no partition grows beyond this offset
    Times,         \* timestamps of records, and bounds of time windows
    Limits         \* values of --limit

ASSUME ResolveAssumption ==
    /\ IsFiniteSet(Partitions) /\ Partitions # {}
    /\ MaxOffset \in 0 .. HalfRange - 1   \* an offset is an i64
    /\ Times \subseteq Nat
    /\ Limits \subseteq Nat

VARIABLES
    stamps,  \* stamps[p][o+1]: timestamp of the record at offset o of p
    low,     \* low[p]: the first offset that retention has left
    window,  \* what the command line asked for
    step,    \* "watermarks", "from", "to", "build"; then "done", "failed"
    marks,   \* marks[p]: the watermarks fetched for p
    from,    \* from[p]: what the look-up of the window's begin answered
    to,      \* to[p]: likewise for its end
    plan     \* the intervals to read

topic == <<stamps, low>>
vars == <<topic, window, step, marks, from, to, plan>>

High(p) == Len(stamps[p])

(* TimeWindow: Last(d) has no end and begins at a time computed from the   *)
(* clock, so that to this module it is an open range.                      *)
OpenRanges   == [kind : {"time"}, open : {TRUE}, from : Times]
ClosedRanges == {w \in [kind : {"time"}, open : {FALSE}, from : Times, to : Times] :
                    w.from < w.to}
OffsetWindows == [kind : {"offset"}, origin : {"earliest", "latest"}, limit : Limits]

(* What the broker answers for p and time t: the first record at or after  *)
(* it, or that there is none.  The look-up of one partition may also fail. *)
AtOrAfter(p, t) == {o \in low[p] .. (High(p) - 1) : stamps[p][o + 1] >= t}

Answers(p, t) ==
    {o \in AtOrAfter(p, t) : \A q \in AtOrAfter(p, t) : o <= q}
        \cup (IF AtOrAfter(p, t) = {} THEN {NoOffset} ELSE {})
        \cup {LookupFailed}

Init ==
    /\ stamps = [p \in Partitions |-> <<>>]
    /\ low = [p \in Partitions |-> 0]
    /\ window \in OpenRanges \cup ClosedRanges \cup OffsetWindows
    /\ step = "watermarks"
    /\ marks = [p \in {} |-> [low |-> 0, high |-> 0]]
    /\ from = [p \in {} |-> 0]
    /\ to = [p \in {} |-> 0]
    /\ plan = [p \in Partitions |-> Unassigned]

Produce(p, t) ==
    /\ High(p) < MaxOffset
    /\ stamps' = [stamps EXCEPT ![p] = Append(@, t)]
    /\ UNCHANGED <<low, window, step, marks, from, to, plan>>

Retain(p) ==
    /\ low[p] < High(p)
    /\ low' = [low EXCEPT ![p] = @ + 1]
    /\ UNCHANGED <<stamps, window, step, marks, from, to, plan>>

(* A mutant: the last offset instead of the next one. *)
FetchWatermarksLast(p) ==
    /\ step = "watermarks"
    /\ p \notin DOMAIN marks
    /\ marks' = [q \in DOMAIN marks \cup {p} |->
                    IF q = p THEN [low |-> low[p], high |-> High(p) - 1] ELSE marks[q]]
    /\ step' = IF DOMAIN marks' # Partitions THEN step
               ELSE IF window.kind = "time" THEN "from" ELSE "build"
    /\ UNCHANGED <<topic, window, from, to, plan>>

(* fetch_watermarks for one partition after the other.                     *)
FetchWatermarks(p) ==
    /\ step = "watermarks"
    /\ p \notin DOMAIN marks
    /\ marks' = [q \in DOMAIN marks \cup {p} |->
                    IF q = p THEN [low |-> low[p], high |-> High(p)] ELSE marks[q]]
    /\ step' = IF DOMAIN marks' # Partitions THEN step
               ELSE IF window.kind = "time" THEN "from" ELSE "build"
    /\ UNCHANGED <<topic, window, from, to, plan>>

(* offsets_for_times asks every leader; the partitions answer in any order.*)
LookupFrom(p) ==
    /\ step = "from"
    /\ p \notin DOMAIN from
    /\ \E a \in Answers(p, window.from) :
         from' = [q \in DOMAIN from \cup {p} |-> IF q = p THEN a ELSE from[q]]
    /\ step' = IF DOMAIN from' # Partitions THEN step
               ELSE IF window.open THEN "build" ELSE "to"
    /\ UNCHANGED <<topic, window, marks, to, plan>>

LookupTo(p) ==
    /\ step = "to"
    /\ p \notin DOMAIN to
    /\ \E a \in Answers(p, window.to) :
         to' = [q \in DOMAIN to \cup {p} |-> IF q = p THEN a ELSE to[q]]
    /\ step' = IF DOMAIN to' # Partitions THEN step ELSE "build"
    /\ UNCHANGED <<topic, window, marks, from, plan>>

(* resolve_time_based and resolve_offset_based, for one partition.         *)
Resolved(p) ==
    IF window.kind = "time"
    THEN TimeInterval(from[p], IF window.open THEN NoOffset ELSE to[p], window.open,
                      marks[p].low, marks[p].high)
    ELSE OffsetInterval(window.origin, PerPart(window.limit, Cardinality(Partitions)),
                        marks[p].low, marks[p].high)

(* Both, and the filter at the end of resolve_assignments.                 *)
Build ==
    /\ step = "build"
    /\ plan' = [p \in Partitions |-> KeepNonEmpty(Resolved(p))]
    /\ step' = "done"
    /\ UNCHANGED <<topic, window, marks, from, to>>

(* Any request may fail as a whole, and the topic may be missing.          *)
Fail ==
    /\ step \in {"watermarks", "from", "to"}
    /\ step' = "failed"
    /\ UNCHANGED <<topic, window, marks, from, to, plan>>

Terminating == step \in {"done", "failed"} /\ UNCHANGED vars

Next ==
    \/ \E p \in Partitions :
         \/ \E t \in Times : Produce(p, t)
         \/ Retain(p)
         \/ FetchWatermarks(p) \/ LookupFrom(p) \/ LookupTo(p)
    \/ Build \/ Fail
    \/ Terminating

Spec == Init /\ [][Next]_vars

-----------------------------------------------------------------------------
(* Properties. *)

(* The type of every variable.                                             *)
TypeOK ==
    /\ stamps \in [Partitions -> Seq(Nat)]
    /\ low \in [Partitions -> Nat]
    /\ window \in OpenRanges \cup ClosedRanges \cup OffsetWindows
    /\ step \in {"watermarks", "from", "to", "build", "done", "failed"}
    /\ DOMAIN marks \subseteq Partitions
    /\ \A p \in DOMAIN marks : marks[p] \in [low : Nat, high : Nat]
    /\ DOMAIN from \subseteq Partitions
    /\ \A p \in DOMAIN from : from[p] \in Int
    /\ DOMAIN to \subseteq Partitions
    /\ \A p \in DOMAIN to : to[p] \in Int
    /\ plan \in [Partitions -> [start : Int, end : Int]]

(* Consume may rely on the plan: every interval lies below the watermark   *)
(* its partition has by now, whatever the brokers answered, however the    *)
(* topic moved between the answers and even when a limit overflows.        *)
PlanFitsConsume ==
    step = "done" =>
        \A p \in Partitions : plan[p] \in IntervalsBelow(High(p))

(* The offsets of p that were there when its watermarks were fetched and   *)
(* that retention has not yet taken.                                       *)
Readable(p) == (marks[p].low .. (marks[p].high - 1)) \cap {o \in Nat : o >= low[p]}

InWindow(p, o) ==
    /\ stamps[p][o + 1] >= window.from
    /\ window.open \/ stamps[p][o + 1] < window.to

Answered(p) ==
    from[p] # LookupFailed /\ (window.open \/ to[p] # LookupFailed)

InOrder(p) ==
    \A i, j \in DOMAIN stamps[p] : i < j => stamps[p][i] <= stamps[p][j]

(* With timestamps in order, the plan of a time window is exactly the      *)
(* records of the window, although its bounds were looked up at different  *)
(* moments and after the watermarks, and whatever other partitions do.     *)
TimePlanExact ==
    step = "done" /\ window.kind = "time" =>
        \A p \in Partitions : InOrder(p) /\ Answered(p) =>
            \A o \in Readable(p) : InWindow(p, o) <=> o \in Span(plan[p])

(* With timestamps in any order, an open window still misses nothing.      *)
OpenPlanMissesNothing ==
    step = "done" /\ window.kind = "time" /\ window.open =>
        \A p \in Partitions : Answered(p) =>
            \A o \in Readable(p) : InWindow(p, o) => o \in Span(plan[p])

PlannedTotal == Cardinality(UNION {{p} \X Span(plan[p]) : p \in Partitions})

(* An offset window plans at most its limit, or one record per partition.  *)
OffsetPlanBounded ==
    step = "done" /\ window.kind = "offset" =>
        PlannedTotal <= Larger(window.limit, Cardinality(Partitions))

(* Where every partition holds its share of the limit, an offset window    *)
(* plans the whole limit except for what integer division loses, which is  *)
(* less than one record per partition.                                     *)
OffsetPlanFilled ==
    step = "done" /\ window.kind = "offset"
    /\ window.limit + MaxOffset < HalfRange
    /\ (\A p \in Partitions :
            marks[p].high - marks[p].low >= window.limit \div Cardinality(Partitions))
        => PlannedTotal > window.limit - Cardinality(Partitions)

(* "Read from earliest or latest, capped at limit messages total."         *)
OffsetPlanCapped ==
    step = "done" /\ window.kind = "offset" => PlannedTotal <= window.limit
=============================================================================

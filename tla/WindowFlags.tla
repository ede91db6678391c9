---------------------------- MODULE WindowFlags ----------------------------
(***************************************************************************)
(* The flags of a time window, what they resolve to, and the part of the   *)
(* cache key that a window contributes (window.rs).  Instants and          *)
(* durations are integers in milliseconds, the precision with which Kafka  *)
(* keeps time and in which a window is resolved to offsets.                *)
(***************************************************************************)
EXTENDS Integers, FiniteSets

CONSTANTS
    DefaultLast,   \* TimeWindow::DEFAULT_LAST
    PerSecond,     \* milliseconds in a second
    Reach,         \* how far before instant 0 chrono::DateTime begins
    MaxDelta       \* the longest chrono::Duration

ASSUME WindowAssumption ==
    /\ DefaultLast \in Nat
    /\ PerSecond \in Nat \ {0}
    /\ Reach \in Nat
    /\ MaxDelta \in Nat

(* The value of a flag as the user wrote it, by what it parses as. *)
Absent == [kind |-> "absent", value |-> 0]
Duration(d) == [kind |-> "duration", value |-> d]
Instant(t) == [kind |-> "instant", value |-> t]
Earliest == [kind |-> "earliest", value |-> 0]
Latest == [kind |-> "latest", value |-> 0]
Count(n) == [kind |-> "count", value |-> n]
Garbage == [kind |-> "garbage", value |-> 0]

Given(flag) == flag.kind # "absent"

(* The lower bounds that were given. *)
LowerBounds(f) == {b \in {"last", "since", "from", "offset"} : Given(f[b])}

(* The argument group of clap, which sees a command line first. *)
GroupAccepts(f) == Cardinality(LowerBounds(f)) <= 1

-----------------------------------------------------------------------------
(* TimeWindow *)

Open == [kind |-> "open", value |-> 0]

LastWindow(d) == [kind |-> "last", span |-> d]
RangeWindow(t, to) == [kind |-> "range", from |-> t, to |-> to]
OffsetWindow(s, n) == [kind |-> "offset", start |-> s, limit |-> n]
Rejected(e) == [kind |-> "rejected", error |-> e]

CacheToken(w) ==
    CASE w.kind = "last"   -> <<"last", w.span \div PerSecond>>
      [] w.kind = "range"  -> <<"range", w.from, w.to>>
      [] w.kind = "offset" -> <<"offset", w.start, w.limit>>

-----------------------------------------------------------------------------
(* WindowParse::resolve *)

(* check_range and what precedes it: the range from a lower bound to "to". *)
ResolveRange(t, to) ==
    IF ~Given(to) THEN RangeWindow(t, Open)
    ELSE IF to.kind # "instant" THEN Rejected("WindowTimestamp")
    ELSE IF to.value <= t THEN Rejected("WindowToBeforeFrom")
    ELSE RangeWindow(t, to)

(* A duration that chrono cannot represent counts as none, and one that    *)
(* reaches beyond its first instant is an overflow: a panic.               *)
Ago(now, d) == now - (IF d <= MaxDelta THEN d ELSE 0)

ResolveLast(f) ==
    IF Given(f.to) THEN Rejected("WindowConflict")
    ELSE IF f.last.kind # "duration" THEN Rejected("WindowDuration")
    ELSE LastWindow(f.last.value)

ResolveFrom(bound, to) ==
    IF bound.kind # "instant" THEN Rejected("WindowTimestamp")
    ELSE ResolveRange(bound.value, to)

ResolveSince(f, now) ==
    IF f.since.kind # "duration" THEN ResolveFrom(f.since, f.to)
    ELSE IF Ago(now, f.since.value) < -Reach THEN Rejected("panic")
    ELSE ResolveRange(Ago(now, f.since.value), f.to)

ResolveOffset(f) ==
    IF Given(f.limit) THEN OffsetWindow(f.offset.kind, f.limit.value)
    ELSE Rejected("WindowOffsetWithoutLimit")

(* A mutant: an upper bound on its own is dropped. *)
ResolveDefaultLenient(f) == LastWindow(DefaultLast)

ResolveDefault(f) ==
    IF Given(f.to) THEN Rejected("WindowToWithoutFrom") ELSE LastWindow(DefaultLast)

ResolveWindow(f, now) ==
    CASE Cardinality(LowerBounds(f)) > 1 -> Rejected("WindowConflict")
      [] LowerBounds(f) = {"last"}       -> ResolveLast(f)
      [] LowerBounds(f) = {"since"}      -> ResolveSince(f, now)
      [] LowerBounds(f) = {"from"}       -> ResolveFrom(f.from, f.to)
      [] LowerBounds(f) = {"offset"}     -> ResolveOffset(f)
      [] LowerBounds(f) = {}             -> ResolveDefault(f)

-----------------------------------------------------------------------------
(* What the documentation says a window is. *)

(* DESIGN.md D: exactly one of these groups, or nothing.                   *)
Groups == {{}, {"last"}, {"since"}, {"since", "to"}, {"from"}, {"from", "to"}, {"offset", "limit"}}

Present(f) == {b \in {"last", "since", "from", "to", "offset", "limit"} : Given(f[b])}

(* Two windows ask for the same records, but for the fraction of a second  *)
(* that a duration may have.                                               *)
SameQuestion(v, w) ==
    /\ v.kind = w.kind
    /\ v.kind = "last" => v.span - w.span < PerSecond /\ w.span - v.span < PerSecond
    /\ v.kind # "last" => v = w
=============================================================================

----------------------------- MODULE Assignments -----------------------------
(***************************************************************************)
(* The arithmetic of resolve_assignments: how the watermarks of a          *)
(* partition and the broker's answers to time look-ups become the interval *)
(* of offsets [start, end) that kqr will read from it.                     *)
(***************************************************************************)
EXTENDS Plans

CONSTANT HalfRange  \* 2^63 in the code: an i64 is in -HalfRange..HalfRange-1

ASSUME HalfRangeAssumption == HalfRange \in Nat \ {0}

Larger(a, b)  == IF a >= b THEN a ELSE b
Smaller(a, b) == IF a <= b THEN a ELSE b

(* An integer after "as i64", or after an i64 addition of a release build. *)
ToI64(n) == ((n + HalfRange) % (2 * HalfRange)) - HalfRange

(* What offsets_for_times reports for a partition that has no record at or *)
(* after the time asked for (Offset::End), and for one whose look-up       *)
(* failed (Offset::Invalid).                                               *)
NoOffset == -1
LookupFailed == -1001

(* A mutant: no record after the time asked for reads as the beginning. *)
ClampResolvedOffsetToLow(found, low, high) ==
    IF found >= 0 THEN Smaller(Larger(found, low), high) ELSE low

(* An answer is only believed between the watermarks; every other answer   *)
(* stands for the high watermark.                                          *)
ClampResolvedOffset(found, low, high) ==
    IF found >= 0 THEN Smaller(Larger(found, low), high) ELSE high

(* A mutant: the high watermark taken for the last record. *)
TimeIntervalShort(fromFound, toFound, open, low, high) ==
    [ start |-> ClampResolvedOffset(fromFound, low, high),
      end   |-> IF open THEN high - 1 ELSE ClampResolvedOffset(toFound, low, high) ]

(* An open window (no "to") ends at the high watermark. *)
TimeInterval(fromFound, toFound, open, low, high) ==
    [ start |-> ClampResolvedOffset(fromFound, low, high),
      end   |-> IF open THEN high ELSE ClampResolvedOffset(toFound, low, high) ]

(* Two mutants: every partition gets the whole limit, and one partition    *)
(* more is counted than there are.                                         *)
PerPartUndivided(limit, n) == ToI64(Larger(limit, 1))

PerPartOfOneMore(limit, n) == ToI64(Larger(limit \div (n + 1), 1))

(* The share of an offset window's limit that one of n partitions gets. *)
PerPart(limit, n) == ToI64(Larger(limit \div Larger(n, 1), 1))

(* A mutant: nothing bounds the interval by the watermarks.                *)
OffsetIntervalUnbounded(origin, perPart, low, high) ==
    IF origin = "earliest"
    THEN [start |-> low, end |-> ToI64(low + perPart)]
    ELSE [start |-> ToI64(high - perPart), end |-> high]

(* The interval at either end of the log, never beyond its watermarks.     *)
OffsetInterval(origin, perPart, low, high) ==
    IF origin = "earliest"
    THEN [start |-> low, end |-> Smaller(ToI64(low + perPart), high)]
    ELSE [start |-> Larger(ToI64(high - perPart), low), end |-> high]
=============================================================================

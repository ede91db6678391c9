---------------------------- MODULE ResolveProofs ----------------------------
(***************************************************************************)
(* Every plan that resolve_assignments builds is one Consume may start     *)
(* from, for every topic, window and answer of the brokers.                *)
(***************************************************************************)
EXTENDS Resolve, FiniteSetTheorems, TLAPS

-----------------------------------------------------------------------------
(* The arithmetic of the intervals. *)

(* A conversion to i64 yields an integer.                                  *)
LEMMA ToI64Type == ASSUME NEW n \in Int PROVE ToI64(n) \in Int
<1>1. 2 * HalfRange \in Nat \ {0}
  BY HalfRangeAssumption DEF HalfRangeAssumption
<1>2. (n + HalfRange) % (2 * HalfRange) \in Int
  BY <1>1, HalfRangeAssumption DEF HalfRangeAssumption
<1> QED BY <1>2, HalfRangeAssumption DEF HalfRangeAssumption, ToI64

(* Whatever a broker answers is brought between the watermarks.            *)
LEMMA ClampWithin ==
    ASSUME NEW found \in Int, NEW lo \in Nat, NEW hi \in Nat, lo <= hi
    PROVE  ClampResolvedOffset(found, lo, hi) \in lo .. hi
BY DEF ClampResolvedOffset, Larger, Smaller

(* Hence the intervals of a time window lie below the high watermark.      *)
LEMMA TimeIntervalFits ==
    ASSUME NEW f \in Int, NEW t \in Int, NEW open \in BOOLEAN,
           NEW lo \in Nat, NEW hi \in Nat, lo <= hi
    PROVE  KeepNonEmpty(TimeInterval(f, t, open, lo, hi)) \in IntervalsBelow(hi)
<1> DEFINE i == TimeInterval(f, t, open, lo, hi)
<1>0. /\ ClampResolvedOffset(f, lo, hi) \in lo .. hi
      /\ ClampResolvedOffset(t, lo, hi) \in lo .. hi
  BY ClampWithin
<1>1. i.start \in 0 .. hi /\ i.end \in 0 .. hi
  BY <1>0 DEF TimeInterval
<1>2. i \in [start : 0 .. hi, end : 0 .. hi]
  BY <1>1 DEF TimeInterval
<1> QED BY <1>2 DEF KeepNonEmpty, IntervalsBelow

(* So do those of an offset window, even where a limit overflows an i64.   *)
LEMMA OffsetIntervalFits ==
    ASSUME NEW origin, NEW share \in Int, NEW lo \in Nat, NEW hi \in Nat, lo <= hi
    PROVE  KeepNonEmpty(OffsetInterval(origin, share, lo, hi)) \in IntervalsBelow(hi)
<1> DEFINE i == OffsetInterval(origin, share, lo, hi)
<1>1. ToI64(lo + share) \in Int /\ ToI64(hi - share) \in Int
  BY ToI64Type
<1>2. /\ i.start \in Int /\ i.start >= 0
      /\ i.end \in Int /\ i.end <= hi
      /\ i = [start |-> i.start, end |-> i.end]
  BY <1>1 DEF OffsetInterval, Larger, Smaller
<1>3. i.end > i.start => i \in [start : 0 .. hi, end : 0 .. hi]
  <2> SUFFICES ASSUME i.end > i.start PROVE i \in [start : 0 .. hi, end : 0 .. hi]
    OBVIOUS
  <2>1. i.start \in 0 .. hi /\ i.end \in 0 .. hi
    BY <1>2
  <2> HIDE DEF i
  <2> QED BY <2>1, <1>2
<1> QED BY <1>3 DEF KeepNonEmpty, IntervalsBelow

(* The share of a partition is an i64.                                     *)
LEMMA PerPartType ==
    ASSUME NEW limit \in Nat, NEW n \in Nat
    PROVE  PerPart(limit, n) \in Int
<1>1. Larger(n, 1) \in Nat \ {0}
  BY DEF Larger
<1>2. limit \div Larger(n, 1) \in Int
  BY <1>1
<1>3. Larger(limit \div Larger(n, 1), 1) \in Int
  BY <1>2 DEF Larger
<1> QED BY <1>3, ToI64Type DEF PerPart

-----------------------------------------------------------------------------
(* The inductive invariant. *)

(* Watermarks were true when they were fetched, and partitions only grow.  *)
MarksInv ==
    \A p \in DOMAIN marks :
        marks[p] \in [low : Nat, high : Nat] /\ marks[p].low <= marks[p].high
                                             /\ marks[p].high <= High(p)

(* A phase ends when every partition has answered.                         *)
PhaseInv ==
    /\ step \in {"from", "to", "build"} => DOMAIN marks = Partitions
    /\ step \in {"from", "to"} => window.kind = "time"
    /\ step = "to" => ~window.open
    /\ step \in {"to", "build"} /\ window.kind = "time" => DOMAIN from = Partitions
    /\ step = "build" /\ window.kind = "time" /\ ~window.open => DOMAIN to = Partitions

(* Retention stops at the last record, and partitions have their bound.    *)
RetainedInv == \A p \in Partitions : low[p] <= High(p) /\ High(p) <= MaxOffset

IndInv == TypeOK /\ MarksInv /\ PhaseInv /\ RetainedInv /\ PlanFitsConsume

(* The windows have their types.                                           *)
LEMMA WindowType ==
    ASSUME TypeOK
    PROVE  /\ window.kind \in {"time", "offset"}
           /\ window.kind = "time" => window.open \in BOOLEAN
           /\ window.kind = "offset" => window.limit \in Nat
<1>1. CASE window \in OpenRanges \cup ClosedRanges
  <2>1. window.kind = "time"
    BY <1>1 DEF OpenRanges, ClosedRanges
  <2>2. window.open \in BOOLEAN
    BY <1>1, Zenon DEF OpenRanges, ClosedRanges
  <2>3. window.kind # "offset"
    BY <2>1
  <2> QED BY <2>1, <2>2, <2>3, Zenon
<1>2. CASE window \in OffsetWindows
  BY <1>2, ResolveAssumption DEF OffsetWindows, ResolveAssumption
<1> QED BY <1>1, <1>2 DEF TypeOK

(* A partition's high watermark is a number.                               *)
LEMMA HighType == TypeOK => \A p \in Partitions : High(p) \in Nat
BY DEF TypeOK, High

(* Every answer is an integer.                                             *)
LEMMA AnswersType ==
    ASSUME TypeOK, NEW p \in Partitions, NEW t, NEW a \in Answers(p, t)
    PROVE  a \in Int
<1>1. AtOrAfter(p, t) \subseteq Int
  BY HighType DEF TypeOK, AtOrAfter
<1> QED BY <1>1 DEF Answers, NoOffset, LookupFailed

(* The interval of one partition, once all answers are there.              *)
LEMMA ResolvedFits ==
    ASSUME IndInv, step = "build", NEW p \in Partitions
    PROVE  KeepNonEmpty(Resolved(p)) \in IntervalsBelow(High(p))
<1>1. /\ marks[p].low \in Nat /\ marks[p].high \in Nat /\ High(p) \in Nat
      /\ marks[p].low <= marks[p].high /\ marks[p].high <= High(p)
  BY HighType DEF IndInv, MarksInv, PhaseInv
<1>2. KeepNonEmpty(Resolved(p)) \in IntervalsBelow(marks[p].high)
  <2>1. CASE window.kind = "time"
    <3>1. from[p] \in Int /\ window.open \in BOOLEAN /\ (~window.open => to[p] \in Int)
      BY <2>1, WindowType DEF IndInv, PhaseInv, TypeOK
    <3>2. (IF window.open THEN NoOffset ELSE to[p]) \in Int
      BY <3>1 DEF NoOffset
    <3> QED BY <2>1, <3>1, <3>2, <1>1, TimeIntervalFits DEF Resolved
  <2>2. CASE window.kind = "offset"
    <3>1. Cardinality(Partitions) \in Nat
      BY FS_CardinalityType, ResolveAssumption DEF ResolveAssumption
    <3>2. PerPart(window.limit, Cardinality(Partitions)) \in Int
      BY <2>2, <3>1, WindowType, PerPartType DEF IndInv
    <3> QED BY <2>2, <3>2, <1>1, OffsetIntervalFits DEF Resolved
  <2> QED BY <2>1, <2>2, WindowType DEF IndInv
<1>3. IntervalsBelow(marks[p].high) \subseteq IntervalsBelow(High(p))
  BY <1>1 DEF IntervalsBelow
<1> QED BY <1>2, <1>3

LEMMA Step == IndInv /\ [Next]_vars => IndInv'
<1> SUFFICES ASSUME IndInv, [Next]_vars PROVE IndInv'
  OBVIOUS
<1> USE DEF topic
<1>0. TypeOK /\ MarksInv /\ PhaseInv /\ RetainedInv /\ PlanFitsConsume
      /\ (\A p \in Partitions : High(p) \in Nat /\ low[p] \in Nat)
  BY HighType DEF IndInv, TypeOK
<1>1. ASSUME NEW p \in Partitions, NEW t \in Times, Produce(p, t) PROVE IndInv'
  <2>1. stamps' = [stamps EXCEPT ![p] = Append(stamps[p], t)] /\ t \in Nat
    BY <1>1, ResolveAssumption DEF Produce, ResolveAssumption
  <2>2. stamps \in [Partitions -> Seq(Nat)] /\ stamps[p] \in Seq(Nat)
    BY <1>0 DEF TypeOK
  <2>3. Append(stamps[p], t) \in Seq(Nat) /\ Len(Append(stamps[p], t)) = Len(stamps[p]) + 1
    BY <2>1, <2>2
  <2>4. stamps' \in [Partitions -> Seq(Nat)]
    BY <2>1, <2>2, <2>3
  <2>5. \A q \in Partitions : High(q)' \in Nat /\ High(q) <= High(q)'
    BY <2>1, <2>2, <2>3, <1>0 DEF High
  <2>6. UNCHANGED <<low, window, step, marks, from, to, plan>>
    BY <1>1 DEF Produce
  <2>7. TypeOK'
    BY <2>4, <2>6, <1>0 DEF TypeOK
  <2>8. MarksInv'
    BY <2>5, <2>6, <1>0 DEF MarksInv, TypeOK
  <2>9. RetainedInv'
    <3>1. High(p) < MaxOffset /\ High(p)' = High(p) + 1 /\ MaxOffset \in Nat
      BY <1>1, <2>1, <2>2, <2>3, ResolveAssumption, HalfRangeAssumption
         DEF Produce, High, ResolveAssumption, HalfRangeAssumption
    <3>2. \A q \in Partitions \ {p} : High(q)' = High(q)
      BY <2>1, <2>2 DEF High
    <3> QED BY <2>5, <2>6, <3>1, <3>2, <1>0 DEF RetainedInv
  <2>10. PlanFitsConsume'
    <3>1. \A q \in Partitions : IntervalsBelow(High(q)) \subseteq IntervalsBelow(High(q)')
      BY <2>5, <1>0 DEF IntervalsBelow
    <3> QED BY <3>1, <2>6, <1>0 DEF PlanFitsConsume
  <2> QED BY <2>6, <2>7, <2>8, <2>9, <2>10, <1>0 DEF IndInv, PhaseInv
<1>2. ASSUME NEW p \in Partitions, Retain(p) PROVE IndInv'
  <2>1. /\ low' \in [Partitions -> Nat]
        /\ \A q \in Partitions : low'[q] <= High(q)
    BY <1>0, <1>2 DEF Retain, RetainedInv, TypeOK
  <2>2. UNCHANGED <<stamps, window, step, marks, from, to, plan>>
    BY <1>2 DEF Retain
  <2> QED BY <2>1, <2>2, <1>0
          DEF IndInv, TypeOK, MarksInv, PhaseInv, RetainedInv, PlanFitsConsume, High
<1>3. ASSUME NEW p \in Partitions, FetchWatermarks(p) PROVE IndInv'
  <2>1. /\ DOMAIN marks' = DOMAIN marks \cup {p}
        /\ marks'[p] = [low |-> low[p], high |-> High(p)]
        /\ \A q \in DOMAIN marks \ {p} : marks'[q] = marks[q]
        /\ UNCHANGED <<stamps, low, window, from, to, plan>>
    BY <1>3 DEF FetchWatermarks
  <2>2. \A q \in DOMAIN marks' : marks'[q] \in [low : Nat, high : Nat]
    BY <2>1, <1>0 DEF TypeOK
  <2>3. MarksInv'
    BY <2>1, <2>2, <1>0 DEF MarksInv, RetainedInv, High
  <2>4. step' \in {"watermarks", "from", "build"}
        /\ (step' # "watermarks" => DOMAIN marks' = Partitions)
        /\ (step' = "from" => window.kind = "time")
        /\ (step' = "build" => window.kind # "time")
    BY <1>3 DEF FetchWatermarks
  <2> QED BY <2>1, <2>2, <2>3, <2>4, <1>0
          DEF IndInv, TypeOK, PhaseInv, RetainedInv, PlanFitsConsume, High
<1>4. ASSUME NEW p \in Partitions, LookupFrom(p) PROVE IndInv'
  <2>1. PICK a \in Answers(p, window.from) :
          from' = [q \in DOMAIN from \cup {p} |-> IF q = p THEN a ELSE from[q]]
    BY <1>4 DEF LookupFrom
  <2>2. a \in Int
    BY <1>0, AnswersType
  <2>3. DOMAIN from' = DOMAIN from \cup {p} /\ \A q \in DOMAIN from' : from'[q] \in Int
    BY <2>1, <2>2, <1>0 DEF TypeOK
  <2>4. /\ UNCHANGED <<stamps, low, window, marks, to, plan>>
        /\ step = "from" /\ step' \in {"from", "to", "build"}
        /\ step' # "from" => DOMAIN from' = Partitions
        /\ step' = "build" => window.open
        /\ step' = "to" => ~window.open
    BY <1>4 DEF LookupFrom
  <2> QED BY <2>3, <2>4, <1>0
          DEF IndInv, TypeOK, MarksInv, PhaseInv, RetainedInv, PlanFitsConsume, High
<1>5. ASSUME NEW p \in Partitions, LookupTo(p) PROVE IndInv'
  <2>1. PICK a \in Answers(p, window.to) :
          to' = [q \in DOMAIN to \cup {p} |-> IF q = p THEN a ELSE to[q]]
    BY <1>5 DEF LookupTo
  <2>2. a \in Int
    BY <1>0, AnswersType
  <2>3. DOMAIN to' = DOMAIN to \cup {p} /\ \A q \in DOMAIN to' : to'[q] \in Int
    BY <2>1, <2>2, <1>0 DEF TypeOK
  <2>4. /\ UNCHANGED <<stamps, low, window, marks, from, plan>>
        /\ step = "to" /\ step' \in {"to", "build"}
        /\ step' = "build" => DOMAIN to' = Partitions
    BY <1>5 DEF LookupTo
  <2> QED BY <2>3, <2>4, <1>0
          DEF IndInv, TypeOK, MarksInv, PhaseInv, RetainedInv, PlanFitsConsume, High
<1>6. CASE Build
  <2>1. /\ step = "build" /\ step' = "done"
        /\ UNCHANGED <<stamps, low, window, marks, from, to>>
        /\ plan' = [p \in Partitions |-> KeepNonEmpty(Resolved(p))]
    BY <1>6 DEF Build
  <2>2. \A p \in Partitions : plan'[p] \in IntervalsBelow(High(p))
    BY <2>1, ResolvedFits
  <2>3. \A p \in Partitions : IntervalsBelow(High(p)) \subseteq [start : Int, end : Int]
    BY <1>0 DEF IntervalsBelow, Unassigned
  <2>4. plan' \in [Partitions -> [start : Int, end : Int]]
    BY <2>1, <2>2, <2>3
  <2> QED BY <2>1, <2>2, <2>4, <1>0
          DEF IndInv, TypeOK, MarksInv, PhaseInv, RetainedInv, PlanFitsConsume, High
<1>7. CASE Fail
  BY <1>0, <1>7
     DEF Fail, IndInv, TypeOK, MarksInv, PhaseInv, RetainedInv, PlanFitsConsume, High
<1>8. CASE UNCHANGED vars
  BY <1>0, <1>8
     DEF vars, IndInv, TypeOK, MarksInv, PhaseInv, RetainedInv, PlanFitsConsume, High
<1> QED
  BY <1>1, <1>2, <1>3, <1>4, <1>5, <1>6, <1>7, <1>8 DEF Next, Terminating

LEMMA Initially == Init => IndInv
<1> SUFFICES ASSUME Init PROVE IndInv
  OBVIOUS
<1>1. stamps \in [Partitions -> Seq(Nat)] /\ \A p \in Partitions : High(p) = 0
  BY DEF Init, High
<1>2. plan \in [Partitions -> [start : Int, end : Int]]
  BY DEF Init, Unassigned
<1>3. DOMAIN marks = {} /\ DOMAIN from = {} /\ DOMAIN to = {}
  BY DEF Init
<1>4. MaxOffset \in Nat
  BY ResolveAssumption, HalfRangeAssumption DEF ResolveAssumption, HalfRangeAssumption
<1> QED BY <1>1, <1>2, <1>3, <1>4
        DEF Init, IndInv, TypeOK, MarksInv, PhaseInv, RetainedInv, PlanFitsConsume

THEOREM Invariance == Spec => []IndInv
BY Initially, Step, PTL DEF Spec

(* Every variable of the resolution keeps its type.                        *)
THEOREM ResolveTyping == Spec => []TypeOK
<1>1. IndInv => TypeOK
  BY DEF IndInv
<1> QED BY <1>1, Invariance, PTL

(* Every plan lies below the watermarks, so that Consume may start from it.*)
THEOREM PlanFits == Spec => []PlanFitsConsume
<1>1. IndInv => PlanFitsConsume
  BY DEF IndInv
<1> QED BY <1>1, Invariance, PTL

-----------------------------------------------------------------------------
(* What the answers still say when the plan is built, and afterwards. *)

(* What an answer a about time t tells of p at any later moment: offsets   *)
(* are not reused and timestamps not rewritten, so that the records before *)
(* the answer remain too early however the topic moves.                    *)
Told(p, a, t) ==
    /\ a = NoOffset =>
         \A o \in Nat : o >= low[p] /\ o < marks[p].high => stamps[p][o + 1] < t
    /\ a \notin {NoOffset, LookupFailed} =>
         /\ a \in Nat /\ a < High(p) /\ stamps[p][a + 1] >= t
         /\ \A o \in Nat : o >= low[p] /\ o < a => stamps[p][o + 1] < t

(* Partitions answer about their times after their watermarks, and a plan  *)
(* is what was computed from the answers.                                  *)
AnswersInv ==
    /\ \A p \in DOMAIN from : p \in DOMAIN marks /\ Told(p, from[p], window.from)
    /\ \A p \in DOMAIN to : p \in DOMAIN marks /\ Told(p, to[p], window.to)
    /\ step = "done" =>
         /\ DOMAIN marks = Partitions
         /\ window.kind = "time" => DOMAIN from = Partitions
         /\ window.kind = "time" /\ ~window.open => DOMAIN to = Partitions
         /\ \A p \in Partitions : plan[p] = KeepNonEmpty(Resolved(p))

(* An answer is true when it is given.                                     *)
LEMMA AnswerTold ==
    ASSUME IndInv, NEW p \in Partitions, p \in DOMAIN marks, NEW t, NEW a \in Answers(p, t),
           t \in Nat
    PROVE  Told(p, a, t)
<1>0. /\ High(p) \in Nat /\ low[p] \in Nat /\ marks[p].high \in Nat /\ marks[p].high <= High(p)
      /\ \A o \in 0 .. High(p) - 1 : stamps[p][o + 1] \in Nat
  <2>1. stamps[p] \in Seq(Nat) /\ low[p] \in Nat
    BY DEF IndInv, TypeOK
  <2>2. \A i \in 1 .. Len(stamps[p]) : stamps[p][i] \in Nat
    BY <2>1
  <2>3. High(p) \in Nat /\ marks[p].high \in Nat /\ marks[p].high <= High(p)
    BY <2>1 DEF IndInv, MarksInv, High
  <2> QED BY <2>1, <2>2, <2>3 DEF High
<1>1. \A o \in Nat : o >= low[p] /\ o < High(p) /\ o \notin AtOrAfter(p, t)
                       => stamps[p][o + 1] < t
  BY <1>0 DEF AtOrAfter
<1>2. \A o \in AtOrAfter(p, t) : o \in Nat /\ o < High(p) /\ stamps[p][o + 1] >= t
  BY <1>0 DEF AtOrAfter
<1>3. a = NoOffset => AtOrAfter(p, t) = {}
  BY <1>2 DEF Answers, NoOffset, LookupFailed
<1>4. a \notin {NoOffset, LookupFailed} =>
        a \in AtOrAfter(p, t) /\ \A q \in AtOrAfter(p, t) : a <= q
  BY DEF Answers
<1>5. a = NoOffset =>
        \A o \in Nat : o >= low[p] /\ o < marks[p].high => stamps[p][o + 1] < t
  BY <1>0, <1>1, <1>3
<1>6. ASSUME a \notin {NoOffset, LookupFailed}
      PROVE  /\ a \in Nat /\ a < High(p) /\ stamps[p][a + 1] >= t
             /\ \A o \in Nat : o >= low[p] /\ o < a => stamps[p][o + 1] < t
  <2>1. a \in Nat /\ a < High(p) /\ stamps[p][a + 1] >= t
    BY <1>2, <1>4, <1>6
  <2>2. \A o \in Nat : o < a => o \notin AtOrAfter(p, t)
    BY <1>4, <1>6, <2>1
  <2> QED BY <1>0, <1>1, <2>1, <2>2
<1> QED BY <1>5, <1>6 DEF Told

(* It stays true while records are appended and removed.                   *)
LEMMA ToldStays ==
    ASSUME IndInv, NEW p \in Partitions, p \in DOMAIN marks, NEW a, NEW t, Told(p, a, t),
           marks'[p] = marks[p], low[p] <= low'[p], low'[p] \in Nat,
           High(p) <= High(p)', High(p)' \in Nat,
           \A o \in Nat : o < High(p) => stamps'[p][o + 1] = stamps[p][o + 1]
    PROVE  Told(p, a, t)'
<1>0. /\ High(p) \in Nat /\ low[p] \in Nat /\ marks[p].high \in Nat /\ marks[p].high <= High(p)
  BY HighType DEF IndInv, TypeOK, MarksInv
<1>1. ASSUME a = NoOffset, NEW o \in Nat, o >= low'[p], o < marks'[p].high
      PROVE  stamps'[p][o + 1] < t
  BY <1>0, <1>1 DEF Told
<1>2. ASSUME a \notin {NoOffset, LookupFailed}
      PROVE  /\ a \in Nat /\ a < High(p)' /\ stamps'[p][a + 1] >= t
             /\ \A o \in Nat : o >= low'[p] /\ o < a => stamps'[p][o + 1] < t
  <2>1. /\ a \in Nat /\ a < High(p) /\ stamps[p][a + 1] >= t
        /\ \A o \in Nat : o >= low[p] /\ o < a => stamps[p][o + 1] < t
    BY <1>2 DEF Told
  <2> QED BY <1>0, <2>1
<1> QED BY <1>1, <1>2 DEF Told

(* A step on the topic alone.                                              *)
LEMMA TopicMoves ==
    ASSUME IndInv, AnswersInv, UNCHANGED <<window, step, marks, from, to, plan>>,
           \A p \in Partitions :
             /\ low[p] <= low'[p] /\ low'[p] \in Nat /\ High(p) <= High(p)' /\ High(p)' \in Nat
             /\ \A o \in Nat : o < High(p) => stamps'[p][o + 1] = stamps[p][o + 1]
    PROVE  AnswersInv'
<1>1. DOMAIN from \subseteq Partitions /\ DOMAIN to \subseteq Partitions
  BY DEF IndInv, TypeOK
<1>2. ASSUME NEW p \in DOMAIN from PROVE p \in DOMAIN marks /\ Told(p, from[p], window.from)'
  BY <1>1, ToldStays DEF AnswersInv, Told, High
<1>3. ASSUME NEW p \in DOMAIN to PROVE p \in DOMAIN marks /\ Told(p, to[p], window.to)'
  BY <1>1, ToldStays DEF AnswersInv, Told, High
<1>4. \A p : Resolved(p)' = Resolved(p)
  BY DEF Resolved
<1> QED BY <1>2, <1>3, <1>4 DEF AnswersInv, Told, High

(* The bounds of a time window are timestamps.                             *)
LEMMA BoundsType ==
    ASSUME TypeOK, window.kind = "time"
    PROVE  window.from \in Nat /\ (~window.open => window.to \in Nat)
<1>1. window \notin OffsetWindows
  BY DEF OffsetWindows
<1>2. CASE window \in OpenRanges
  BY <1>2, ResolveAssumption DEF OpenRanges, ResolveAssumption
<1>3. CASE window \in ClosedRanges
  BY <1>3, ResolveAssumption DEF ClosedRanges, ResolveAssumption
<1> QED BY <1>1, <1>2, <1>3 DEF TypeOK

LEMMA AnswersStep == IndInv /\ AnswersInv /\ [Next]_vars => AnswersInv'
<1> SUFFICES ASSUME IndInv, AnswersInv, [Next]_vars PROVE AnswersInv'
  OBVIOUS
<1> USE DEF topic
<1>0. /\ \A p \in Partitions : High(p) \in Nat /\ low[p] \in Nat /\ stamps[p] \in Seq(Nat)
      /\ DOMAIN stamps = Partitions /\ DOMAIN low = Partitions
      /\ DOMAIN from \subseteq Partitions /\ DOMAIN to \subseteq Partitions
  BY HighType DEF IndInv, TypeOK
<1>1. ASSUME NEW p \in Partitions, NEW t \in Times, Produce(p, t) PROVE AnswersInv'
  <2>1. /\ stamps' = [stamps EXCEPT ![p] = Append(stamps[p], t)] /\ low' = low
        /\ UNCHANGED <<window, step, marks, from, to, plan>>
    BY <1>1 DEF Produce
  <2>2. t \in Nat
    BY ResolveAssumption DEF ResolveAssumption
  <2>3. /\ Len(Append(stamps[p], t)) = Len(stamps[p]) + 1
        /\ \A i \in 1 .. Len(stamps[p]) : Append(stamps[p], t)[i] = stamps[p][i]
    BY <1>0, <2>2
  <2>4. \A o \in Nat : o < High(p) => Append(stamps[p], t)[o + 1] = stamps[p][o + 1]
    BY <1>0, <2>3 DEF High
  <2>5. \A q \in Partitions :
          /\ low[q] <= low'[q] /\ low'[q] \in Nat /\ High(q) <= High(q)' /\ High(q)' \in Nat
          /\ \A o \in Nat : o < High(q) => stamps'[q][o + 1] = stamps[q][o + 1]
    BY <1>0, <2>1, <2>3, <2>4 DEF High
  <2> QED BY <2>1, <2>5, TopicMoves
<1>2. ASSUME NEW p \in Partitions, Retain(p) PROVE AnswersInv'
  <2>1. \A q \in Partitions :
          /\ low[q] <= low'[q] /\ low'[q] \in Nat /\ High(q) <= High(q)' /\ High(q)' \in Nat
          /\ \A o \in Nat : o < High(q) => stamps'[q][o + 1] = stamps[q][o + 1]
    BY <1>0, <1>2 DEF Retain, High
  <2>2. UNCHANGED <<window, step, marks, from, to, plan>>
    BY <1>2 DEF Retain
  <2> QED BY <2>1, <2>2, TopicMoves
<1>3. ASSUME NEW p \in Partitions, FetchWatermarks(p) PROVE AnswersInv'
  <2>1. /\ DOMAIN marks' = DOMAIN marks \cup {p} /\ p \notin DOMAIN marks
        /\ \A q \in DOMAIN marks \ {p} : marks'[q] = marks[q]
        /\ UNCHANGED <<stamps, low, window, from, to, plan>>
        /\ step' # "done"
    BY <1>3 DEF FetchWatermarks
  <2> QED BY <2>1 DEF AnswersInv, Told, High
<1>4. ASSUME NEW p \in Partitions, LookupFrom(p) PROVE AnswersInv'
  <2>1. PICK a \in Answers(p, window.from) :
          from' = [q \in DOMAIN from \cup {p} |-> IF q = p THEN a ELSE from[q]]
    BY <1>4 DEF LookupFrom
  <2>2. /\ UNCHANGED <<stamps, low, window, marks, to, plan>>
        /\ step = "from" /\ step' # "done"
    BY <1>4 DEF LookupFrom
  <2>3. p \in DOMAIN marks /\ window.from \in Nat
    BY <2>2, BoundsType DEF IndInv, PhaseInv
  <2>4. Told(p, a, window.from)
    BY <2>1, <2>3, AnswerTold
  <2>5. \A q \in DOMAIN from' : q \in DOMAIN marks /\ Told(q, from'[q], window.from)
    BY <2>1, <2>3, <2>4 DEF AnswersInv
  <2> QED BY <2>2, <2>5 DEF AnswersInv, Told, High
<1>5. ASSUME NEW p \in Partitions, LookupTo(p) PROVE AnswersInv'
  <2>1. PICK a \in Answers(p, window.to) :
          to' = [q \in DOMAIN to \cup {p} |-> IF q = p THEN a ELSE to[q]]
    BY <1>5 DEF LookupTo
  <2>2. /\ UNCHANGED <<stamps, low, window, marks, from, plan>>
        /\ step = "to" /\ step' # "done"
    BY <1>5 DEF LookupTo
  <2>3. p \in DOMAIN marks /\ ~window.open => window.to \in Nat
    BY <2>2, BoundsType DEF IndInv, PhaseInv
  <2>4. p \in DOMAIN marks /\ ~window.open
    BY <2>2 DEF IndInv, PhaseInv
  <2>5. Told(p, a, window.to)
    BY <2>1, <2>3, <2>4, AnswerTold
  <2>6. \A q \in DOMAIN to' : q \in DOMAIN marks /\ Told(q, to'[q], window.to)
    BY <2>1, <2>4, <2>5 DEF AnswersInv
  <2> QED BY <2>2, <2>6 DEF AnswersInv, Told, High
<1>6. CASE Build
  <2>1. /\ step = "build" /\ step' = "done"
        /\ UNCHANGED <<stamps, low, window, marks, from, to>>
        /\ \A p \in Partitions : plan'[p] = KeepNonEmpty(Resolved(p))
    BY <1>6 DEF Build
  <2>2. \A p : Resolved(p)' = Resolved(p)
    BY <2>1 DEF Resolved
  <2> QED BY <2>1, <2>2 DEF AnswersInv, Told, High, IndInv, PhaseInv
<1>7. CASE Fail
  BY <1>7 DEF Fail, AnswersInv, Told, High
<1>8. CASE UNCHANGED vars
  <2>1. \A p : Resolved(p)' = Resolved(p)
    BY <1>8 DEF Resolved, vars
  <2> QED BY <1>8, <2>1 DEF vars, AnswersInv, Told, High
<1> QED
  BY <1>1, <1>2, <1>3, <1>4, <1>5, <1>6, <1>7, <1>8 DEF Next, Terminating

LEMMA AnswersInit == Init => AnswersInv
BY DEF Init, AnswersInv

THEOREM Answering == Spec => [](IndInv /\ AnswersInv)
BY Initially, Step, AnswersInit, AnswersStep, PTL DEF Spec

-----------------------------------------------------------------------------
(* Time windows *)

(* The bound that an answer becomes divides the readable records: behind   *)
(* it lies everything from t on, and nothing else if timestamps are in     *)
(* order.                                                                  *)
LEMMA ClampDivides ==
    ASSUME IndInv, NEW p \in Partitions, p \in DOMAIN marks, NEW a \in Int, NEW t \in Nat,
           Told(p, a, t), a # LookupFailed, NEW o \in Readable(p)
    PROVE  LET c == ClampResolvedOffset(a, marks[p].low, marks[p].high)
           IN  /\ stamps[p][o + 1] >= t => o >= c
               /\ InOrder(p) /\ o >= c => stamps[p][o + 1] >= t
<1> DEFINE c == ClampResolvedOffset(a, marks[p].low, marks[p].high)
<1>0. /\ High(p) \in Nat /\ low[p] \in Nat /\ stamps[p] \in Seq(Nat)
      /\ marks[p].low \in Nat /\ marks[p].high \in Nat
      /\ marks[p].low <= marks[p].high /\ marks[p].high <= High(p)
  BY HighType DEF IndInv, TypeOK, MarksInv
<1>1. o \in Nat /\ o >= marks[p].low /\ o < marks[p].high /\ o >= low[p]
  BY <1>0 DEF Readable
<1>2. stamps[p][o + 1] \in Nat
  <2>1. o + 1 \in 1 .. Len(stamps[p])
    BY <1>0, <1>1 DEF High
  <2>2. \A i \in 1 .. Len(stamps[p]) : stamps[p][i] \in Nat
    BY <1>0
  <2> QED BY <2>1, <2>2
<1>3. CASE a = NoOffset
  <2>1. c = marks[p].high
    BY <1>3 DEF ClampResolvedOffset, NoOffset
  <2>2. stamps[p][o + 1] < t
    BY <1>1, <1>3 DEF Told
  <2> QED BY <2>1, <2>2, <1>0, <1>1, <1>2
<1>4. CASE a # NoOffset
  <2>1. /\ a \in Nat /\ a < High(p) /\ stamps[p][a + 1] >= t
        /\ \A q \in Nat : q >= low[p] /\ q < a => stamps[p][q + 1] < t
    BY <1>4 DEF Told
  <2>2. o >= c <=> o >= a
    BY <2>1, <1>0, <1>1 DEF ClampResolvedOffset, Larger, Smaller
  <2>3. o < a => stamps[p][o + 1] < t
    BY <2>1, <1>1
  <2>4. InOrder(p) /\ o >= a => stamps[p][a + 1] <= stamps[p][o + 1]
    <3>1. a + 1 \in DOMAIN stamps[p] /\ o + 1 \in DOMAIN stamps[p]
      BY <1>0, <1>1, <2>1 DEF High
    <3>2. stamps[p][a + 1] \in Nat
      BY <1>0, <3>1
    <3>3. CASE a = o
      BY <3>2, <3>3
    <3>4. CASE a # o
      BY <3>1, <3>4, <1>1, <2>1 DEF InOrder
    <3> QED BY <3>3, <3>4
  <2>5. stamps[p][a + 1] \in Nat
    <3>1. a + 1 \in 1 .. Len(stamps[p])
      BY <1>0, <2>1 DEF High
    <3>2. \A i \in 1 .. Len(stamps[p]) : stamps[p][i] \in Nat
      BY <1>0
    <3> QED BY <3>1, <3>2
  <2> QED BY <2>1, <2>2, <2>3, <2>4, <2>5, <1>1, <1>2
<1> QED BY <1>3, <1>4

(* An interval that is dropped held no offset.                             *)
LEMMA SpanOfKept ==
    ASSUME NEW i, i.start \in Int, i.end \in Int
    PROVE  Span(KeepNonEmpty(i)) = Span(i)
BY DEF Span, KeepNonEmpty, Unassigned

(* What of the readable records a finished plan contains.                  *)
LEMMA TimePlan ==
    ASSUME IndInv, AnswersInv, step = "done", window.kind = "time", NEW p \in Partitions,
           Answered(p), NEW o \in Readable(p)
    PROVE  /\ (window.open \/ InOrder(p)) /\ InWindow(p, o) => o \in Span(plan[p])
           /\ InOrder(p) /\ o \in Span(plan[p]) => InWindow(p, o)
<1> DEFINE s == ClampResolvedOffset(from[p], marks[p].low, marks[p].high)
           e == ClampResolvedOffset(to[p], marks[p].low, marks[p].high)
<1>0. /\ p \in DOMAIN marks /\ p \in DOMAIN from /\ (~window.open => p \in DOMAIN to)
      /\ plan[p] = KeepNonEmpty(Resolved(p))
      /\ Told(p, from[p], window.from) /\ (~window.open => Told(p, to[p], window.to))
  BY DEF AnswersInv
<1>1. /\ from[p] \in Int /\ (~window.open => to[p] \in Int)
      /\ window.from \in Nat /\ (~window.open => window.to \in Nat)
      /\ window.open \in BOOLEAN
  BY <1>0, BoundsType, WindowType DEF IndInv, TypeOK
<1>2. /\ from[p] # LookupFailed /\ (~window.open => to[p] # LookupFailed)
  BY <1>1 DEF Answered
<1>3. /\ marks[p].low \in Nat /\ marks[p].high \in Nat /\ marks[p].low <= marks[p].high
  BY <1>0 DEF IndInv, MarksInv
<1>4. s \in Int /\ (~window.open => e \in Int)
  <2>1. s \in marks[p].low .. marks[p].high
    BY <1>1, <1>3, ClampWithin
  <2>2. ASSUME ~window.open PROVE e \in marks[p].low .. marks[p].high
    BY <1>1, <1>3, <2>2, ClampWithin
  <2> HIDE DEF s, e
  <2> QED BY <2>1, <2>2, <1>3
<1>5. /\ Resolved(p).start = s
      /\ Resolved(p).end = IF window.open THEN marks[p].high ELSE e
  BY DEF Resolved, TimeInterval
<1>6. o \in Nat /\ o < marks[p].high
      /\ stamps[p][o + 1] \in Nat
  <2>1. stamps[p] \in Seq(Nat) /\ marks[p].high <= Len(stamps[p])
    BY <1>0 DEF IndInv, TypeOK, MarksInv, High
  <2>2. o \in Nat /\ o < marks[p].high
    BY <1>3 DEF Readable
  <2>3. o + 1 \in 1 .. Len(stamps[p])
    BY <2>1, <2>2, <1>3
  <2>4. \A i \in 1 .. Len(stamps[p]) : stamps[p][i] \in Nat
    BY <2>1
  <2> QED BY <2>2, <2>3, <2>4
<1>7. o \in Span(plan[p]) <=> o >= s /\ (window.open \/ o < e)
  <2>1. Span(plan[p]) = Span(Resolved(p))
    BY <1>0, <1>3, <1>4, <1>5, SpanOfKept
  <2> HIDE DEF s, e
  <2>2. CASE window.open
    <3>1. Span(Resolved(p)) = s .. marks[p].high - 1
      BY <1>5, <2>2 DEF Span
    <3> QED BY <2>1, <2>2, <3>1, <1>3, <1>4, <1>6
  <2>3. CASE ~window.open
    <3>1. Span(Resolved(p)) = s .. e - 1
      BY <1>5, <2>3 DEF Span
    <3> QED BY <2>1, <2>3, <3>1, <1>3, <1>4, <1>6
  <2> QED BY <2>2, <2>3
<1>8. /\ stamps[p][o + 1] >= window.from => o >= s
      /\ InOrder(p) /\ o >= s => stamps[p][o + 1] >= window.from
  BY <1>0, <1>1, <1>2, ClampDivides
<1>9. ~window.open =>
        /\ stamps[p][o + 1] >= window.to => o >= e
        /\ InOrder(p) /\ o >= e => stamps[p][o + 1] >= window.to
  BY <1>0, <1>1, <1>2, ClampDivides
<1> HIDE DEF s, e
<1>10. ASSUME window.open \/ InOrder(p), InWindow(p, o) PROVE o \in Span(plan[p])
  BY <1>1, <1>4, <1>6, <1>7, <1>8, <1>9, <1>10 DEF InWindow
<1>11. ASSUME InOrder(p), o \in Span(plan[p]) PROVE InWindow(p, o)
  BY <1>1, <1>4, <1>6, <1>7, <1>8, <1>9, <1>11 DEF InWindow
<1> QED BY <1>10, <1>11

(* With timestamps in order, a time window becomes exactly its records.    *)
THEOREM TimeWindows == Spec => []TimePlanExact
<1>1. IndInv /\ AnswersInv => TimePlanExact
  BY TimePlan DEF TimePlanExact
<1> QED BY <1>1, Answering, PTL

(* With timestamps in any order, an open window misses nothing.            *)
THEOREM OpenWindows == Spec => []OpenPlanMissesNothing
<1>1. IndInv /\ AnswersInv => OpenPlanMissesNothing
  BY TimePlan DEF OpenPlanMissesNothing
<1> QED BY <1>1, Answering, PTL

-----------------------------------------------------------------------------
(* Offset windows *)

(* The share of one partition before it is cast.                           *)
Share(limit, n) == Larger(limit \div Larger(n, 1), 1)

(* Casts keep what fits, and never add to a natural number.                *)
LEMMA Casts ==
    ASSUME NEW n \in Int
    PROVE  /\ n \in (-HalfRange) .. (HalfRange - 1) => ToI64(n) = n
           /\ n \in Nat => ToI64(n) <= n
<1>1. HalfRange \in Nat /\ HalfRange > 0 /\ 2 * HalfRange > 0 /\ n + HalfRange \in Int
  BY HalfRangeAssumption DEF HalfRangeAssumption
<1>2. ASSUME NEW m \in Nat, NEW d \in Nat, d > 0
      PROVE  m % d <= m /\ (m < d => m % d = m)
  BY <1>2
<1> QED BY <1>1, <1>2 DEF ToI64

(* All shares together are no more than the limit, or one for each, and    *)
(* they fall short of the limit by less than one for each.                 *)
LEMMA Shares ==
    ASSUME NEW limit \in Nat, NEW n \in Nat \ {0}
    PROVE  /\ Share(limit, n) \in Nat /\ Share(limit, n) >= 1
           /\ n * Share(limit, n) <= Larger(limit, n)
           /\ n * Share(limit, n) > limit - n
           /\ Share(limit, n) <= Larger(limit, 1)
<1>1. /\ limit \div n \in Nat
      /\ n * (limit \div n) <= limit /\ n * (limit \div n) > limit - n
      /\ limit \div n <= limit
  OBVIOUS
<1>2. Share(limit, n) = IF limit \div n >= 1 THEN limit \div n ELSE 1
  BY <1>1 DEF Share, Larger
<1> QED BY <1>1, <1>2 DEF Larger

(* An interval holds at most a share, although casts and sums may wrap.    *)
LEMMA IntervalBounded ==
    ASSUME NEW origin, NEW limit \in Nat, NEW n \in Nat \ {0},
           NEW lo \in Nat, NEW hi \in Nat, lo <= hi, hi <= MaxOffset
    PROVE  LET i == OffsetInterval(origin, PerPart(limit, n), lo, hi)
           IN  i.start \in Int /\ i.end \in Int /\ i.end - i.start <= Share(limit, n)
<1> DEFINE k == Share(limit, n)
           pp == PerPart(limit, n)
           i == OffsetInterval(origin, pp, lo, hi)
<1>0. k \in Nat /\ k >= 1 /\ pp = ToI64(k) /\ pp \in Int
      /\ HalfRange \in Nat /\ MaxOffset \in Nat /\ MaxOffset < HalfRange
  BY Shares, ToI64Type, ResolveAssumption, HalfRangeAssumption
     DEF Share, PerPart, ResolveAssumption, HalfRangeAssumption
<1> HIDE DEF k, pp
<1>1. ToI64(lo + pp) \in Int /\ ToI64(hi - pp) \in Int
  BY <1>0, ToI64Type
<1>2. i.start \in Int /\ i.end \in Int /\ i.start >= lo /\ i.end <= hi
  BY <1>1 DEF OffsetInterval, Larger, Smaller
<1>3. CASE k >= HalfRange
  <2> HIDE DEF i
  <2>1. i.end - i.start <= k
    BY <1>0, <1>2, <1>3
  <2> QED BY <1>2, <2>1 DEF i, k, pp
<1>4. CASE k < HalfRange
  <2>1. pp = k
    BY <1>0, <1>4, Casts
  <2>2. ToI64(lo + pp) <= lo + k /\ ToI64(hi - pp) = hi - k
    BY <1>0, <1>4, <2>1, Casts
  <2>3. i.end - i.start <= k
    BY <1>0, <1>1, <2>1, <2>2 DEF OffsetInterval, Larger, Smaller
  <2> QED BY <1>2, <2>3 DEF i, k, pp
<1> QED BY <1>0, <1>3, <1>4

(* An interval holds a whole share of a log that is long enough.           *)
LEMMA IntervalFilled ==
    ASSUME NEW origin, NEW limit \in Nat, limit >= 1, NEW n \in Nat \ {0},
           NEW lo \in Nat, NEW hi \in Nat, hi - lo >= Share(limit, n), hi <= MaxOffset,
           limit + MaxOffset < HalfRange
    PROVE  LET i == OffsetInterval(origin, PerPart(limit, n), lo, hi)
           IN  i.end - i.start >= Share(limit, n)
<1> DEFINE k == Share(limit, n)
           pp == PerPart(limit, n)
<1>0. HalfRange \in Nat /\ MaxOffset \in Nat
  BY ResolveAssumption, HalfRangeAssumption DEF ResolveAssumption, HalfRangeAssumption
<1>a. k \in Nat /\ k >= 1 /\ k <= Larger(limit, 1)
  BY Shares
<1>b. pp = ToI64(k)
  BY DEF Share, PerPart
<1>c. hi - lo >= k
  OBVIOUS
<1> HIDE DEF k, pp
<1>d. k <= limit
  BY <1>a DEF Larger
<1>e. /\ k \in (-HalfRange) .. (HalfRange - 1)
      /\ lo + k \in (-HalfRange) .. (HalfRange - 1)
      /\ hi - k \in (-HalfRange) .. (HalfRange - 1)
  BY <1>0, <1>a, <1>c, <1>d
<1>1. pp = k
  BY <1>a, <1>b, <1>e, Casts
<1>2. ToI64(lo + pp) = lo + k /\ ToI64(hi - pp) = hi - k
  <2>1. lo + k \in Int /\ hi - k \in Int
    BY <1>a
  <2> QED BY <1>1, <1>e, <2>1, Casts
<1>3. OffsetInterval(origin, pp, lo, hi).end - OffsetInterval(origin, pp, lo, hi).start >= k
  <2>1. CASE origin = "earliest"
    BY <1>2, <1>a, <1>c, <2>1 DEF OffsetInterval, Smaller
  <2>2. CASE origin # "earliest"
    BY <1>2, <1>a, <1>c, <2>2 DEF OffsetInterval, Larger
  <2> QED BY <2>1, <2>2
<1> QED BY <1>3 DEF k, pp

Planned == UNION {{p} \X Span(plan[p]) : p \in Partitions}

(* Counting a plan whose intervals hold at most, or at least, k offsets.   *)
LEMMA PlanAtMost ==
    ASSUME plan \in [Partitions -> [start : Int, end : Int]], NEW k \in Nat,
           \A p \in Partitions : plan[p].end - plan[p].start <= k
    PROVE  IsFiniteSet(Planned) /\ PlannedTotal <= Cardinality(Partitions) * k
<1> DEFINE slots == Partitions \X (0 .. k - 1)
           f == [x \in Planned |-> <<x[1], x[2] - plan[x[1]].start>>]
<1>1. ASSUME NEW x \in Planned
      PROVE  /\ x = <<x[1], x[2]>> /\ x[1] \in Partitions /\ x[2] \in Int
             /\ plan[x[1]].start \in Int /\ plan[x[1]].end \in Int
             /\ x[2] >= plan[x[1]].start /\ x[2] < plan[x[1]].end
  BY DEF Planned, Span
<1>2. f \in [Planned -> slots]
  <2> SUFFICES ASSUME NEW x \in Planned PROVE <<x[1], x[2] - plan[x[1]].start>> \in slots
    OBVIOUS
  <2>1. plan[x[1]].end - plan[x[1]].start <= k
    BY <1>1
  <2> QED BY <1>1, <2>1
<1>3. ASSUME NEW x \in Planned, NEW y \in Planned, f[x] = f[y] PROVE x = y
  <2>1. x[1] = y[1] /\ x[2] - plan[x[1]].start = y[2] - plan[y[1]].start
    BY <1>3
  <2>2. x[2] = y[2]
    BY <1>1, <2>1
  <2> QED BY <1>1, <2>1, <2>2
<1>4. f \in Injection(Planned, slots)
  <2> HIDE DEF f, slots
  <2> QED BY <1>2, <1>3 DEF Injection, IsInjective
<1>5. IsFiniteSet(0 .. k - 1) /\ Cardinality(0 .. k - 1) = k
  BY FS_Interval
<1>6. IsFiniteSet(slots) /\ Cardinality(slots) = Cardinality(Partitions) * k
  BY <1>5, FS_Product, ResolveAssumption DEF ResolveAssumption
<1> HIDE DEF f, slots
<1> QED BY <1>4, <1>6, FS_Injection DEF PlannedTotal, Planned

LEMMA PlanAtLeast ==
    ASSUME plan \in [Partitions -> [start : Int, end : Int]], NEW k \in Nat,
           \A p \in Partitions : plan[p].end - plan[p].start >= k, IsFiniteSet(Planned)
    PROVE  PlannedTotal >= Cardinality(Partitions) * k
<1> DEFINE slots == Partitions \X (0 .. k - 1)
           f == [x \in slots |-> <<x[1], plan[x[1]].start + x[2]>>]
<1>1. ASSUME NEW x \in slots
      PROVE  /\ x = <<x[1], x[2]>> /\ x[1] \in Partitions /\ x[2] \in 0 .. k - 1
             /\ plan[x[1]].start \in Int /\ plan[x[1]].end \in Int
  OBVIOUS
<1>2. f \in [slots -> Planned]
  <2> SUFFICES ASSUME NEW x \in slots PROVE <<x[1], plan[x[1]].start + x[2]>> \in Planned
    OBVIOUS
  <2>1. plan[x[1]].start + x[2] \in Span(plan[x[1]])
    BY <1>1 DEF Span
  <2> QED BY <1>1, <2>1 DEF Planned
<1>3. ASSUME NEW x \in slots, NEW y \in slots, f[x] = f[y] PROVE x = y
  <2>1. x[1] = y[1] /\ plan[x[1]].start + x[2] = plan[y[1]].start + y[2]
    BY <1>3
  <2>2. x[2] = y[2]
    BY <1>1, <2>1
  <2> QED BY <1>1, <2>1, <2>2
<1>4. f \in Injection(slots, Planned)
  <2> HIDE DEF f, slots
  <2> QED BY <1>2, <1>3 DEF Injection, IsInjective
<1>5. IsFiniteSet(0 .. k - 1) /\ Cardinality(0 .. k - 1) = k
  BY FS_Interval
<1>6. Cardinality(slots) = Cardinality(Partitions) * k
  BY <1>5, FS_Product, ResolveAssumption DEF ResolveAssumption
<1>7. Cardinality(Planned) \in Nat /\ Cardinality(Partitions) * k \in Nat
  BY FS_CardinalityType, ResolveAssumption DEF ResolveAssumption
<1> HIDE DEF f, slots
<1>8. Cardinality(slots) <= Cardinality(Planned)
  BY <1>4, FS_Injection
<1> QED BY <1>6, <1>7, <1>8 DEF PlannedTotal, Planned

(* The intervals of a finished plan of an offset window.                   *)
LEMMA OffsetPlan ==
    ASSUME IndInv, AnswersInv, step = "done", window.kind = "offset"
    PROVE  LET n == Cardinality(Partitions)
           IN  /\ n \in Nat \ {0} /\ window.limit \in Nat
               /\ \A p \in Partitions :
                    LET i == OffsetInterval(window.origin, PerPart(window.limit, n),
                                            marks[p].low, marks[p].high)
                    IN  /\ marks[p].low \in Nat /\ marks[p].high \in Nat
                        /\ marks[p].low <= marks[p].high /\ marks[p].high <= MaxOffset
                        /\ plan[p] = KeepNonEmpty(i)
<1>1. Cardinality(Partitions) \in Nat \ {0}
  BY FS_CardinalityType, FS_EmptySet, ResolveAssumption DEF ResolveAssumption
<1>2. window.limit \in Nat
  BY WindowType DEF IndInv
<1>3. ASSUME NEW p \in Partitions
      PROVE  /\ marks[p].low \in Nat /\ marks[p].high \in Nat
             /\ marks[p].low <= marks[p].high /\ marks[p].high <= MaxOffset
  <2>1. p \in DOMAIN marks /\ High(p) \in Nat /\ MaxOffset \in Nat
    BY HighType, ResolveAssumption, HalfRangeAssumption
       DEF IndInv, AnswersInv, ResolveAssumption, HalfRangeAssumption
  <2> QED BY <2>1 DEF IndInv, MarksInv, RetainedInv
<1>4. \A p \in Partitions :
        plan[p] = KeepNonEmpty(OffsetInterval(window.origin,
                    PerPart(window.limit, Cardinality(Partitions)), marks[p].low, marks[p].high))
  BY DEF AnswersInv, Resolved
<1> QED BY <1>1, <1>2, <1>3, <1>4

(* Every interval of such a plan holds at most a share.                    *)
LEMMA OffsetPlanAtMost ==
    ASSUME IndInv, AnswersInv, step = "done", window.kind = "offset"
    PROVE  \A p \in Partitions :
             plan[p].end - plan[p].start <= Share(window.limit, Cardinality(Partitions))
<1> DEFINE n == Cardinality(Partitions)
           k == Share(window.limit, n)
<1>1. n \in Nat \ {0} /\ window.limit \in Nat /\ k \in Nat
  BY OffsetPlan, Shares
<1> SUFFICES ASSUME NEW p \in Partitions PROVE plan[p].end - plan[p].start <= k
  OBVIOUS
<1> DEFINE i == OffsetInterval(window.origin, PerPart(window.limit, n),
                               marks[p].low, marks[p].high)
<1>2. plan[p] = KeepNonEmpty(i)
  BY OffsetPlan
<1>3. i.start \in Int /\ i.end \in Int /\ i.end - i.start <= k
  BY <1>1, OffsetPlan, IntervalBounded
<1> HIDE DEF i, k
<1> QED BY <1>1, <1>2, <1>3 DEF KeepNonEmpty, Unassigned

(* An offset window plans no more than its limit, or one record for each   *)
(* partition, also where the share overflows its cast.                     *)
THEOREM OffsetWindowsBounded == Spec => []OffsetPlanBounded
<1>1. IndInv /\ AnswersInv => OffsetPlanBounded
  <2> SUFFICES ASSUME IndInv, AnswersInv, step = "done", window.kind = "offset"
               PROVE  PlannedTotal <= Larger(window.limit, Cardinality(Partitions))
    BY DEF OffsetPlanBounded
  <2> DEFINE n == Cardinality(Partitions)
             k == Share(window.limit, n)
  <2>1. n \in Nat \ {0} /\ window.limit \in Nat
    BY OffsetPlan
  <2>2. k \in Nat /\ n * k <= Larger(window.limit, n)
    BY <2>1, Shares
  <2>3. IsFiniteSet(Planned) /\ PlannedTotal <= n * k
    BY <2>2, OffsetPlanAtMost, PlanAtMost DEF IndInv, TypeOK
  <2>4. PlannedTotal \in Nat
    BY <2>3, FS_CardinalityType DEF PlannedTotal, Planned
  <2>5. n * k \in Nat /\ Larger(window.limit, n) \in Nat
    BY <2>1, <2>2 DEF Larger
  <2> HIDE DEF n, k
  <2> QED BY <2>2, <2>3, <2>4, <2>5 DEF n
<1> QED BY <1>1, Answering, PTL

(* Where every partition holds its share, an offset window plans its limit *)
(* up to less than one record for each partition.                          *)
THEOREM OffsetWindowsFilled == Spec => []OffsetPlanFilled
<1>1. IndInv /\ AnswersInv => OffsetPlanFilled
  <2> SUFFICES ASSUME IndInv, AnswersInv, step = "done", window.kind = "offset",
                      window.limit + MaxOffset < HalfRange,
                      \A p \in Partitions :
                        marks[p].high - marks[p].low >= window.limit \div Cardinality(Partitions)
               PROVE  PlannedTotal > window.limit - Cardinality(Partitions)
    BY DEF OffsetPlanFilled
  <2> DEFINE n == Cardinality(Partitions)
             k == Share(window.limit, n)
  <2>1. n \in Nat \ {0} /\ window.limit \in Nat
    BY OffsetPlan
  <2>2. k \in Nat /\ k >= 1 /\ n * k > window.limit - n
    BY <2>1, Shares
  <2>3. IsFiniteSet(Planned)
    BY <2>2, OffsetPlanAtMost, PlanAtMost DEF IndInv, TypeOK
  <2>4. PlannedTotal \in Nat
    BY <2>3, FS_CardinalityType DEF PlannedTotal, Planned
  <2>5. CASE window.limit < n
    <3> HIDE DEF n
    <3> QED BY <2>1, <2>4, <2>5 DEF n
  <2>6. CASE window.limit >= n
    <3>0. window.limit >= 1 /\ k = window.limit \div n
      <4>1. \A m \in Nat \ {0} : window.limit >= m =>
              window.limit >= 1 /\ window.limit \div m >= 1 /\ window.limit \div m \in Int
        BY <2>1
      <4> HIDE DEF n
      <4> QED BY <4>1, <2>1, <2>6 DEF k, Share, Larger
    <3>1. ASSUME NEW p \in Partitions PROVE plan[p].end - plan[p].start >= k
      <4> DEFINE i == OffsetInterval(window.origin, PerPart(window.limit, n),
                                     marks[p].low, marks[p].high)
      <4>1. plan[p] = KeepNonEmpty(i)
        BY OffsetPlan
      <4>2. i.start \in Int /\ i.end \in Int
        BY <2>1, OffsetPlan, IntervalBounded
      <4>3. i.end - i.start >= k
        BY <2>1, <3>0, OffsetPlan, IntervalFilled
      <4> HIDE DEF i, k
      <4> QED BY <2>2, <4>1, <4>2, <4>3 DEF KeepNonEmpty
    <3>2. PlannedTotal >= n * k
      BY <2>2, <2>3, <3>1, PlanAtLeast DEF IndInv, TypeOK
    <3>3. n * k \in Nat
      BY <2>1, <2>2
    <3> HIDE DEF n, k
    <3> QED BY <2>1, <2>2, <2>4, <3>2, <3>3 DEF n
  <2> QED BY <2>1, <2>5, <2>6
<1> QED BY <1>1, Answering, PTL
=============================================================================

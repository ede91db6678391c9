---------------------------- MODULE ConsumeProofs ----------------------------
(***************************************************************************)
(* The safety properties of Consume for every topic, capacity and limit.   *)
(***************************************************************************)
EXTENDS ConsumeInv, FiniteSetTheorems, TLAPS

-----------------------------------------------------------------------------
(* Arithmetic of total_remaining. *)

(* What is to come is finite, so that total_remaining is a number.         *)
LEMMA ToComeFinite ==
    ASSUME NEW rem \in [Partitions -> Nat]
    PROVE  /\ IsFiniteSet(ToCome(rem))
           /\ TotalRemaining(rem) \in Nat
<1> DEFINE Of == {{p} \X (1 .. rem[p]) : p \in Partitions}
           f == [p \in Partitions |-> {p} \X (1 .. rem[p])]
<1>1. f \in Surjection(Partitions, Of)
  BY DEF Surjection
<1>2. IsFiniteSet(Of)
  BY <1>1, FS_Surjection, ConsumeAssumption DEF ConsumeAssumption
<1>3. \A T \in Of : IsFiniteSet(T)
  <2> SUFFICES ASSUME NEW p \in Partitions PROVE IsFiniteSet({p} \X (1 .. rem[p]))
    OBVIOUS
  <2>1. IsFiniteSet({p})
    BY FS_Singleton
  <2>2. IsFiniteSet(1 .. rem[p])
    BY FS_Interval
  <2> QED BY <2>1, <2>2, FS_Product
<1>4. IsFiniteSet(UNION Of)
  BY <1>2, <1>3, FS_UNION
<1> QED BY <1>4, FS_CardinalityType DEF ToCome, TotalRemaining

(* A message of p comes: one fewer to come.                                *)
LEMMA ToComeOneLess ==
    ASSUME NEW rem \in [Partitions -> Nat], NEW p \in Partitions, rem[p] > 0
    PROVE  TotalRemaining([rem EXCEPT ![p] = @ - 1]) = TotalRemaining(rem) - 1
<1> DEFINE less == [rem EXCEPT ![p] = @ - 1]
<1>1. ToCome(less) = ToCome(rem) \ {<<p, rem[p]>>}
  BY DEF ToCome
<1>2. <<p, rem[p]>> \in ToCome(rem)
  BY DEF ToCome
<1> QED BY <1>1, <1>2, ToComeFinite, FS_RemoveElement DEF TotalRemaining

(* A partition is given up: no more to come than before.                   *)
LEMMA ToComeGivenUp ==
    ASSUME NEW rem \in [Partitions -> Nat], NEW p \in Partitions
    PROVE  TotalRemaining([rem EXCEPT ![p] = 0]) <= TotalRemaining(rem)
<1>1. ToCome([rem EXCEPT ![p] = 0]) \subseteq ToCome(rem)
  BY DEF ToCome
<1> QED BY <1>1, ToComeFinite, FS_Subset DEF TotalRemaining

(* Nothing to come means that no partition is waited for.                  *)
LEMMA NothingToCome ==
    ASSUME NEW rem \in [Partitions -> Nat], TotalRemaining(rem) = 0
    PROVE  \A p \in Partitions : rem[p] = 0
<1>1. ToCome(rem) = {}
  BY ToComeFinite, FS_EmptySet DEF TotalRemaining
<1>2. \A p \in Partitions : rem[p] > 0 => <<p, rem[p]>> \in ToCome(rem)
  BY DEF ToCome
<1> QED BY <1>1, <1>2

(* The converse, for the state before the plan is there.                   *)
LEMMA NoneToCome ==
    TotalRemaining([p \in Partitions |-> 0]) = 0
<1>1. ToCome([p \in Partitions |-> 0]) = {}
  BY DEF ToCome
<1> QED BY <1>1, FS_EmptySet DEF TotalRemaining

-----------------------------------------------------------------------------
(* Facts about one step. *)

(* A resolved plan is made of intervals below the watermarks.              *)
LEMMA PlanShape ==
    ASSUME NEW hw \in [Partitions -> Nat], NEW new \in PlansBelow(hw)
    PROVE  /\ new \in [Partitions -> [start : Nat, end : Nat]]
           /\ \A p \in Partitions :
                /\ new[p] = Unassigned \/ new[p].start < new[p].end
                /\ new[p].end <= hw[p]
                /\ PlannedCount(new[p]) \in Nat
<1>1. \A p \in Partitions : new[p] \in IntervalsBelow(hw[p])
  BY DEF PlansBelow
<1>2. \A p \in Partitions :
        /\ new[p] \in [start : Nat, end : Nat]
        /\ new[p] = Unassigned \/ new[p].start < new[p].end
        /\ new[p].end <= hw[p]
  BY <1>1 DEF IntervalsBelow, Unassigned
<1>3. new \in [Partitions -> [start : Nat, end : Nat]]
  BY <1>2 DEF PlansBelow
<1>4. \A p \in Partitions : PlannedCount(new[p]) \in Nat
  BY <1>2, <1>3 DEF PlannedCount, Unassigned
<1> QED BY <1>2, <1>3, <1>4

(* Every variable keeps its type.                                          *)
LEMMA TypeStep == IndInv /\ [Next]_vars => TypeOK'
<1> SUFFICES ASSUME IndInv, [Next]_vars PROVE TypeOK'
  OBVIOUS
<1> USE DEF topic, args, task, chan, offsets
<1>0. TypeOK
  BY DEF IndInv
<1>1. ASSUME NEW p \in Partitions, Append1(p) PROVE TypeOK'
  BY <1>0, <1>1 DEF TypeOK, Append1
<1>2. ASSUME NEW p \in Partitions, NEW o \in log[p], Remove(p, o) PROVE TypeOK'
  BY <1>0, <1>2 DEF TypeOK, Remove
<1>3. CASE ResolvePlan
  <2>1. plan' \in [Partitions -> [start : Nat, end : Nat]]
    BY <1>0, <1>3, PlanShape DEF TypeOK, ResolvePlan
  <2>2. remaining' \in [Partitions -> Nat]
    BY <1>0, <1>3, PlanShape DEF TypeOK, ResolvePlan
  <2>3. pos' \in [Partitions -> Nat]
    BY <2>1, <1>3 DEF ResolvePlan
  <2>4. left' \in Nat
    BY <2>2, <1>0, <1>3, ToComeFinite DEF ResolvePlan, Quota, TypeOK
  <2> QED BY <2>1, <2>2, <2>3, <2>4, <1>0, <1>3 DEF TypeOK, ResolvePlan
<1>4. CASE ResolveFails
  BY <1>0, <1>4 DEF TypeOK, ResolveFails
<1>5. ASSUME NEW p \in Partitions, NEW o \in log[p], Skip(p, o) \/ ReachEnd(p, o) \/ Take(p, o)
      PROVE  TypeOK'
  <2>1. o \in Nat
    BY <1>0 DEF TypeOK
  <2>2. Polls(p, o)
    BY <1>5 DEF Skip, ReachEnd, Take
  <2>3. /\ pos' \in [Partitions -> Nat]
        /\ stored' \in [Partitions -> Nat]
    BY <2>1, <2>2, <1>0 DEF Polls, TypeOK
  <2>4. CASE Skip(p, o)
    BY <2>3, <2>4, <1>0 DEF TypeOK, Skip
  <2>5. CASE ReachEnd(p, o)
    BY <2>3, <2>5, <1>0 DEF TypeOK, ReachEnd
  <2>6. CASE Take(p, o)
    BY <2>1, <2>3, <2>6, <1>0 DEF TypeOK, Take, Record
  <2> QED BY <1>5, <2>4, <2>5, <2>6
<1>6. CASE Send
  <2> PICK r \in inflight : r \in Record /\ remaining[r.partition] > 0 /\ left > 0
                            /\ inflight = {r}
    BY <1>0, <1>6 DEF IndInv, InflightInv, TypeOK, Send
  <2>1. /\ sent' = Append(sent, r)
        /\ remaining' = [remaining EXCEPT ![r.partition] = @ - 1]
    BY <1>6 DEF Send
  <2>2. r.partition \in Partitions
    BY DEF Record
  <2>3. remaining' \in [Partitions -> Nat]
    BY <2>1, <2>2, <1>0 DEF TypeOK
  <2>4. sent' \in Seq(Record) /\ Len(sent') = Len(sent) + 1
    BY <2>1, <1>0 DEF TypeOK
  <2> QED BY <2>3, <2>4, <1>0, <1>6 DEF TypeOK, Send
<1>7. CASE SinkClosed
  BY <1>0, <1>7 DEF TypeOK, SinkClosed, ReturnOk
<1>8. CASE Finish
  BY <1>0, <1>8 DEF TypeOK, Finish, ReturnOk
<1>9. CASE PollFails
  BY <1>0, <1>9 DEF TypeOK, PollFails
<1>10. CASE AutoCommit
  BY <1>0, <1>10 DEF TypeOK, AutoCommit
<1>11. CASE Receive
  BY <1>0, <1>11 DEF TypeOK, Receive
<1>12. CASE Drained
  BY <1>0, <1>12 DEF TypeOK, Drained
<1>13. CASE OutputFails
  BY <1>0, <1>13 DEF TypeOK, OutputFails
<1>14. CASE Cancelled
  BY <1>0, <1>14 DEF TypeOK, Cancelled
<1>15. CASE Join
  BY <1>0, <1>15 DEF TypeOK, Join
<1>16. CASE UNCHANGED vars
  BY <1>0, <1>16 DEF TypeOK, vars
<1> QED
  BY <1>1, <1>2, <1>3, <1>4, <1>5, <1>6, <1>7, <1>8, <1>9, <1>10, <1>11, <1>12,
     <1>13, <1>14, <1>15, <1>16
     DEF Next, Topic, Deliver, Task, Command, Terminating

(* Which steps change what.                                                *)
LEMMA Frames ==
    ASSUME [Next]_vars
    PROVE  /\ \/ \E p \in Partitions : Append1(p)
              \/ \E p \in Partitions : \E o \in log[p] : Remove(p, o)
              \/ UNCHANGED topic
           /\ \/ ResolvePlan
              \/ \E p \in Partitions : \E o \in log[p] :
                    Skip(p, o) \/ ReachEnd(p, o) \/ Take(p, o)
              \/ Send \/ SinkClosed
              \/ UNCHANGED <<plan, pos, remaining, left, inflight, sent, stored>>
           /\ UNCHANGED <<mode, cap, group>>
<1> USE DEF topic, args, task, chan, offsets
<1>1. CASE Topic
  BY <1>1 DEF Topic, Append1, Remove
<1>2. CASE Task
  BY <1>2 DEF Task, Deliver, ResolvePlan, ResolveFails, Skip, ReachEnd, Take, Send,
              SinkClosed, Finish, PollFails, AutoCommit
<1>3. CASE Command
  BY <1>3 DEF Command, Receive, Drained, OutputFails, Cancelled, Join
<1>4. CASE UNCHANGED vars
  BY <1>4 DEF vars
<1> QED BY <1>1, <1>2, <1>3, <1>4 DEF Next, Terminating

(* Only the resolution sets the plan.                                      *)
LEMMA PlanFrame ==
    ASSUME [Next]_vars, ~ResolvePlan
    PROVE  UNCHANGED plan
BY Frames DEF Skip, ReachEnd, Take, Send, SinkClosed

LEMMA TopicStep == IndInv /\ [Next]_vars => TopicInv'
<1> SUFFICES ASSUME IndInv, [Next]_vars PROVE TopicInv'
  OBVIOUS
<1> USE DEF topic, args, task, chan, offsets
<1>0. TypeOK /\ TopicInv
  BY DEF IndInv
<1>1. ASSUME NEW p \in Partitions, Append1(p) PROVE TopicInv'
  <2>1. /\ high[p] \in Nat
        /\ high'[p] = high[p] + 1
        /\ log'[p] = log[p] \cup {high[p]}
        /\ \A q \in Partitions \ {p} : high'[q] = high[q] /\ log'[q] = log[q]
        /\ plan' = plan
    BY <1>0, <1>1 DEF TypeOK, Append1
  <2>2. (0 .. (high[p] - 1)) \cup {high[p]} = 0 .. (high'[p] - 1)
    BY <2>1
  <2>3. /\ log'[p] \subseteq 0 .. (high'[p] - 1)
        /\ ~Gaps => log'[p] = 0 .. (high'[p] - 1)
    BY <2>1, <2>2, <1>0 DEF TopicInv
  <2>4. plan[p].end <= high'[p]
    BY <2>1, <1>0 DEF TopicInv, TypeOK
  <2> QED BY <2>1, <2>3, <2>4, <1>0 DEF TopicInv
<1>2. ASSUME NEW p \in Partitions, NEW o \in log[p], Remove(p, o) PROVE TopicInv'
  BY <1>0, <1>2 DEF TypeOK, TopicInv, Remove
<1>3. CASE ResolvePlan
  BY <1>0, <1>3, PlanShape DEF TypeOK, TopicInv, ResolvePlan
<1>4. CASE ~ResolvePlan /\ UNCHANGED topic
  BY <1>0, <1>4, PlanFrame DEF TopicInv
<1> QED BY <1>1, <1>2, <1>3, <1>4, Frames

(* A record that is delivered lies at the fetch position or beyond it, and *)
(* nothing that still exists lies between.                                 *)
LEMMA PollFacts ==
    ASSUME IndInv, NEW p \in Partitions, NEW o \in log[p], Polls(p, o)
    PROVE  /\ o \in Nat /\ pos[p] <= o
           /\ \A q \in log[p] : q < o => q < pos[p]
           /\ pos' = [pos EXCEPT ![p] = o + 1]
           /\ pc = "poll" /\ inflight = {}
           /\ One(p) = 0
           /\ left > 0
<1>1. o \in Nat /\ \A q \in Partitions : pos[q] \in Nat
  BY DEF IndInv, TypeOK
<1>2. inflight = {}
  BY DEF Polls, IndInv, InflightInv
<1> QED BY <1>1, <1>2 DEF Polls, Delivers, Continues, One

-----------------------------------------------------------------------------
(* Every part of the inductive invariant survives a step. *)

LEMMA StartStep == IndInv /\ [Next]_vars => StartInv'
<1> SUFFICES ASSUME IndInv, [Next]_vars, pc' = "resolve"
             PROVE  StartInv'
  BY DEF StartInv
<1> USE DEF topic, args, task, chan, offsets
<1>0. TypeOK /\ StartInv
  BY DEF IndInv
<1>1. pc = "resolve" /\ ~ResolvePlan
  BY Frames DEF Next, Topic, Task, Command, Deliver, Terminating, vars, Append1, Remove,
     ResolvePlan, ResolveFails, Skip, ReachEnd, Take, Polls, Send, SinkClosed, Finish,
     ReturnOk, PollFails, AutoCommit, Receive, Drained, OutputFails, Cancelled, Join
<1>2. sent = <<>> /\ cmd = "receiving" /\ taken = 0
  BY <1>0, <1>1 DEF StartInv, TypeOK
<1>3. UNCHANGED <<plan, sent, stored>>
  BY <1>1, Frames DEF Skip, ReachEnd, Take, Polls, Send, SinkClosed
<1>4. cmd' = "receiving"
  BY <1>1, <1>2 DEF Next, Topic, Task, Command, Deliver, Terminating, vars, Append1, Remove,
     ResolveFails, Skip, ReachEnd, Take, Polls, Send, SinkClosed, Finish, Running,
     PollFails, AutoCommit, Receive, Drained, OutputFails, Cancelled, Join
<1> QED BY <1>0, <1>1, <1>2, <1>3, <1>4 DEF StartInv

LEMMA InflightStep == IndInv /\ [Next]_vars => InflightInv'
<1> SUFFICES ASSUME IndInv, [Next]_vars PROVE InflightInv'
  OBVIOUS
<1> USE DEF topic, args, task, chan, offsets
<1>0. TypeOK /\ InflightInv
  BY DEF IndInv
<1>1. CASE UNCHANGED <<inflight, remaining, left>> /\ (pc' = pc \/ inflight = {})
  <2>1. inflight = {} => pc' # "send"
    BY <1>0, <1>1 DEF InflightInv, Next, Topic, Task, Command, Deliver, Terminating, vars,
       Append1, Remove, ResolvePlan, ResolveFails, Skip, ReachEnd, Take, Send, SinkClosed,
       Finish, ReturnOk, PollFails, AutoCommit, Receive, Drained, OutputFails, Cancelled, Join
  <2> QED BY <2>1, <1>0, <1>1 DEF InflightInv
<1>2. CASE Cancelled
  BY <1>0, <1>2 DEF Cancelled, InflightInv
<1>3. ASSUME NEW p \in Partitions, NEW o \in log[p], Take(p, o) PROVE InflightInv'
  <2>1. Polls(p, o)
    BY <1>3 DEF Take
  <2> QED BY <2>1, <1>3, PollFacts DEF Take, InflightInv
<1>4. ASSUME NEW p \in Partitions, NEW o \in log[p], ReachEnd(p, o) PROVE InflightInv'
  <2>1. Polls(p, o)
    BY <1>4 DEF ReachEnd
  <2> QED BY <2>1, <1>4, PollFacts DEF ReachEnd, InflightInv
<1>5. CASE Send \/ SinkClosed
  BY <1>5 DEF Send, SinkClosed, ReturnOk, InflightInv
<1>6. CASE ResolvePlan
  BY <1>0, <1>6 DEF ResolvePlan, InflightInv
<1>7. CASE ResolveFails \/ Finish \/ PollFails
  BY <1>0, <1>1, <1>7 DEF ResolveFails, Finish, PollFails, InflightInv
<1>8. CASE UNCHANGED task
  BY <1>1, <1>8
<1>9. ASSUME NEW p \in Partitions, NEW o \in log[p], Skip(p, o) PROVE InflightInv'
  BY <1>1, <1>9 DEF Skip
<1>10. CASE Topic \/ AutoCommit \/ Receive \/ Drained \/ OutputFails \/ Join \/ UNCHANGED vars
  BY <1>8, <1>10 DEF Topic, Append1, Remove, AutoCommit, Receive, Drained, OutputFails, Join, vars
<1> QED
  BY <1>2, <1>3, <1>4, <1>5, <1>6, <1>7, <1>9, <1>10
     DEF Next, Deliver, Task, Command, Terminating

(* Every element of sent is a record of a partition.                       *)
LEMMA SentFacts ==
    ASSUME TypeOK
    PROVE  /\ Len(sent) \in Nat
           /\ DOMAIN sent = 1 .. Len(sent)
           /\ \A i \in DOMAIN sent :
                /\ sent[i] \in Record
                /\ sent[i].partition \in Partitions
                /\ sent[i].offset \in Nat
<1>1. sent \in Seq(Record)
  BY DEF TypeOK
<1>2. Len(sent) \in Nat /\ DOMAIN sent = 1 .. Len(sent)
  BY <1>1
<1>3. \A i \in DOMAIN sent : sent[i] \in Record
  BY <1>1
<1>4. \A r \in Record : r.partition \in Partitions /\ r.offset \in Nat
  BY DEF Record
<1> QED BY <1>2, <1>3, <1>4

(* What sending does to the sequence.                                      *)
LEMMA SendFacts ==
    ASSUME TypeOK, NEW r \in Record, sent' = Append(sent, r)
    PROVE  /\ Len(sent') = Len(sent) + 1
           /\ DOMAIN sent' = 1 .. Len(sent')
           /\ \A i \in DOMAIN sent' :
                \/ i \in DOMAIN sent /\ sent'[i] = sent[i]
                \/ i = Len(sent) + 1 /\ sent'[i] = r
           /\ \A i \in DOMAIN sent : i \in DOMAIN sent' /\ sent'[i] = sent[i]
           /\ Len(sent) + 1 \in DOMAIN sent' /\ sent'[Len(sent) + 1] = r
<1>1. sent \in Seq(Record)
  BY DEF TypeOK
<1> QED BY <1>1

LEMMA HandedStep == IndInv /\ [Next]_vars => HandedInv'
<1> SUFFICES ASSUME IndInv, [Next]_vars PROVE HandedInv'
  OBVIOUS
<1> USE DEF topic, args, task, chan, offsets
<1>0. TypeOK /\ HandedInv /\ TypeOK'
  BY TypeStep DEF IndInv
<1>1. CASE UNCHANGED <<plan, pos, remaining, left, inflight, sent, stored>>
  BY <1>0, <1>1 DEF HandedInv
<1>2. CASE ResolvePlan
  <2>1. sent' = <<>> /\ inflight' = {}
    BY <1>2 DEF ResolvePlan, IndInv, StartInv, InflightInv
  <2> QED BY <2>1 DEF HandedInv
<1>3. ASSUME NEW p \in Partitions, NEW o \in log[p], Polls(p, o),
             \/ inflight' = {}
             \/ inflight' = {[partition |-> p, offset |-> o]} /\ ~PastEnd(p, o),
             UNCHANGED <<plan, sent>>
      PROVE  HandedInv'
  <2>1. /\ pos[p] <= o /\ o \in Nat
        /\ pos' = [pos EXCEPT ![p] = o + 1]
    BY <1>3, PollFacts
  <2>a. pos \in [Partitions -> Nat] /\ plan \in [Partitions -> [start : Nat, end : Nat]]
    BY <1>0 DEF TypeOK
  <2>2. \A q \in Partitions : pos[q] <= pos'[q] /\ pos[q] \in Nat /\ pos'[q] \in Nat
    BY <2>1, <2>a
  <2>3. \A i \in DOMAIN sent : /\ sent[i].partition \in Partitions
                               /\ sent[i].offset \in Nat
    BY <1>0, SentFacts
  <2>4. ASSUME NEW i \in DOMAIN sent, sent[i].partition = p PROVE sent[i].offset < o
    BY <2>1, <2>2, <2>3, <2>4, <1>0 DEF HandedInv
  <2>5. plan[p].start <= o
    BY <2>1, <2>2, <2>a DEF IndInv, ProgressInv
  <2>6. inflight' # {} => o \in Span(plan[p])
    BY <2>1, <2>5, <2>a, <1>3 DEF PastEnd, Span
  <2>7. \A i \in DOMAIN sent : sent[i].offset < pos'[sent[i].partition]
    BY <2>2, <2>3, <1>0 DEF HandedInv
  <2>8. \A r \in inflight' : r.partition = p /\ r.offset = o
    BY <1>3
  <2>9. pos'[p] = o + 1
    BY <2>1, <1>0 DEF TypeOK
  <2> QED BY <2>1, <2>4, <2>6, <2>7, <2>8, <2>9, <1>3, <1>0 DEF HandedInv
<1>4. ASSUME NEW p \in Partitions, NEW o \in log[p], Skip(p, o) \/ ReachEnd(p, o) \/ Take(p, o)
      PROVE  HandedInv'
  <2>1. Polls(p, o)
    BY <1>4 DEF Skip, ReachEnd, Take
  <2>2. /\ UNCHANGED <<plan, sent>>
        /\ \/ inflight' = {}
           \/ inflight' = {[partition |-> p, offset |-> o]} /\ ~PastEnd(p, o)
    BY <2>1, <1>4, PollFacts DEF Skip, ReachEnd, Take
  <2> QED BY <2>1, <2>2, <1>3
<1>5. CASE Send
  <2> PICK r \in inflight : r \in Record /\ inflight = {r}
    BY <1>0, <1>5 DEF IndInv, InflightInv, TypeOK, Send
  <2>1. sent' = Append(sent, r) /\ inflight' = {} /\ UNCHANGED <<plan, pos>>
    BY <1>5 DEF Send
  <2>2. \A i \in DOMAIN sent' : (i \in DOMAIN sent /\ sent'[i] = sent[i]) \/ sent'[i] = r
    BY <2>1, <1>0, SendFacts
  <2> QED BY <2>1, <2>2, <1>0 DEF HandedInv
<1>6. CASE SinkClosed
  BY <1>0, <1>6 DEF SinkClosed, HandedInv
<1> QED BY <1>1, <1>2, <1>4, <1>5, <1>6, Frames

LEMMA OrderStep == IndInv /\ [Next]_vars => SentInOrder'
<1> SUFFICES ASSUME IndInv, [Next]_vars PROVE SentInOrder'
  OBVIOUS
<1> USE DEF topic, args, task, chan, offsets
<1>0. TypeOK /\ SentInOrder /\ HandedInv
  BY DEF IndInv
<1>1. CASE Send
  <2> PICK r \in inflight : r \in Record /\ inflight = {r}
    BY <1>0, <1>1 DEF IndInv, InflightInv, TypeOK, Send
  <2>1. sent' = Append(sent, r)
    BY <1>1 DEF Send
  <2>2. \A i \in DOMAIN sent' :
          \/ i \in DOMAIN sent /\ sent'[i] = sent[i]
          \/ i = Len(sent) + 1 /\ sent'[i] = r
    BY <2>1, <1>0, SendFacts
  <2>3. DOMAIN sent = 1 .. Len(sent) /\ Len(sent) \in Nat
    BY <1>0, SentFacts
  <2>4. \A i \in DOMAIN sent : r.partition = sent[i].partition => sent[i].offset < r.offset
    BY <1>0 DEF HandedInv
  <2> QED BY <2>2, <2>3, <2>4, <1>0 DEF SentInOrder
<1>2. CASE ~Send
  <2>1. sent' = sent
    BY <1>2, Frames DEF ResolvePlan, Skip, ReachEnd, Take, SinkClosed
  <2> QED BY <2>1, <1>0 DEF SentInOrder
<1> QED BY <1>1, <1>2

(* Without gaps, what a fetch yields of an expected partition is the very  *)
(* next offset.                                                            *)
LEMMA NextOffset ==
    ASSUME IndInv, ~Gaps, NEW p \in Partitions, NEW o \in log[p], Polls(p, o),
           remaining[p] > 0
    PROVE  o = pos[p]
<1>1. /\ pos[p] \in Nat /\ remaining[p] \in Nat /\ plan[p].end \in Nat /\ high[p] \in Nat
      /\ o \in Nat /\ pos[p] <= o
  BY PollFacts DEF IndInv, TypeOK
<1>2. pos[p] + remaining[p] = plan[p].end
  BY <1>1, PollFacts DEF IndInv, ProgressInv
<1>3. pos[p] < high[p]
  BY <1>1, <1>2 DEF IndInv, TopicInv
<1>4. pos[p] \in log[p]
  BY <1>1, <1>3 DEF IndInv, TopicInv
<1> QED BY <1>1, <1>4, PollFacts

LEMMA ProgressStep == IndInv /\ [Next]_vars => ProgressInv'
<1> SUFFICES ASSUME IndInv, [Next]_vars PROVE ProgressInv'
  OBVIOUS
<1> USE DEF topic, args, task, chan, offsets
<1>0. TypeOK /\ ProgressInv
  BY DEF IndInv
<1>a. /\ pos \in [Partitions -> Nat] /\ remaining \in [Partitions -> Nat]
      /\ plan \in [Partitions -> [start : Nat, end : Nat]]
  BY <1>0 DEF TypeOK
<1>b. \A q \in Partitions : pos[q] \in Nat /\ remaining[q] \in Nat
                            /\ plan[q].start \in Nat /\ plan[q].end \in Nat
  BY <1>a
<1>1. CASE UNCHANGED <<plan, pos, remaining, left, inflight, sent, stored>>
  <2>1. pc' \in {"poll", "send"} => pc \in {"poll", "send"} \/ ResolvePlan
    BY <1>1 DEF Next, Topic, Task, Command, Deliver, Terminating, vars, Append1, Remove,
       ResolvePlan, ResolveFails, Skip, ReachEnd, Take, Polls, Send, SinkClosed, Finish,
       ReturnOk, PollFails, AutoCommit, Receive, Drained, OutputFails, Cancelled, Join
  <2>2. ResolvePlan => \A p \in Partitions : remaining[p] = PlannedCount(plan[p]) /\ pos[p] = plan[p].start
    BY <1>0, <1>1, PlanShape DEF ResolvePlan, TypeOK
  <2>3. ResolvePlan => inflight = {}
    BY DEF ResolvePlan, IndInv, InflightInv
  <2> QED BY <2>1, <2>2, <2>3, <1>b, <1>0, <1>1 DEF ProgressInv, One, PlannedCount
<1>2. CASE ResolvePlan
  <2>1. inflight' = {}
    BY <1>2 DEF ResolvePlan, IndInv, InflightInv
  <2>2. \A p \in Partitions :
          /\ plan'[p].start \in Nat /\ plan'[p].end \in Nat
          /\ pos'[p] = plan'[p].start
          /\ remaining'[p] = plan'[p].end - plan'[p].start
    BY <1>0, <1>2, PlanShape DEF ResolvePlan, TypeOK, PlannedCount
  <2> QED BY <2>1, <2>2 DEF ProgressInv, One
<1>3. ASSUME NEW p \in Partitions, NEW o \in log[p], Skip(p, o) \/ ReachEnd(p, o) \/ Take(p, o)
      PROVE  ProgressInv'
  <2>1. Polls(p, o)
    BY <1>3 DEF Skip, ReachEnd, Take
  <2>2. /\ o \in Nat /\ pos[p] <= o
        /\ pos' = [pos EXCEPT ![p] = o + 1]
        /\ pc = "poll" /\ inflight = {}
    BY <2>1, PollFacts
  <2>3. \A q \in Partitions : One(q) = 0
    BY <2>2 DEF One
  <2>4. /\ pos'[p] = o + 1
        /\ \A q \in Partitions \ {p} : pos'[q] = pos[q]
        /\ plan' = plan
    BY <2>2, <1>a, <1>3 DEF Skip, ReachEnd, Take
  <2>5. CASE Skip(p, o)
    <3>1. remaining' = remaining /\ remaining[p] = 0 /\ inflight' = {} /\ pc' = pc
      BY <2>2, <2>5, <1>b DEF Skip
    <3> QED BY <3>1, <2>2, <2>3, <2>4, <1>0, <1>b DEF ProgressInv, One
  <2>6. CASE ReachEnd(p, o)
    <3>1. /\ remaining'[p] = 0 /\ \A q \in Partitions \ {p} : remaining'[q] = remaining[q]
          /\ inflight' = {} /\ pc' = pc /\ plan[p].end <= o
      BY <2>2, <2>6, <1>a, <1>b DEF ReachEnd, PastEnd
    <3> QED BY <3>1, <2>2, <2>3, <2>4, <1>0, <1>b DEF ProgressInv, One
  <2>7. CASE Take(p, o)
    <3>1. /\ remaining' = remaining /\ remaining[p] > 0
          /\ inflight' = {[partition |-> p, offset |-> o]}
      BY <2>7 DEF Take
    <3>2. One(p)' = 1 /\ \A q \in Partitions \ {p} : One(q)' = 0
      BY <3>1 DEF One
    <3>3. ~Gaps => o = pos[p]
      BY <2>1, <3>1, NextOffset
    <3>4. ASSUME NEW q \in Partitions \ {p}
          PROVE  /\ plan'[q].start <= pos'[q]
                 /\ pos'[q] + remaining'[q] >= plan'[q].end + One(q)'
                 /\ ~Gaps /\ remaining'[q] > 0 => pos'[q] + remaining'[q] = plan'[q].end + One(q)'
      <4>1. One(q)' = 0 /\ One(q) = 0
        BY <3>2, <2>3
      <4> QED BY <4>1, <3>1, <2>2, <2>4, <1>0, <1>b DEF ProgressInv
    <3>5. /\ plan'[p].start <= pos'[p]
          /\ pos'[p] + remaining'[p] >= plan'[p].end + One(p)'
          /\ ~Gaps => pos'[p] + remaining'[p] = plan'[p].end + One(p)'
      <4>1. One(p)' = 1 /\ One(p) = 0
        BY <3>2, <2>3
      <4> QED BY <4>1, <3>1, <3>3, <2>2, <2>4, <1>0, <1>b DEF ProgressInv
    <3> QED BY <3>4, <3>5 DEF ProgressInv
  <2> QED BY <1>3, <2>5, <2>6, <2>7
<1>4. CASE Send
  <2> PICK r \in inflight : r \in Record /\ inflight = {r} /\ remaining[r.partition] > 0
    BY <1>0, <1>4 DEF IndInv, InflightInv, TypeOK, Send
  <2>1. r.partition \in Partitions
    BY DEF Record
  <2>2. /\ remaining' = [remaining EXCEPT ![r.partition] = @ - 1]
        /\ inflight' = {} /\ pc = "send" /\ UNCHANGED <<plan, pos>>
    BY <1>4 DEF Send
  <2>3. /\ remaining'[r.partition] = remaining[r.partition] - 1
        /\ \A q \in Partitions \ {r.partition} : remaining'[q] = remaining[q]
    BY <2>1, <2>2, <1>a
  <2>4. \A q \in Partitions : One(q)' = 0 /\ One(q) = IF q = r.partition THEN 1 ELSE 0
    BY <2>2 DEF One
  <2> QED BY <2>1, <2>2, <2>3, <2>4, <1>0, <1>b DEF ProgressInv
<1>5. CASE SinkClosed
  <2>1. inflight' = {} /\ UNCHANGED <<plan, pos, remaining>> /\ pc' = "ok"
    BY <1>5 DEF SinkClosed, ReturnOk
  <2>2. \A q \in Partitions : One(q)' = 0 /\ One(q) \in {0, 1}
    BY <2>1 DEF One
  <2> QED BY <2>1, <2>2, <1>0, <1>b DEF ProgressInv
<1> QED BY <1>1, <1>2, <1>3, <1>4, <1>5, Frames

(* While a record waits to be sent, only a sample whose output has failed  *)
(* can have left the channel: schema stops listening when it has received  *)
(* its cap, and then no record is left to send.                            *)
LEMMA StillListening == IndInv => NobodyHangsUp
<1> SUFFICES ASSUME IndInv, pc = "send" PROVE cmd \in {"receiving", "panicked"}
  BY DEF NobodyHangsUp
<1>1. /\ cmd \in {"receiving", "joining", "ok", "failed", "empty", "panicked"}
      /\ Len(sent) \in Nat /\ taken \in 0 .. Len(sent) /\ left \in Nat /\ cap \in Nat
  BY SentFacts DEF IndInv, TypeOK
<1>2. left > 0
  BY DEF IndInv, InflightInv
<1>3. Running
  BY DEF Running
<1>4. cmd \notin {"ok", "failed", "empty"}
  BY <1>3 DEF IndInv, CommandInv
<1>5. ASSUME cmd = "joining" PROVE FALSE
  <2>1. mode = "schema" /\ taken >= cap
    BY <1>3, <1>5 DEF IndInv, CommandInv
  <2>2. left + Len(sent) <= cap
    BY <2>1 DEF IndInv, QuotaInv
  <2> QED BY <2>1, <2>2, <1>1, <1>2
<1> QED BY <1>1, <1>4, <1>5

(* A command that has panicked stays so.                                   *)
LEMMA StaysPanicked == [Next]_vars /\ cmd = "panicked" => cmd' = "panicked"
BY DEF Next, Topic, Task, Command, Deliver, Terminating, vars, Append1, Remove, ResolvePlan,
   ResolveFails, Skip, ReachEnd, Take, Send, SinkClosed, Finish, PollFails, AutoCommit,
   Receive, Drained, OutputFails, Cancelled, Join

(* A task that has returned has returned for good.                         *)
LEMMA StaysOk == [Next]_vars /\ pc = "ok" => pc' = "ok"
BY DEF Next, Topic, Task, Command, Deliver, Terminating, vars, topic, args, task, chan, offsets,
   Append1, Remove, ResolvePlan, ResolveFails, Polls, Skip, ReachEnd, Take, Send, SinkClosed,
   Finish, ReturnOk, PollFails, AutoCommit, Receive, Drained, OutputFails, Cancelled, Join, Running

(* Membership in Passed, spelled out.                                      *)
LEMMA PassedElement ==
    ASSUME NEW p \in Partitions, NEW o
    PROVE  [partition |-> p, offset |-> o] \in Passed
             <=> o \in log[p] \cap Span(plan[p]) /\ o < pos[p]
<1> DEFINE r == [partition |-> p, offset |-> o]
<1>1. r.partition = p /\ r.offset = o
  OBVIOUS
<1>2. ASSUME o \in log[p] \cap Span(plan[p]) PROVE r \in WindowRecords
  BY <1>2 DEF WindowRecords
<1>3. ASSUME r \in WindowRecords PROVE o \in log[p] \cap Span(plan[p])
  <2>1. PICK q \in Partitions : \E x \in log[q] \cap Span(plan[q]) :
          r = [partition |-> q, offset |-> x]
    BY <1>3 DEF WindowRecords
  <2>2. PICK x \in log[q] \cap Span(plan[q]) : r = [partition |-> q, offset |-> x]
    BY <2>1
  <2>3. q = p /\ x = o
    BY <2>2
  <2> QED BY <2>3
<1> QED BY <1>1, <1>2, <1>3 DEF Passed

(* While the task polls or sends, all that was passed was handed over.     *)
LEMMA PassedWhileReading ==
    ASSUME PassedInv, pc # "ok" \/ cmd # "panicked", NEW p \in Partitions,
           NEW o \in log[p] \cap Span(plan[p]), o < pos[p]
    PROVE  [partition |-> p, offset |-> o] \in HandedOver
BY PassedElement DEF PassedInv

LEMMA PassedStep == IndInv /\ [Next]_vars => PassedInv'
<1> SUFFICES ASSUME IndInv, [Next]_vars PROVE PassedInv'
  OBVIOUS
<1> USE DEF topic, args, task, chan, offsets
<1>0. TypeOK /\ PassedInv /\ TypeOK'
  BY TypeStep DEF IndInv
<1>1. ASSUME NEW x \in Passed'
      PROVE  \E p \in Partitions : \E o \in log'[p] \cap Span(plan'[p]) :
                x = [partition |-> p, offset |-> o] /\ o < pos'[p]
  <2>0. PICK p \in Partitions : \E o \in log'[p] \cap Span(plan'[p]) :
          x = [partition |-> p, offset |-> o]
    BY <1>1 DEF Passed, WindowRecords
  <2>1. PICK o \in log'[p] \cap Span(plan'[p]) : x = [partition |-> p, offset |-> o]
    BY <2>0
  <2>2. x.offset < pos'[x.partition]
    BY <1>1 DEF Passed
  <2>3. o < pos'[p]
    BY <2>1, <2>2
  <2> QED BY <2>1, <2>3
<1>2. ASSUME ~ResolvePlan, NEW p \in Partitions, NEW o \in log'[p] \cap Span(plan'[p])
      PROVE  o \in log[p] \cap Span(plan[p]) /\ o \in Nat
  <2>a. /\ plan \in [Partitions -> [start : Nat, end : Nat]] /\ high \in [Partitions -> Nat]
        /\ log \in [Partitions -> SUBSET Nat] /\ o \in Nat
    BY <1>0 DEF TypeOK
  <2>b. plan[p].start \in Nat /\ plan[p].end \in Nat /\ high[p] \in Nat
    BY <2>a
  <2>1. o \in Span(plan[p])
    BY <1>2, PlanFrame
  <2>2. o < plan[p].end
    BY <2>1, <2>a, <2>b DEF Span
  <2>3. plan[p].end <= high[p]
    BY DEF IndInv, TopicInv
  <2>4. ASSUME NEW q \in Partitions, Append1(q) PROVE o \in log[p]
    <3>1. log'[p] \subseteq log[p] \cup {high[p]}
      BY <2>4, <2>a DEF Append1
    <3> QED BY <3>1, <2>2, <2>3, <2>a, <2>b
  <2>5. ASSUME NEW q \in Partitions, NEW r \in log[q], Remove(q, r) PROVE o \in log[p]
    BY <2>5, <2>a DEF Remove
  <2> QED BY <2>1, <2>4, <2>5, <2>a, Frames
<1>3. ASSUME ~ResolvePlan, pos' = pos PROVE Passed' \subseteq Passed
  <2> SUFFICES ASSUME NEW x \in Passed' PROVE x \in Passed
    OBVIOUS
  <2>0. PICK p \in Partitions : \E o \in log'[p] \cap Span(plan'[p]) :
          x = [partition |-> p, offset |-> o] /\ o < pos'[p]
    BY <1>1
  <2>1. PICK o \in log'[p] \cap Span(plan'[p]) : x = [partition |-> p, offset |-> o] /\ o < pos'[p]
    BY <2>0
  <2>2. o \in log[p] \cap Span(plan[p]) /\ o < pos[p]
    BY <2>1, <1>2, <1>3
  <2> QED BY <2>1, <2>2, PassedElement
<1>4. CASE ResolvePlan
  <2> SUFFICES ASSUME NEW x \in Passed' PROVE FALSE
    BY DEF PassedInv
  <2>0. PICK p \in Partitions : \E o \in log'[p] \cap Span(plan'[p]) : o < pos'[p]
    BY <1>1
  <2>1. PICK o \in log'[p] \cap Span(plan'[p]) : o < pos'[p]
    BY <2>0
  <2>2. pos'[p] = plan'[p].start
    BY <1>4 DEF ResolvePlan
  <2>3. plan'[p].start \in Nat /\ plan'[p].end \in Nat
    BY <1>0 DEF TypeOK
  <2>4. o \in plan'[p].start .. (plan'[p].end - 1)
    BY DEF Span
  <2> QED BY <2>1, <2>2, <2>3, <2>4
<1>5. CASE UNCHANGED <<plan, pos, remaining, left, inflight, sent, stored>> /\ ~ResolvePlan
  <2>1. Passed' \subseteq Passed /\ HandedOver' = HandedOver
    BY <1>3, <1>5 DEF HandedOver
  <2>2. CASE Passed \subseteq HandedOver
    BY <2>1, <2>2 DEF PassedInv
  <2>3. CASE ~(Passed \subseteq HandedOver)
    <3>1. cmd = "panicked" /\ pc = "ok"
      BY <2>3, <1>0 DEF PassedInv
    <3>2. cmd' = "panicked" /\ pc' = "ok"
      BY <3>1, StaysPanicked, StaysOk
    <3>3. PICK r \in Passed : Passed \subseteq HandedOver \cup {r}
      BY <2>3, <1>0 DEF PassedInv
    <3>4. Passed' \subseteq HandedOver' \cup {r}
      BY <2>1, <3>3
    <3> QED BY <3>2, <3>4 DEF PassedInv
  <2> QED BY <2>2, <2>3
<1>6. ASSUME NEW q \in Partitions, NEW r \in log[q], Skip(q, r) \/ ReachEnd(q, r) \/ Take(q, r)
      PROVE  PassedInv'
  <2>1. /\ Polls(q, r) /\ plan' = plan /\ sent' = sent /\ log' = log
        /\ pc = "poll" /\ ~ResolvePlan
    BY <1>6 DEF Skip, ReachEnd, Take, Polls, ResolvePlan
  <2>2. /\ r \in Nat /\ pos[q] <= r
        /\ \A x \in log[q] : x < r => x < pos[q]
        /\ pos' = [pos EXCEPT ![q] = r + 1]
        /\ inflight = {} /\ One(q) = 0
    BY <2>1, PollFacts
  <2> SUFFICES ASSUME NEW y \in Passed' PROVE y \in HandedOver'
    BY DEF PassedInv
  <2>c. PICK p \in Partitions : \E o \in log'[p] \cap Span(plan'[p]) :
          y = [partition |-> p, offset |-> o] /\ o < pos'[p]
    BY <1>1
  <2>3. PICK o \in log'[p] \cap Span(plan'[p]) : y = [partition |-> p, offset |-> o] /\ o < pos'[p]
    BY <2>c
  <2>a. /\ pos \in [Partitions -> Nat] /\ remaining \in [Partitions -> Nat]
        /\ plan \in [Partitions -> [start : Nat, end : Nat]]
        /\ o \in log[p] \cap Span(plan[p]) /\ o \in Nat
    BY <1>0, <1>2, <2>1 DEF TypeOK
  <2>b. pos[p] \in Nat /\ remaining[p] \in Nat /\ plan[p].start \in Nat /\ plan[p].end \in Nat
    BY <2>a
  <2>4. CASE o < pos[p]
    <3>1. [partition |-> p, offset |-> o] \in HandedOver
      BY <2>1, <2>a, <2>4, <1>0, PassedWhileReading
    <3> QED BY <3>1, <2>1, <2>2, <2>3 DEF HandedOver
  <2>5. CASE ~(o < pos[p])
    <3>1. p = q /\ o = r
      <4>1. p = q
        BY <2>2, <2>3, <2>5, <2>a
      <4>2. o <= r
        BY <4>1, <2>2, <2>3, <2>a
      <4> QED BY <4>1, <4>2, <2>2, <2>5, <2>a, <2>b
    <3>2. plan[p].end <= o => FALSE
      BY <2>a, <2>b DEF Span
    <3>3. pos[p] + remaining[p] >= plan[p].end
      BY <3>1, <2>2, <2>b DEF IndInv, ProgressInv
    <3>4. ~Skip(q, r)
      BY <3>1, <3>2, <3>3, <2>2, <2>b, <2>a DEF Skip
    <3>5. ~ReachEnd(q, r)
      BY <3>1, <3>2 DEF ReachEnd, PastEnd
    <3>6. inflight' = {[partition |-> p, offset |-> o]}
      BY <3>1, <3>4, <3>5, <1>6 DEF Take
    <3> QED BY <3>6, <2>3 DEF HandedOver
  <2> QED BY <2>4, <2>5
<1>7. CASE Send
  <2> PICK r \in inflight : r \in Record /\ inflight = {r}
    BY <1>0, <1>7 DEF IndInv, InflightInv, TypeOK, Send
  <2>1. /\ sent' = Append(sent, r) /\ pos' = pos
        /\ pc = "send" /\ ~ResolvePlan
    BY <1>7 DEF Send, ResolvePlan
  <2>2. Passed' \subseteq Passed /\ Passed \subseteq HandedOver
    BY <2>1, <1>3, <1>0 DEF PassedInv
  <2>3. HandedOver \subseteq HandedOver'
    BY <2>1, <1>0, SendFacts DEF HandedOver
  <2> QED BY <2>2, <2>3 DEF PassedInv
<1>8. CASE SinkClosed
  <2>1. /\ cmd' = "panicked" /\ pc' = "ok" /\ pc = "send"
        /\ sent' = sent /\ pos' = pos /\ ~ResolvePlan
    BY <1>8, StillListening DEF SinkClosed, ReturnOk, NobodyHangsUp, ResolvePlan
  <2>2. PICK r \in inflight : inflight = {r}
    BY <2>1 DEF IndInv, InflightInv
  <2>3. Passed' \subseteq HandedOver
    BY <2>1, <1>3, <1>0 DEF PassedInv
  <2>4. HandedOver \subseteq HandedOver' \cup {r}
    BY <2>1, <2>2 DEF HandedOver
  <2>5. Passed' \subseteq HandedOver' \cup {r}
    BY <2>3, <2>4
  <2>6. CASE r \in Passed'
    BY <2>1, <2>5, <2>6 DEF PassedInv
  <2>7. CASE r \notin Passed'
    BY <2>5, <2>7 DEF PassedInv
  <2> QED BY <2>6, <2>7
<1> QED BY <1>4, <1>5, <1>6, <1>7, <1>8, Frames

LEMMA QuotaStep == IndInv /\ [Next]_vars => QuotaInv'
<1> SUFFICES ASSUME IndInv, [Next]_vars PROVE QuotaInv'
  OBVIOUS
<1> USE DEF topic, args, task, chan, offsets
<1>0. TypeOK /\ QuotaInv /\ mode' = mode /\ cap' = cap
  BY Frames DEF IndInv
<1>a. remaining \in [Partitions -> Nat] /\ left \in Nat /\ cap \in Nat /\ Len(sent) \in Nat
  BY <1>0, SentFacts DEF TypeOK
<1>b. TotalRemaining(remaining) \in Nat
  BY <1>a, ToComeFinite
<1>1. CASE UNCHANGED <<remaining, left, sent>>
  BY <1>0, <1>1 DEF QuotaInv
<1>2. CASE ResolvePlan
  <2>1. sent' = <<>> /\ Len(sent') = 0
    BY <1>2 DEF ResolvePlan, IndInv, StartInv
  <2>2. remaining' \in [Partitions -> Nat]
    BY TypeStep DEF TypeOK
  <2>3. TotalRemaining(remaining') \in Nat
    BY <2>2, ToComeFinite
  <2>4. left' = Quota(TotalRemaining(remaining'))
    BY <1>2 DEF ResolvePlan
  <2> QED BY <2>1, <2>3, <2>4, <1>0, <1>a DEF QuotaInv, Quota
<1>3. ASSUME NEW p \in Partitions, NEW o \in log[p], Skip(p, o) \/ ReachEnd(p, o) \/ Take(p, o)
      PROVE  QuotaInv'
  <2>1. CASE ReachEnd(p, o)
    <3>1. remaining' = [remaining EXCEPT ![p] = 0] /\ left' = left /\ sent' = sent
      BY <2>1 DEF ReachEnd
    <3>2. TotalRemaining(remaining') <= TotalRemaining(remaining) /\ TotalRemaining(remaining') \in Nat
      BY <3>1, <1>a, ToComeGivenUp, ToComeFinite
    <3> QED BY <3>1, <3>2, <1>0, <1>a, <1>b DEF QuotaInv
  <2>2. CASE Skip(p, o) \/ Take(p, o)
    BY <1>1, <2>2 DEF Skip, Take
  <2> QED BY <1>3, <2>1, <2>2
<1>4. CASE Send
  <2> PICK r \in inflight : /\ r \in Record /\ inflight = {r}
                            /\ remaining[r.partition] > 0 /\ left > 0
    BY <1>0, <1>4 DEF IndInv, InflightInv, TypeOK, Send
  <2>1. /\ remaining' = [remaining EXCEPT ![r.partition] = @ - 1]
        /\ left' = left - 1 /\ sent' = Append(sent, r)
    BY <1>4 DEF Send
  <2>2. r.partition \in Partitions
    BY DEF Record
  <2>3. TotalRemaining(remaining') = TotalRemaining(remaining) - 1
    BY <2>1, <2>2, <1>a, ToComeOneLess
  <2>4. Len(sent') = Len(sent) + 1
    BY <2>1, <1>0, SendFacts
  <2>5. left' + Len(sent') = left + Len(sent)
    BY <2>1, <2>4, <1>a
  <2>6. left >= TotalRemaining(remaining) => left' >= TotalRemaining(remaining')
    BY <2>1, <2>3, <1>a, <1>b
  <2> QED BY <2>5, <2>6, <1>0 DEF QuotaInv
<1>5. CASE SinkClosed
  BY <1>1, <1>5 DEF SinkClosed
<1> QED BY <1>1, <1>2, <1>3, <1>4, <1>5, Frames

LEMMA CommandStep == IndInv /\ [Next]_vars => CommandInv'
<1> SUFFICES ASSUME IndInv, [Next]_vars PROVE CommandInv'
  OBVIOUS
<1> USE DEF topic, args, task, chan, offsets
<1>0. TypeOK /\ CommandInv /\ mode' = mode /\ cap' = cap
  BY Frames DEF IndInv
<1>a. Len(sent) \in Nat /\ taken \in 0 .. Len(sent)
  BY <1>0 DEF TypeOK
<1>1. CASE UNCHANGED <<pc, remaining, left, sent, taken, cmd>>
  BY <1>0, <1>1 DEF CommandInv, Running, Continues
<1>2. CASE /\ pc \in {"resolve", "poll", "send"}
           /\ pc' \in {"poll", "send", "failed"}
           /\ UNCHANGED <<sent, taken, cmd>>
  BY <1>0, <1>2 DEF CommandInv, Running
<1>3. CASE Send
  BY <1>0, <1>3 DEF Send, CommandInv, Running
<1>4. CASE SinkClosed
  <2>1. cmd = "panicked"
    BY <1>4, StillListening DEF SinkClosed, NobodyHangsUp
  <2> QED BY <2>1, <1>4 DEF SinkClosed, ReturnOk, CommandInv
<1>5. CASE Finish
  BY <1>0, <1>5 DEF Finish, ReturnOk, CommandInv, Running, Continues
<1>6. CASE Cancelled
  BY <1>0, <1>6 DEF Cancelled, CommandInv
<1>7. CASE Receive
  <2>1. cmd' \in {"receiving", "joining"}
        /\ (cmd' = "joining" => mode = "schema" /\ taken' >= cap)
    BY <1>7 DEF Receive
  <2>2. UNCHANGED <<pc, remaining, left, sent>> /\ cmd = "receiving"
    BY <1>7 DEF Receive
  <2> QED BY <2>1, <2>2, <1>0 DEF CommandInv, Continues
<1>8. CASE Drained
  BY <1>0, <1>8 DEF Drained, CommandInv, Running, Continues
<1>9. CASE OutputFails
  BY <1>0, <1>9 DEF OutputFails, CommandInv
<1>10. CASE Join
  <2>1. UNCHANGED <<pc, remaining, left, sent, taken>> /\ ~Running /\ cmd = "joining"
    BY <1>10 DEF Join
  <2>2. cmd' \in {"ok", "failed", "empty"}
    BY <1>10 DEF Join
  <2>3. cmd' = "ok" /\ mode # "schema" => pc # "failed"
    BY <1>10 DEF Join
  <2>4. pc # "cancelled" /\ pc \in {"ok", "failed"}
    BY <2>1, <1>0 DEF CommandInv, Running, TypeOK
  <2> QED BY <2>1, <2>2, <2>3, <2>4, <1>0 DEF CommandInv, Running, Continues
<1>11. ASSUME NEW p \in Partitions, NEW o \in log[p], Skip(p, o) \/ ReachEnd(p, o) \/ Take(p, o)
       PROVE  CommandInv'
  <2>1. Polls(p, o)
    BY <1>11 DEF Skip, ReachEnd, Take
  <2> QED BY <2>1, <1>2, <1>11 DEF Polls, Skip, ReachEnd, Take
<1>12. CASE ResolvePlan \/ ResolveFails \/ PollFails
  BY <1>2, <1>12 DEF ResolvePlan, ResolveFails, PollFails
<1>13. CASE Topic \/ AutoCommit \/ UNCHANGED vars
  BY <1>1, <1>13 DEF Topic, Append1, Remove, AutoCommit, vars
<1> QED
  BY <1>3, <1>4, <1>5, <1>6, <1>7, <1>8, <1>9, <1>10, <1>11, <1>12, <1>13
     DEF Next, Deliver, Task, Command, Terminating

LEMMA GroupStep == IndInv /\ [Next]_vars => GroupInv'
<1> SUFFICES ASSUME IndInv, [Next]_vars PROVE GroupInv'
  OBVIOUS
<1> USE DEF topic, args, task, chan, offsets
<1>0. TypeOK /\ GroupInv /\ TypeOK'
  BY TypeStep DEF IndInv
<1>a. \A q \in Partitions : pos[q] \in Nat /\ stored[q] \in Nat /\ committed[q] \in Nat
                            /\ pos'[q] \in Nat
  BY <1>0 DEF TypeOK
<1>1. committed' = committed \/ committed' = stored
  BY DEF Next, Topic, Task, Command, Deliver, Terminating, vars, Append1, Remove,
     ResolvePlan, ResolveFails, Skip, ReachEnd, Take, Send, SinkClosed, Finish,
     ReturnOk, PollFails, AutoCommit, Receive, Drained, OutputFails, Cancelled, Join
<1>2. CASE UNCHANGED <<pos, stored>>
  BY <1>0, <1>1, <1>2, <1>a DEF GroupInv
<1>3. CASE ResolvePlan
  <2>1. UNCHANGED <<stored, committed>> /\ \A q \in Partitions : stored[q] = 0
    BY <1>3 DEF ResolvePlan, IndInv, StartInv
  <2> QED BY <2>1, <1>0, <1>a DEF GroupInv
<1>4. ASSUME NEW p \in Partitions, NEW o \in log[p], Skip(p, o) \/ ReachEnd(p, o) \/ Take(p, o)
      PROVE  GroupInv'
  <2>1. Polls(p, o) /\ committed' = committed
    BY <1>4 DEF Skip, ReachEnd, Take
  <2>2. /\ o \in Nat /\ pos[p] <= o
        /\ pos' = [pos EXCEPT ![p] = o + 1]
    BY <2>1, PollFacts
  <2>3. stored' = stored \/ stored' = [stored EXCEPT ![p] = o + 1]
    BY <2>1 DEF Polls
  <2>4. pos \in [Partitions -> Nat] /\ stored \in [Partitions -> Nat]
    BY <1>0 DEF TypeOK
  <2>5. ASSUME NEW q \in Partitions PROVE committed'[q] <= stored'[q] /\ stored'[q] <= pos'[q]
    <3>1. committed[q] <= stored[q] /\ stored[q] <= pos[q]
      BY <1>0 DEF GroupInv
    <3> QED BY <3>1, <2>1, <2>2, <2>3, <2>4, <1>a
  <2> QED BY <2>5 DEF GroupInv
<1>5. CASE Send \/ SinkClosed
  BY <1>2, <1>5 DEF Send, SinkClosed
<1> QED BY <1>2, <1>3, <1>4, <1>5, Frames

LEMMA ChannelStep == IndInv /\ [Next]_vars => ChannelInv'
<1> SUFFICES ASSUME IndInv, [Next]_vars PROVE ChannelInv'
  OBVIOUS
<1> USE DEF topic, args, task, chan, offsets
<1>0. TypeOK /\ ChannelInv /\ Len(sent) \in Nat /\ taken \in Nat /\ Capacity \in Nat
  BY ConsumeAssumption, SentFacts DEF IndInv, TypeOK, ConsumeAssumption
<1>1. CASE Send
  <2>1. PICK s \in inflight : sent' = Append(sent, s)
    BY <1>1 DEF Send
  <2>2. /\ s \in Record /\ taken' = taken /\ Len(sent) - taken < Capacity
        /\ cmd' = "receiving"
    BY <1>0, <1>1, <2>1 DEF TypeOK, Send, HasRoom
  <2>3. Len(sent') = Len(sent) + 1
    BY <2>1, <2>2, <1>0, SendFacts
  <2> QED BY <2>2, <2>3, <1>0 DEF ChannelInv, Arrived
<1>2. CASE OutputFails
  BY <1>0, <1>2 DEF OutputFails, ChannelInv, Arrived
<1>3. CASE Receive
  BY <1>0, <1>3 DEF Receive, ChannelInv, Arrived
<1>4. CASE ~Send /\ ~OutputFails /\ ~Receive
  <2>1. sent' = sent
    BY <1>4, Frames DEF ResolvePlan, Skip, ReachEnd, Take, SinkClosed
  <2>2. taken' = taken /\ (cmd' = "panicked" <=> cmd = "panicked")
    BY <1>4 DEF Next, Topic, Task, Command, Deliver, Terminating, vars, Append1, Remove,
       ResolvePlan, ResolveFails, Skip, ReachEnd, Take, SinkClosed, Finish,
       PollFails, AutoCommit, Drained, Cancelled, Join
  <2> QED BY <2>1, <2>2, <1>0 DEF ChannelInv, Arrived
<1> QED BY <1>1, <1>2, <1>3, <1>4

-----------------------------------------------------------------------------
(* The invariant holds initially, and hence always. *)

LEMMA InitIndInv == Init => IndInv
<1> SUFFICES ASSUME Init PROVE IndInv
  OBVIOUS
<1>1. TypeOK
  <2>1. log \in [Partitions -> SUBSET Nat] /\ high \in [Partitions -> Nat]
    BY ConsumeAssumption DEF Init, ConsumeAssumption
  <2>2. mode \in {"query", "sample", "schema"} /\ cap \in Nat
    BY ConsumeAssumption DEF Init, ConsumeAssumption
  <2>3. plan \in [Partitions -> [start : Nat, end : Nat]]
    BY DEF Init, Unassigned
  <2>4. sent \in Seq(Record) /\ taken \in 0 .. Len(sent)
    BY DEF Init
  <2> QED BY <2>1, <2>2, <2>3, <2>4 DEF Init, TypeOK
<1>2. TopicInv
  BY <1>1, ConsumeAssumption DEF Init, TopicInv, Unassigned, TypeOK, ConsumeAssumption
<1>3. StartInv /\ InflightInv /\ HandedInv /\ SentInOrder
  BY DEF Init, StartInv, InflightInv, HandedInv, SentInOrder
<1>4. ProgressInv
  BY DEF Init, ProgressInv, One, Unassigned
<1>5. PassedInv
  <2>1. ASSUME NEW p \in Partitions PROVE Span(plan[p]) = {}
    BY DEF Init, Span, Unassigned
  <2>2. Passed = {}
    BY <2>1 DEF Passed, WindowRecords
  <2> QED BY <2>2 DEF PassedInv
<1>6. QuotaInv
  BY <1>1, NoneToCome DEF Init, QuotaInv, TypeOK
<1>7. CommandInv /\ GroupInv
  BY DEF Init, CommandInv, GroupInv
<1>8. ChannelInv
  BY ConsumeAssumption DEF Init, ChannelInv, Arrived, ConsumeAssumption
<1> QED BY <1>1, <1>2, <1>3, <1>4, <1>5, <1>6, <1>7, <1>8 DEF IndInv

(* The inductive invariant of Consume, for every topic and every limit.    *)
THEOREM Invariance == Spec => []IndInv
<1>1. IndInv /\ [Next]_vars => IndInv'
  BY TypeStep, TopicStep, StartStep, InflightStep, HandedStep, OrderStep, ProgressStep,
     PassedStep, QuotaStep, CommandStep, GroupStep, ChannelStep DEF IndInv
<1> QED BY <1>1, InitIndInv, PTL DEF Spec

-----------------------------------------------------------------------------
(* The properties of Consume. *)

(* Every variable keeps its type: in particular left_to_send and the       *)
(* remaining counts, unsigned or checked against 0 in the code, never fall *)
(* below 0.                                                                *)
THEOREM Typing == Spec => []TypeOK
<1>1. IndInv => TypeOK
  BY DEF IndInv
<1> QED BY <1>1, Invariance, PTL

(* No record outside the resolved window is ever handed over.              *)
THEOREM Window == Spec => []SentInWindow
<1>1. IndInv => SentInWindow
  BY DEF IndInv, HandedInv, SentInWindow
<1> QED BY <1>1, Invariance, PTL

(* Each partition's records arrive in order, none of them twice.           *)
THEOREM Order == Spec => []SentInOrder
<1>1. IndInv => SentInOrder
  BY DEF IndInv
<1> QED BY <1>1, Invariance, PTL

(* The caps of sample and schema hold, a record in flight included.        *)
THEOREM Limit == Spec => []LimitRespected
<1>1. IndInv => LimitRespected
  <2> SUFFICES ASSUME IndInv, mode # "query" PROVE Len(sent) + Cardinality(inflight) <= cap
    BY DEF LimitRespected
  <2>1. Len(sent) \in Nat /\ left \in Nat /\ cap \in Nat /\ left + Len(sent) <= cap
    BY SentFacts DEF IndInv, TypeOK, QuotaInv
  <2>2. CASE inflight = {}
    BY <2>1, <2>2, FS_EmptySet
  <2>3. CASE inflight # {}
    <3>1. PICK r : inflight = {r} /\ left > 0
      BY <2>3 DEF IndInv, InflightInv
    <3>2. Cardinality(inflight) = 1
      BY <3>1, FS_Singleton
    <3> QED BY <3>1, <3>2, <2>1
  <2> QED BY <2>2, <2>3
<1> QED BY <1>1, Invariance, PTL

(* query and schema never make a send fail.                                *)
THEOREM Listening == Spec => []NobodyHangsUp
BY StillListening, Invariance, PTL

(* A partition whose count has run out has been fetched to its end.        *)
LEMMA DoneIsPassed ==
    ASSUME IndInv, inflight = {}, NEW p \in Partitions, remaining[p] = 0,
           NEW o \in log[p] \cap Span(plan[p])
    PROVE  o < pos[p]
<1>1. /\ pos[p] \in Nat /\ plan[p].end \in Nat /\ plan[p].start \in Nat /\ o \in Nat
  BY DEF IndInv, TypeOK
<1>2. pos[p] >= plan[p].end
  BY <1>1 DEF IndInv, ProgressInv, One
<1> QED BY <1>1, <1>2 DEF Span

(* Nothing of the window that still exists is passed over.                 *)
THEOREM Complete == Spec => []NothingSkipped
<1>1. IndInv => NothingSkipped
  <2> SUFFICES ASSUME IndInv, NEW p \in Partitions, NEW o \in log[p] \cap Span(plan[p]),
                      remaining[p] = 0 \/ o < pos[p],
                      pc \in {"poll", "send", "ok"}, cmd # "panicked"
               PROVE  [partition |-> p, offset |-> o] \in HandedOver
    BY DEF NothingSkipped
  <2>1. CASE o < pos[p]
    BY <2>1, PassedWhileReading DEF IndInv
  <2>2. CASE remaining[p] = 0 /\ ~(o < pos[p])
    <3>1. inflight # {}
      BY <2>2, DoneIsPassed
    <3>2. PICK r \in inflight : inflight = {r} /\ remaining[r.partition] > 0
      BY <3>1 DEF IndInv, InflightInv
    <3>3. r.partition # p
      BY <2>2, <3>2
    <3>4. One(p) = 0
      BY <3>2, <3>3 DEF One
    <3>5. pos[p] \in Nat /\ plan[p].end \in Nat /\ plan[p].start \in Nat /\ o \in Nat
      BY DEF IndInv, TypeOK
    <3>6. pos[p] >= plan[p].end
      BY <2>2, <3>4, <3>5 DEF IndInv, ProgressInv
    <3> QED BY <2>2, <3>5, <3>6 DEF Span
  <2> QED BY <2>1, <2>2
<1> QED BY <1>1, Invariance, PTL

(* A query that succeeds has the whole window, a sample that succeeds has  *)
(* as many records as asked for or the whole window.                       *)
THEOREM Success == Spec => []SuccessIsComplete
<1>1. IndInv => SuccessIsComplete
  <2> SUFFICES ASSUME IndInv, cmd = "ok", mode # "schema", ~(mode = "sample" /\ taken = cap),
                      NEW p \in Partitions, NEW o \in log[p] \cap Span(plan[p])
               PROVE  \E i \in 1 .. taken : sent[i] = [partition |-> p, offset |-> o]
    BY DEF SuccessIsComplete
  <2>1. /\ TypeOK /\ Len(sent) \in Nat /\ DOMAIN sent = 1 .. Len(sent)
        /\ left \in Nat /\ cap \in Nat /\ remaining \in [Partitions -> Nat]
        /\ mode \in {"query", "sample"}
    BY SentFacts DEF IndInv, TypeOK
  <2>2. taken = Len(sent) /\ pc = "ok" /\ ~Continues
    BY DEF IndInv, CommandInv
  <2>3. inflight = {}
    BY <2>2 DEF IndInv, InflightInv
  <2>4. remaining[p] = 0
    <3>0. remaining[p] \in Nat
      BY <2>1
    <3>1. CASE left = 0
      <4>0. ~(mode # "query" /\ left + Len(sent) = cap)
        <5>1. \A n \in Nat : 0 + n = n
          OBVIOUS
        <5>2. left + Len(sent) = Len(sent)
          BY <5>1, <2>1, <3>1, Zenon
        <5> QED BY <5>2, <2>1, <2>2, Zenon
      <4>1. left >= TotalRemaining(remaining)
        BY <4>0 DEF IndInv, QuotaInv
      <4>2. TotalRemaining(remaining) = 0
        BY <4>1, <2>1, <3>1, ToComeFinite
      <4> QED BY <4>2, <2>1, NothingToCome
    <3>2. CASE left > 0
      <4>1. ~(remaining[p] > 0)
        BY <2>2, <3>2 DEF Continues
      <4> QED BY <3>0, <4>1
    <3> QED BY <2>1, <3>1, <3>2
  <2>5. o < pos[p]
    BY <2>3, <2>4, DoneIsPassed
  <2>6. [partition |-> p, offset |-> o] \in HandedOver
    BY <2>5, PassedWhileReading DEF IndInv
  <2> QED BY <2>1, <2>2, <2>3, <2>6 DEF HandedOver
<1> QED BY <1>1, Invariance, PTL

(* What the group commits of the window was handed over.                   *)
THEOREM Committed == Spec => []CommittedWasHandedOver
<1>1. IndInv => CommittedWasHandedOver
  <2> SUFFICES ASSUME IndInv, NEW p \in Partitions, NEW o \in log[p] \cap Span(plan[p]),
                      o < committed[p], cmd # "panicked"
               PROVE  [partition |-> p, offset |-> o] \in HandedOver
    BY DEF CommittedWasHandedOver
  <2>1. committed[p] <= stored[p] /\ stored[p] <= pos[p]
    BY DEF IndInv, GroupInv
  <2>2. committed[p] \in Nat /\ stored[p] \in Nat /\ pos[p] \in Nat /\ o \in Nat
    BY DEF IndInv, TypeOK
  <2>3. o < pos[p]
    BY <2>1, <2>2
  <2> QED BY <2>3, PassedWhileReading DEF IndInv
<1> QED BY <1>1, Invariance, PTL

(* What the group has committed without it coming to use is still in the   *)
(* channel, in flight, or the one record dropped when a send failed.       *)
LEMMA LostAreWaiting ==
    ASSUME IndInv
    PROVE  \E r : Lost \subseteq {sent[i] : i \in Arrived + 1 .. Len(sent)} \cup {r}
<1> DEFINE waiting == {sent[i] : i \in Arrived + 1 .. Len(sent)}
<1>1. /\ TypeOK /\ Len(sent) \in Nat /\ DOMAIN sent = 1 .. Len(sent) /\ Arrived \in Int
  BY SentFacts DEF IndInv, TypeOK, Arrived
<1>2. Lost \subseteq Passed
  <2> SUFFICES ASSUME NEW x \in Lost PROVE x.offset < pos[x.partition]
    BY DEF Lost, Passed
  <2>0. PICK p \in Partitions : \E o \in log[p] \cap Span(plan[p]) :
          x = [partition |-> p, offset |-> o]
    BY DEF Lost, WindowRecords
  <2>1. PICK o \in log[p] \cap Span(plan[p]) : x = [partition |-> p, offset |-> o]
    BY <2>0
  <2>2. o < committed[p]
    BY <2>1 DEF Lost
  <2>3. committed[p] <= stored[p] /\ stored[p] <= pos[p]
    BY DEF IndInv, GroupInv
  <2>4. committed[p] \in Nat /\ stored[p] \in Nat /\ pos[p] \in Nat /\ o \in Nat
    BY <1>1 DEF TypeOK
  <2> QED BY <2>1, <2>2, <2>3, <2>4
<1>3. \A i \in DOMAIN sent : sent[i] \in Lost => sent[i] \in waiting
  <2> SUFFICES ASSUME NEW i \in DOMAIN sent, sent[i] \in Lost PROVE i \in Arrived + 1 .. Len(sent)
    OBVIOUS
  <2>1. ~(i \in 1 .. Arrived)
    BY DEF Lost
  <2> QED BY <1>1, <2>1
<1>4. Lost \cap HandedOver \subseteq waiting \cup inflight
  BY <1>3 DEF HandedOver
<1>5. CASE Passed \subseteq HandedOver
  <2>1. Lost \subseteq waiting \cup inflight
    BY <1>2, <1>4, <1>5
  <2>2. CASE inflight = {}
    BY <2>1, <2>2
  <2>3. CASE inflight # {}
    <3>1. PICK r : inflight = {r}
      BY <2>3 DEF IndInv, InflightInv
    <3> QED BY <2>1, <3>1
  <2> QED BY <2>2, <2>3
<1>6. CASE ~(Passed \subseteq HandedOver)
  <2>1. PICK r \in Passed : pc = "ok" /\ Passed \subseteq HandedOver \cup {r}
    BY <1>6 DEF IndInv, PassedInv
  <2>2. inflight = {}
    BY <2>1 DEF IndInv, InflightInv
  <2>3. Lost \subseteq waiting \cup {r}
    BY <1>2, <1>4, <2>1, <2>2
  <2> QED BY <2>3
<1> QED BY <1>5, <1>6

(* However a command ends, the group has committed at most one record more *)
(* than the channel holds that the command has not received (or, if it is  *)
(* the one a sample could not print, not shown).                           *)
THEOREM Losses == Spec => []LossIsBounded
<1>1. IndInv => LossIsBounded
  <2> SUFFICES ASSUME IndInv PROVE Cardinality(Lost) <= Capacity + 1
    BY DEF LossIsBounded
  <2> DEFINE places == Arrived + 1 .. Len(sent)
             waiting == {sent[i] : i \in places}
             f == [i \in places |-> sent[i]]
  <2>1. /\ Len(sent) \in Nat /\ Arrived \in Int /\ Len(sent) - Arrived <= Capacity
        /\ Capacity \in Nat
    BY SentFacts, ConsumeAssumption DEF IndInv, TypeOK, Arrived, ChannelInv, ConsumeAssumption
  <2>2. PICK r : Lost \subseteq waiting \cup {r}
    BY LostAreWaiting
  <2>3. IsFiniteSet(places) /\ Cardinality(places) \in Nat /\ Cardinality(places) <= Capacity
    <3>1. Arrived + 1 \in Int /\ Len(sent) \in Int
      BY <2>1
    <3>2. /\ IsFiniteSet(places)
          /\ Cardinality(places) = IF Arrived + 1 > Len(sent) THEN 0
                                   ELSE Len(sent) - (Arrived + 1) + 1
      BY <3>1, FS_Interval
    <3> QED BY <3>2, <2>1
  <2>4. f \in Surjection(places, waiting)
    BY DEF Surjection
  <2>5. IsFiniteSet(waiting) /\ Cardinality(waiting) <= Cardinality(places)
    <3> HIDE DEF places, waiting, f
    <3> QED BY <2>3, <2>4, FS_Surjection
  <2>6. /\ IsFiniteSet(waiting \cup {r})
        /\ Cardinality(waiting \cup {r}) <= Cardinality(waiting) + 1
    <3> HIDE DEF waiting
    <3>1. Cardinality(waiting) \in Nat
      BY <2>5, FS_CardinalityType
    <3> QED BY <2>5, <3>1, FS_AddElement
  <2>7. Cardinality(Lost) <= Cardinality(waiting \cup {r}) /\ Cardinality(Lost) \in Nat
    <3> HIDE DEF waiting
    <3> QED BY <2>2, <2>6, FS_Subset, FS_CardinalityType
  <2>8. Cardinality(waiting) \in Nat /\ Cardinality(waiting \cup {r}) \in Nat
    <3> HIDE DEF waiting
    <3> QED BY <2>5, <2>6, FS_CardinalityType
  <2> QED BY <2>1, <2>3, <2>5, <2>6, <2>7, <2>8
<1> QED BY <1>1, Invariance, PTL

(* Where every offset holds a record, the loop never waits in vain: a      *)
(* record of the window is there to be fetched.                            *)
THEOREM Starvation == Spec => []NeverStarves
<1>1. IndInv => NeverStarves
  <2> SUFFICES ASSUME IndInv, ~Gaps, pc = "poll", Continues
               PROVE  \E p \in AssignedIn(plan) : remaining[p] > 0 /\
                        \E o \in log[p] : Delivers(p, o) /\ ~PastEnd(p, o)
    BY DEF NeverStarves
  <2>1. PICK p \in Partitions : remaining[p] > 0
    BY DEF Continues
  <2>2. /\ pos[p] \in Nat /\ remaining[p] \in Nat /\ plan[p].end \in Nat /\ high[p] \in Nat
        /\ plan[p].start \in Nat /\ DOMAIN plan = Partitions
    BY DEF IndInv, TypeOK
  <2>3. inflight = {}
    BY DEF IndInv, InflightInv
  <2>4. pos[p] + remaining[p] = plan[p].end /\ plan[p].start <= pos[p]
    BY <2>1, <2>2, <2>3 DEF IndInv, ProgressInv, One
  <2>5. pos[p] < plan[p].end /\ plan[p].end <= high[p]
    BY <2>1, <2>2, <2>4 DEF IndInv, TopicInv
  <2>6. pos[p] \in log[p]
    BY <2>2, <2>5 DEF IndInv, TopicInv
  <2>7. Delivers(p, pos[p]) /\ ~PastEnd(p, pos[p])
    BY <2>2, <2>5, <2>6 DEF Delivers, PastEnd
  <2>8. p \in AssignedIn(plan)
    BY <2>2, <2>4, <2>5 DEF AssignedIn
  <2> QED BY <2>1, <2>6, <2>7, <2>8
<1> QED BY <1>1, Invariance, PTL
=============================================================================

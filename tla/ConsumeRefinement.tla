-------------------------- MODULE ConsumeRefinement --------------------------
(***************************************************************************)
(* Consume implements KafkaSource, for every topic, capacity and limit.    *)
(***************************************************************************)
EXTENDS ConsumeProofs

(* What the step of the trait sees of the topic and of the receiver.       *)
LEMMA EnvironmentStep == IndInv /\ [Next]_vars => Source!Environment
<1> SUFFICES ASSUME IndInv, [Next]_vars PROVE Source!Environment
  OBVIOUS
<1> USE DEF topic, args, task, chan, offsets
<1>1. ASSUME NEW p \in Partitions, NEW o \in log'[p] \ log[p],
             NEW q \in log[p] \cup Source!SentOffsets(p)
      PROVE  q < o
  <2>1. log \in [Partitions -> SUBSET Nat] /\ high \in [Partitions -> Nat]
    BY DEF IndInv, TypeOK
  <2>2. o = high[p]
    BY <2>1, <1>1, Frames DEF Append1, Remove
  <2>3. CASE q \in log[p]
    BY <2>1, <2>2, <2>3 DEF IndInv, TopicInv
  <2>4. CASE q \in Source!SentOffsets(p)
    <3>1. PICK i \in DOMAIN sent : sent[i].partition = p /\ sent[i].offset = q
      BY <2>4 DEF Source!SentOffsets
    <3>2. q \in Span(plan[p]) /\ plan[p].end <= high[p]
      BY <3>1 DEF IndInv, HandedInv, TopicInv
    <3>3. plan[p].start \in Nat /\ plan[p].end \in Nat
      BY DEF IndInv, TypeOK
    <3> QED BY <3>2, <3>3, <2>1, <2>2 DEF Span
  <2> QED BY <1>1, <2>3, <2>4
<1>2. cmd' = "receiving" => cmd = "receiving"
  BY DEF Next, Topic, Task, Command, Deliver, Terminating, vars, Append1, Remove,
     ResolvePlan, ResolveFails, Skip, ReachEnd, Take, Send, SinkClosed, Finish,
     PollFails, AutoCommit, Receive, Drained, OutputFails, Cancelled, Join
<1>3. mode' = mode /\ cap' = cap
  BY Frames
<1> QED BY <1>1, <1>2, <1>3 DEF Source!Environment

(* When the loop ends, the call may succeed.                               *)
LEMMA MaySucceed ==
    ASSUME IndInv, pc = "poll", ~Continues, cmd # "panicked"
    PROVE  \/ Source!Exhausted
           \/ mode # "query" /\ Len(sent) = cap
<1>1. /\ TypeOK /\ Len(sent) \in Nat /\ DOMAIN sent = 1 .. Len(sent)
      /\ left \in Nat /\ cap \in Nat /\ remaining \in [Partitions -> Nat]
  BY SentFacts DEF IndInv, TypeOK
<1>2. inflight = {}
  BY DEF IndInv, InflightInv
<1>3. ASSUME \A p \in Partitions : remaining[p] = 0 PROVE Source!Exhausted
  <2> SUFFICES ASSUME NEW p \in Partitions, NEW o \in Span(plan[p]) \cap log[p]
               PROVE  Source!Sent(p, o)
    BY DEF Source!Exhausted
  <2>1. o < pos[p]
    BY <1>2, <1>3, DoneIsPassed
  <2>2. [partition |-> p, offset |-> o] \in HandedOver
    BY <2>1, PassedWhileReading DEF IndInv
  <2> QED BY <2>2, <1>2 DEF HandedOver, Source!Sent
<1>4. CASE left = 0
  <2>1. CASE mode # "query" /\ left + Len(sent) = cap
    <3>1. \A n \in Nat : 0 + n = n
      OBVIOUS
    <3> QED BY <3>1, <2>1, <1>1, <1>4, Zenon
  <2>2. CASE left >= TotalRemaining(remaining)
    <3>1. TotalRemaining(remaining) = 0
      BY <2>2, <1>1, <1>4, ToComeFinite
    <3> QED BY <3>1, <1>1, <1>3, NothingToCome
  <2> QED BY <2>1, <2>2 DEF IndInv, QuotaInv
<1>5. CASE left > 0
  <2>1. \A p \in Partitions : ~(remaining[p] > 0) /\ remaining[p] \in Nat
    BY <1>1, <1>5 DEF Continues
  <2>2. \A p \in Partitions : remaining[p] = 0
    BY <2>1
  <2> QED BY <2>2, <1>3
<1>6. left = 0 \/ left > 0
  BY <1>1
<1> QED BY <1>4, <1>5, <1>6

(* Every step of the program is a step of the trait, or none.              *)
LEMMA SourceStep == IndInv /\ IndInv' /\ [Next]_vars => [Source!Next]_(Source!vars)
<1> SUFFICES ASSUME IndInv, IndInv', [Next]_vars PROVE Source!Next
  OBVIOUS
<1> USE DEF topic, args, task, chan, offsets
<1>0. Source!Environment /\ mode' = mode /\ cap' = cap /\ TypeOK
  BY EnvironmentStep, Frames DEF IndInv
<1>1. CASE UNCHANGED <<pc, plan, sent>>
  BY <1>0, <1>1 DEF Source!Next, Source!Idle
<1>2. CASE ResolvePlan
  <2>1. plan' \in [Partitions -> [start : Nat, end : Nat]]
    BY DEF IndInv, TypeOK
  <2>2. \A p \in Partitions : Span(plan'[p]) \subseteq Nat
    <3> SUFFICES ASSUME NEW p \in Partitions PROVE Span(plan'[p]) \subseteq Nat
      OBVIOUS
    <3>1. plan'[p].start \in Nat /\ plan'[p].end \in Nat
      BY <2>1
    <3> QED BY <3>1 DEF Span
  <2>3. pc = "resolve" /\ pc' = "poll" /\ sent' = sent
    BY <1>2 DEF ResolvePlan
  <2> QED BY <2>2, <2>3, <1>0 DEF Source!Next, Source!Resolve
<1>3. CASE Send
  <2> PICK r \in inflight : r \in Record /\ inflight = {r} /\ left > 0
    BY <1>0, <1>3 DEF IndInv, InflightInv, TypeOK, Send
  <2>1. /\ sent' = Append(sent, r) /\ plan' = plan
        /\ pc = "send" /\ pc' = "poll" /\ cmd = "receiving"
    BY <1>3 DEF Send
  <2>2. r.partition \in Partitions /\ r = [partition |-> r.partition, offset |-> r.offset]
    BY DEF Record
  <2>3. r.offset \in Span(plan[r.partition])
    BY DEF IndInv, HandedInv
  <2>4. \A q \in Source!SentOffsets(r.partition) : q < r.offset
    BY DEF IndInv, HandedInv, Source!SentOffsets
  <2>5. mode = "query" \/ Len(sent) < cap
    <3>1. Len(sent) \in Nat /\ left \in Nat /\ cap \in Nat
      BY <1>0, SentFacts DEF TypeOK
    <3> QED BY <3>1 DEF IndInv, QuotaInv
  <2> QED BY <2>1, <2>2, <2>3, <2>4, <2>5, <1>0
          DEF Source!Next, Source!Emit, Source!NoLimit
<1>4. CASE Finish
  <2>1. pc = "poll" /\ pc' = "ok" /\ UNCHANGED <<plan, sent>> /\ ~Continues
    BY <1>4 DEF Finish, ReturnOk
  <2>2. \/ Source!Exhausted
        \/ mode # "query" /\ Len(sent) = cap
        \/ cmd # "receiving"
    BY <2>1, MaySucceed
  <2> QED BY <2>1, <2>2, <1>0 DEF Source!Next, Source!Succeed
<1>5. CASE SinkClosed
  BY <1>0, <1>5 DEF SinkClosed, ReturnOk, Source!Next, Source!Succeed
<1>6. CASE ResolveFails \/ PollFails
  BY <1>0, <1>6 DEF ResolveFails, PollFails, Source!Next, Source!Fail
<1>7. CASE Cancelled
  BY <1>0, <1>7 DEF Cancelled, Running, Source!Next, Source!Fail
<1>8. ASSUME NEW p \in Partitions, NEW o \in log[p], Skip(p, o) \/ ReachEnd(p, o) \/ Take(p, o)
      PROVE  Source!Next
  BY <1>0, <1>8 DEF Skip, ReachEnd, Take, Polls, Source!Next, Source!Idle
<1>9. CASE Topic \/ AutoCommit \/ Receive \/ Drained \/ OutputFails \/ Join \/ UNCHANGED vars
  BY <1>1, <1>9 DEF Topic, Append1, Remove, AutoCommit, Receive, Drained, OutputFails, Join, vars
<1> QED
  BY <1>2, <1>3, <1>4, <1>5, <1>6, <1>7, <1>8, <1>9
     DEF Next, Deliver, Task, Command, Terminating

(* The task keeps the trait's promise: what it hands over, in which order, *)
(* and when it may report success.                                         *)
THEOREM Refinement == Spec => ImplementsSource
<1>1. Init => Source!Init
  <2> SUFFICES ASSUME Init PROVE Source!Init
    OBVIOUS
  <2>1. \A p \in Partitions : Span(plan[p]) = {}
    BY DEF Init, Span, Unassigned
  <2> QED BY <2>1 DEF Init, Source!Init
<1> QED BY <1>1, SourceStep, Invariance, PTL DEF Spec, ImplementsSource, Source!Spec
=============================================================================

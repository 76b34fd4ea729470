------------------------- MODULE KafkaConsumerProofs -------------------------
(***************************************************************************)
(* The Kafka consumers, for any number of processes, messages, faults and  *)
(* launches: the workflows of a partition are created once each and in the *)
(* order of its messages, and the group never commits an offset beyond     *)
(* them.                                                                   *)
(***************************************************************************)
EXTENDS KafkaConsumer, TLAPS

Types ==
    /\ at \in [Consumers -> {"poll", "check", "enqueue", "store", "closed"}]
    /\ message \in [Consumers -> Nat]
    /\ stopping \in [Consumers -> BOOLEAN]
    /\ position \in [Consumers -> Nat]
    /\ stored \in [Consumers -> Nat]
    /\ assigned \in Consumers \cup {Nobody}
    /\ committed \in Nat
    /\ enqueued \in Seq(Nat)

\* A message that a consumer is about to enqueue is one that was enqueued
\* before or the next one, even if the partition has gone to others since; one
\* whose offset it is about to store is enqueued.
HeldInv ==
    \A c \in Consumers :
        /\ at[c] \in {"check", "enqueue"} => message[c] <= Len(enqueued)
        /\ at[c] = "store" => message[c] < Len(enqueued)

\* What the group or a client would commit is enqueued.
OffsetInv ==
    /\ committed <= Len(enqueued)
    /\ \A c \in Consumers : stored[c] <= Len(enqueued)

\* Whoever has the partition fetches next what was enqueued before or the next
\* one, unless it holds the message in between.
FetchInv ==
    \A c \in Consumers :
        assigned = c =>
            \/ position[c] <= Len(enqueued)
            \/ at[c] \in {"check", "enqueue"} /\ position[c] = message[c] + 1

Inv == Types /\ EnqueuedInOrder /\ HeldInv /\ OffsetInv /\ FetchInv

\* A message has a workflow exactly if its offset is below their number.
LEMMA EnqueuedIsBelow ==
  ASSUME enqueued \in Seq(Nat), EnqueuedInOrder, NEW m \in Nat
  PROVE  Enqueued(m) <=> m < Len(enqueued)
<1>1. DOMAIN enqueued = 1..Len(enqueued) /\ Len(enqueued) \in Nat
  OBVIOUS
<1>2. ASSUME Enqueued(m) PROVE m < Len(enqueued)
  BY <1>1, <1>2 DEF Enqueued, EnqueuedInOrder
<1>3. ASSUME m < Len(enqueued) PROVE Enqueued(m)
  <2>1. m + 1 \in DOMAIN enqueued
    BY <1>1, <1>3
  <2>2. enqueued[m + 1] = m
    BY <2>1 DEF EnqueuedInOrder
  <2> QED
    BY <2>1, <2>2 DEF Enqueued
<1> QED
  BY <1>2, <1>3

\* Giving the partition back, with or without a commit, keeps the offsets
\* within what is enqueued.
LEMMA GoneKeeps ==
  ASSUME Nobody \notin Consumers, Inv, NEW c \in Consumers, NEW b \in BOOLEAN, Gone(c, b),
         enqueued' = enqueued
  PROVE  /\ committed' \in Nat /\ committed' <= Len(enqueued)
         /\ assigned' \in Consumers \cup {Nobody}
         /\ assigned' # c
         /\ \A d \in Consumers : assigned' = d => assigned = d
<1>1. committed' = committed \/ committed' = stored[c]
  BY DEF Gone
<1>2. committed' \in Nat /\ committed' <= Len(enqueued)
  BY <1>1 DEF Inv, Types, OffsetInv
<1>3. assigned' = IF assigned = c THEN Nobody ELSE assigned
  BY DEF Gone
<1> QED
  BY <1>2, <1>3 DEF Inv, Types

LEMMA InitInv == KafkaAssumption /\ KafkaInit => Inv
BY DEF KafkaAssumption, KafkaInit, Inv, Types, EnqueuedInOrder, HeldInv, OffsetInv, FetchInv

LEMMA PollKeeps ==
  ASSUME Inv, NEW c \in Consumers, Poll(c)
  PROVE  Inv'
<1> USE DEF Inv, Types
<1>1. position[c] <= Len(enqueued)
  BY DEF Poll, FetchInv
<1>2. Types'
  BY DEF Poll, Goes
<1>3. EnqueuedInOrder'
  BY DEF Poll, EnqueuedInOrder
<1>4. HeldInv'
  BY <1>1 DEF Poll, Goes, HeldInv
<1>5. OffsetInv'
  BY DEF Poll, OffsetInv
<1>6. FetchInv'
  BY DEF Poll, Goes, FetchInv
<1> QED
  BY <1>2, <1>3, <1>4, <1>5, <1>6

LEMMA EnqueueKeeps ==
  ASSUME Inv, NEW c \in Consumers, Enqueue(c)
  PROVE  Inv'
<1> DEFINE n == Len(enqueued)
<1>1. n \in Nat /\ message[c] \in Nat /\ message[c] <= n /\ at[c] = "enqueue"
  BY DEF Inv, Types, HeldInv, Enqueue
<1>2. CASE Enqueued(message[c])
  <2>1. enqueued' = enqueued /\ message[c] < n
    BY <1>1, <1>2, EnqueuedIsBelow DEF Inv, Types, Enqueue
  <2>2. Types'
    BY <2>1 DEF Inv, Types, Enqueue, Goes
  <2>3. EnqueuedInOrder'
    BY <2>1 DEF Inv, EnqueuedInOrder
  <2>4. HeldInv'
    BY <2>1 DEF Inv, Types, HeldInv, Enqueue, Goes
  <2>5. OffsetInv'
    BY <2>1 DEF Inv, OffsetInv, Enqueue
  <2>6. FetchInv'
    BY <1>1, <2>1 DEF Inv, Types, FetchInv, Enqueue, Goes
  <2> QED
    BY <2>2, <2>3, <2>4, <2>5, <2>6 DEF Inv
<1>3. CASE ~Enqueued(message[c])
  <2>1. enqueued' = Append(enqueued, n) /\ message[c] = n
    BY <1>1, <1>3, EnqueuedIsBelow DEF Inv, Types, Enqueue
  <2>2. /\ enqueued' \in Seq(Nat) /\ Len(enqueued') = n + 1
        /\ \A i \in 1..n : enqueued'[i] = enqueued[i]
        /\ enqueued'[n + 1] = n
    BY <1>1, <2>1 DEF Inv, Types
  <2>3. Types'
    BY <2>2 DEF Inv, Types, Enqueue, Goes
  <2>4. EnqueuedInOrder'
    <3> SUFFICES ASSUME NEW i \in 1..(n + 1) PROVE enqueued'[i] = i - 1
      BY <1>1, <2>2 DEF EnqueuedInOrder
    <3>1. CASE i \in 1..n
      <4>1. enqueued'[i] = enqueued[i]
        BY <2>2, <3>1
      <4>2. i \in DOMAIN enqueued
        BY <3>1 DEF Inv, Types
      <4>3. enqueued[i] = i - 1
        BY <4>2 DEF Inv, EnqueuedInOrder
      <4> QED
        BY <4>1, <4>3
    <3>2. CASE i = n + 1
      BY <1>1, <2>2, <3>2
    <3> QED
      BY <1>1, <3>1, <3>2
  <2>5. HeldInv'
    BY <1>1, <2>1, <2>2 DEF Inv, Types, HeldInv, Enqueue, Goes
  <2>6. OffsetInv'
    BY <1>1, <2>2 DEF Inv, Types, OffsetInv, Enqueue
  <2>7. FetchInv'
    BY <1>1, <2>1, <2>2 DEF Inv, Types, FetchInv, Enqueue, Goes
  <2> QED
    BY <2>3, <2>4, <2>5, <2>6, <2>7 DEF Inv
<1> QED
  BY <1>2, <1>3

\* The steps that give the partition back: the loop is over, or the client is
\* replaced, or it loses the partition.
LEMMA LeaveKeeps ==
  ASSUME Nobody \notin Consumers, Inv, NEW c \in Consumers, NEW b \in BOOLEAN, Gone(c, b),
         at' = at \/ at' = [at EXCEPT ![c] = "closed"],
         UNCHANGED <<message, stopping, position, stored, enqueued>>
  PROVE  Inv'
<1>1. /\ committed' \in Nat /\ committed' <= Len(enqueued)
      /\ assigned' \in Consumers \cup {Nobody}
      /\ assigned' # c
      /\ \A d \in Consumers : assigned' = d => assigned = d
  BY GoneKeeps
<1>2. Types'
  BY <1>1 DEF Inv, Types
<1>3. EnqueuedInOrder'
  BY DEF Inv, EnqueuedInOrder
<1>4. HeldInv'
  BY DEF Inv, Types, HeldInv
<1>5. OffsetInv'
  BY <1>1 DEF Inv, OffsetInv
<1>6. FetchInv'
  BY <1>1 DEF Inv, Types, FetchInv
<1> QED
  BY <1>2, <1>3, <1>4, <1>5, <1>6 DEF Inv

LEMMA StepKeeps ==
  ASSUME KafkaAssumption, Inv, [KafkaNext]_kafkaVars
  PROVE  Inv'
<1>0. Nobody \notin Consumers
  BY DEF KafkaAssumption
<1> DEFINE Same == UNCHANGED <<at, message, stopping, position, stored, assigned, committed, enqueued>>
<1>1. CASE Same
  BY <1>1 DEF Inv, Types, EnqueuedInOrder, HeldInv, OffsetInv, FetchInv
<1>2. ASSUME NEW c \in Consumers, Loop(c)
      PROVE  Inv'
  <2>1. CASE Poll(c)
    BY <2>1, PollKeeps
  <2>2. CASE Check(c)
    BY <2>2 DEF Check, Goes, Inv, Types, EnqueuedInOrder, HeldInv, OffsetInv, FetchInv
  <2>3. CASE StopLoop(c)
    BY <1>0, <2>3, LeaveKeeps DEF StopLoop, Goes
  <2>4. CASE Enqueue(c)
    BY <2>4, EnqueueKeeps
  <2>5. CASE StoreOffset(c)
    <3>1. message[c] + 1 \in Nat /\ message[c] + 1 <= Len(enqueued)
      BY <2>5 DEF StoreOffset, Inv, Types, HeldInv
    <3>2. Types'
      BY <2>5, <3>1 DEF StoreOffset, Goes, Inv, Types
    <3>3. EnqueuedInOrder'
      BY <2>5 DEF StoreOffset, Inv, EnqueuedInOrder
    <3>4. HeldInv'
      BY <2>5 DEF StoreOffset, Goes, Inv, Types, HeldInv
    <3>5. OffsetInv'
      BY <2>5, <3>1 DEF StoreOffset, Inv, Types, OffsetInv
    <3>6. FetchInv'
      BY <2>5 DEF StoreOffset, Goes, Inv, Types, FetchInv
    <3> QED
      BY <3>2, <3>3, <3>4, <3>5, <3>6 DEF Inv
  <2>6. CASE LaunchAgain(c)
    BY <2>6 DEF LaunchAgain, Goes, Inv, Types, EnqueuedInOrder, HeldInv, OffsetInv, FetchInv
  <2>7. CASE Assign(c)
    BY <1>0, <2>7 DEF Assign, Inv, Types, EnqueuedInOrder, HeldInv, OffsetInv, FetchInv
  <2> QED
    BY <1>2, <2>1, <2>2, <2>3, <2>4, <2>5, <2>6, <2>7 DEF Loop
<1>3. ASSUME NEW c \in Consumers, EnqueueFails(c) \/ Replace(c) \/ Crash(c) \/ Revoke(c)
      PROVE  Inv'
  BY <1>0, <1>3, LeaveKeeps DEF EnqueueFails, Replace, Crash, Revoke, Goes
<1>4. ASSUME NEW c \in Consumers, Stop(c)
      PROVE  Inv'
  BY <1>4 DEF Stop, Inv, Types, EnqueuedInOrder, HeldInv, OffsetInv, FetchInv
<1>5. ASSUME NEW c \in Consumers, AutoCommit(c)
      PROVE  Inv'
  BY <1>5 DEF AutoCommit, Inv, Types, EnqueuedInOrder, HeldInv, OffsetInv, FetchInv
<1> QED
  BY <1>1, <1>2, <1>3, <1>4, <1>5 DEF KafkaNext, PollNothing, kafkaVars

LEMMA Invariance ==
  ASSUME KafkaAssumption
  PROVE  KafkaSpec => []Inv
<1>1. KafkaInit => Inv
  BY InitInv
<1>2. Inv /\ [KafkaNext]_kafkaVars => Inv'
  BY StepKeeps
<1> QED
  BY <1>1, <1>2, PTL DEF KafkaSpec

\* The workflows of a partition are created once each, in the order of its
\* messages: the consumer enqueues each message before it polls the next, and
\* one that lost the partition in between enqueues nothing that is out of turn.
THEOREM InOrder ==
  ASSUME KafkaAssumption
  PROVE  KafkaSpec => []EnqueuedInOrder
<1>1. Inv => EnqueuedInOrder
  BY DEF Inv
<1> QED
  BY <1>1, Invariance, PTL

\* No message is lost: every message below the offset that the group has
\* committed has a workflow, because the consumer stores an offset only after
\* the enqueue of its message.
THEOREM NoneLost ==
  ASSUME KafkaAssumption
  PROVE  KafkaSpec => []CommittedEnqueued
<1>1. Inv => CommittedEnqueued
  <2> SUFFICES ASSUME Inv, NEW m \in 0..(committed - 1) PROVE Enqueued(m)
    BY DEF CommittedEnqueued
  <2>1. enqueued \in Seq(Nat) /\ EnqueuedInOrder /\ committed \in Nat
    BY DEF Inv, Types
  <2>2. m \in Nat /\ m < Len(enqueued)
    BY <2>1 DEF Inv, OffsetInv
  <2> QED
    BY <2>1, <2>2, EnqueuedIsBelow
<1> QED
  BY <1>1, Invariance, PTL

\* Both: messages of a partition get their workflows once and in order, and
\* none that is not delivered again is without one.
THEOREM Kept ==
  ASSUME KafkaAssumption
  PROVE  KafkaSpec => []MessagesKept
  BY InOrder, NoneLost, PTL DEF MessagesKept
=============================================================================

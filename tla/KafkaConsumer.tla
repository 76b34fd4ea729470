---------------------------- MODULE KafkaConsumer ---------------------------
(***************************************************************************)
(* The Kafka consumers of processes that share a consumer group            *)
(* (_kafka.py), on one partition: each message is enqueued as a workflow   *)
(* whose ID is made of the topic, the partition, the group and the offset, *)
(* and its offset is stored after that. The client of the consumer commits *)
(* what is stored now and then; whoever is assigned the partition next     *)
(* begins at what is committed.                                            *)
(***************************************************************************)
EXTENDS Naturals, Sequences, FiniteSets

CONSTANTS
    Consumers,      \* one loop in each process
    Messages,       \* the number of messages of the partition
    MaxFaults,      \* bound on crashes, fatal errors, failures and revocations
    MaxLaunches,    \* bound on the launches after the first
    Nobody

KafkaAssumption ==
    /\ Nobody \notin Consumers
    /\ Messages \in Nat /\ MaxFaults \in Nat /\ MaxLaunches \in Nat

VARIABLES
    at,         \* where the loop of each consumer is
    message,    \* the offset of the message it holds
    stopping,   \* its stop_event
    position,   \* the offset its client fetches next
    stored,     \* the offset its client commits next
    assigned,   \* the consumer that has the partition
    committed,  \* the offset of the group, at the broker
    enqueued,   \* the offsets whose workflow exists, in the order of their creation
    faults, launches

kafkaVars == <<at, message, stopping, position, stored, assigned, committed, enqueued, faults, launches>>

Enqueued(m) == \E i \in DOMAIN enqueued : enqueued[i] = m

KafkaInit ==
    /\ at = [c \in Consumers |-> "poll"]
    /\ message = [c \in Consumers |-> 0]
    /\ stopping = [c \in Consumers |-> FALSE]
    /\ position = [c \in Consumers |-> 0]
    /\ stored = [c \in Consumers |-> 0]
    /\ assigned = Nobody
    /\ committed = 0
    /\ enqueued = <<>>
    /\ faults = 0
    /\ launches = 0

Goes(c, l) == at' = [at EXCEPT ![c] = l]

\* Mutant: the client stores the offset itself (enable.auto.offset.store).
PollStores(c) ==
    /\ at[c] = "poll" /\ ~stopping[c] /\ assigned = c /\ position[c] < Messages
    /\ message' = [message EXCEPT ![c] = position[c]]
    /\ position' = [position EXCEPT ![c] = @ + 1]
    /\ stored' = [stored EXCEPT ![c] = position[c] + 1]
    /\ Goes(c, "check")
    /\ UNCHANGED <<stopping, assigned, committed, enqueued, faults, launches>>

\* poll returns a message.
Poll(c) ==
    /\ at[c] = "poll" /\ ~stopping[c] /\ assigned = c /\ position[c] < Messages
    /\ message' = [message EXCEPT ![c] = position[c]]
    /\ position' = [position EXCEPT ![c] = @ + 1]
    /\ Goes(c, "check")
    /\ UNCHANGED <<stopping, stored, assigned, committed, enqueued, faults, launches>>

Check(c) ==
    /\ at[c] = "check" /\ ~stopping[c]
    /\ Goes(c, "enqueue")
    /\ UNCHANGED <<message, stopping, position, stored, assigned, committed, enqueued, faults, launches>>

\* close: the client commits what is stored and gives the partition back.
Gone(c, commits) ==
    /\ committed' = IF assigned = c /\ commits THEN stored[c] ELSE committed
    /\ assigned' = IF assigned = c THEN Nobody ELSE assigned

\* The message is dropped, if there is one.
StopLoop(c) ==
    /\ at[c] \in {"poll", "check"} /\ stopping[c]
    /\ Gone(c, TRUE)
    /\ Goes(c, "closed")
    /\ UNCHANGED <<message, stopping, position, stored, enqueued, faults, launches>>

\* A workflow whose ID exists is not enqueued again.
Enqueue(c) ==
    /\ at[c] = "enqueue"
    /\ enqueued' = IF Enqueued(message[c]) THEN enqueued ELSE Append(enqueued, message[c])
    /\ Goes(c, "store")
    /\ UNCHANGED <<message, stopping, position, stored, assigned, committed, faults, launches>>

\* enqueue raises, and nothing catches it: the loop is over.
EnqueueFails(c) ==
    /\ at[c] = "enqueue" /\ faults < MaxFaults
    /\ Gone(c, TRUE)
    /\ faults' = faults + 1
    /\ Goes(c, "closed")
    /\ UNCHANGED <<message, stopping, position, stored, enqueued, launches>>

\* store_offsets; the client refuses it when the partition was revoked.
StoreOffset(c) ==
    /\ at[c] = "store"
    /\ stored' = [stored EXCEPT ![c] = IF assigned = c THEN message[c] + 1 ELSE @]
    /\ Goes(c, "poll")
    /\ UNCHANGED <<message, stopping, position, assigned, committed, enqueued, faults, launches>>

\* A fatal error: a new client joins the group, and the old one is closed.
Replace(c) ==
    /\ at[c] = "poll" /\ ~stopping[c] /\ faults < MaxFaults
    /\ Gone(c, TRUE)
    /\ faults' = faults + 1
    /\ UNCHANGED <<at, message, stopping, position, stored, enqueued, launches>>

\* destroy sets the event.
Stop(c) ==
    /\ at[c] # "closed" /\ ~stopping[c] /\ launches < MaxLaunches
    /\ stopping' = [stopping EXCEPT ![c] = TRUE]
    /\ UNCHANGED <<at, message, position, stored, assigned, committed, enqueued, faults, launches>>

Crash(c) ==
    /\ at[c] # "closed" /\ faults < MaxFaults
    /\ Gone(c, FALSE)
    /\ faults' = faults + 1
    /\ Goes(c, "closed")
    /\ UNCHANGED <<message, stopping, position, stored, enqueued, launches>>

LaunchAgain(c) ==
    /\ at[c] = "closed" /\ launches < MaxLaunches
    /\ launches' = launches + 1
    /\ stopping' = [stopping EXCEPT ![c] = FALSE]
    /\ Goes(c, "poll")
    /\ UNCHANGED <<message, position, stored, assigned, committed, enqueued, faults>>

-----------------------------------------------------------------------------
(* The client library and the broker.                                      *)

Assign(c) ==
    /\ assigned = Nobody /\ at[c] # "closed"
    /\ assigned' = c
    /\ position' = [position EXCEPT ![c] = committed]
    /\ stored' = [stored EXCEPT ![c] = committed]
    /\ UNCHANGED <<at, message, stopping, committed, enqueued, faults, launches>>

\* A rebalance, before which a client that answers commits.
Revoke(c) ==
    /\ assigned = c /\ faults < MaxFaults
    /\ \E commits \in BOOLEAN : Gone(c, commits)
    /\ faults' = faults + 1
    /\ UNCHANGED <<at, message, stopping, position, stored, enqueued, launches>>

AutoCommit(c) ==
    /\ assigned = c /\ committed # stored[c]
    /\ committed' = stored[c]
    /\ UNCHANGED <<at, message, stopping, position, stored, assigned, enqueued, faults, launches>>

-----------------------------------------------------------------------------
Loop(c) ==
    Poll(c) \/ Check(c) \/ StopLoop(c) \/ Enqueue(c) \/ StoreOffset(c) \/ LaunchAgain(c) \/ Assign(c)

\* poll returns nothing.
PollNothing(c) ==
    /\ at[c] = "poll" /\ ~stopping[c]
    /\ assigned = c => position[c] = Messages
    /\ UNCHANGED kafkaVars

AllClosed == \A c \in Consumers : at[c] = "closed"

KafkaNext ==
    \/ \E c \in Consumers :
          \/ Loop(c) \/ PollNothing(c) \/ EnqueueFails(c) \/ Replace(c) \/ Stop(c) \/ Crash(c)
          \/ Revoke(c) \/ AutoCommit(c)
    \/ AllClosed /\ UNCHANGED kafkaVars

KafkaSpec == KafkaInit /\ [][KafkaNext]_kafkaVars

\* The variables have their types.
KafkaTypeOK ==
    /\ at \in [Consumers -> {"poll", "check", "enqueue", "store", "closed"}]
    /\ committed \in 0..Messages
    /\ \A c \in Consumers : position[c] \in 0..Messages /\ stored[c] \in 0..Messages
    /\ assigned \in Consumers \cup {Nobody}
    /\ assigned # Nobody => at[assigned] # "closed"

\* No message is lost: a message the group will not be delivered again has a
\* workflow (the offset is stored after enqueue, and the partition may have
\* gone to another consumer meanwhile).
CommittedEnqueued == \A m \in 0..(committed - 1) : Enqueued(m)

\* The workflows of the partition are created once each, in the order of its
\* messages, which is what in_order promises.
EnqueuedInOrder == \A i \in DOMAIN enqueued : enqueued[i] = i - 1

\* Messages of a partition get their workflows once and in order, and none that
\* is not delivered again is without one (_kafka_consumer_loop).
MessagesKept == CommittedEnqueued /\ EnqueuedInOrder

\* There are messages to enqueue, and a consumer that runs or will.
Waiting ==
    /\ \E m \in 0..(Messages - 1) : ~Enqueued(m)
    /\ ~(AllClosed /\ launches = MaxLaunches)
=============================================================================

--------------------------- MODULE MCCommunication --------------------------
(***************************************************************************)
(* Instances of Notifications, WorkflowEvents and Streams for the model    *)
(* checker. Every behaviour is one of the scenarios below, from the start  *)
(* to the end. The constants of Notifications are those of the scenario    *)
(* "received", and no message is sent in the scenarios of the other two;   *)
(* their variables are None where they are not used.                       *)
(***************************************************************************)
EXTENDS Notifications

VARIABLES
    scenario,
    recorded,                                 \* of WorkflowEvents and Streams
    event, history, setter, get, got,
    status, stream, exec, reader

One(S) == [x \in S |-> "p1"]
Msgs == {"m1", "m2"}
Batches == [s \in {"s1", "s2"} |-> IF s = "s1" THEN {"m1"} ELSE {"m2"}]
OneTopic == [m \in Msgs |-> 1]
\* The first message has an idempotency key; the second is sent by a workflow.
FirstKeyed == [m \in Msgs |-> IF m = "m1" THEN 1 ELSE None]

OneProcess == One({"x1"})
TwoRecvs == <<1, 1>>

\* "received": a workflow receives twice, crashes, and answers to its commits
\* are lost.

\* One workflow sends two messages in one step; the topics differ.
Bulk == INSTANCE Notifications WITH
    Processes <- {"p1"}, Executions <- {"x1"}, ProcOf <- One({"x1"}),
    RecvTopics <- <<1, 2>>, Sends <- {"s2"}, Batch <- [s \in {"s2"} |-> Msgs],
    TopicOf <- [m \in Msgs |-> IF m = "m1" THEN 1 ELSE 2],
    Key <- [m \in Msgs |-> None], InWorkflow <- {"s2"}, Timeout <- 1, ListenNotify <- TRUE,
    Gathered <- TRUE, MaxCancels <- 0, SameInstant <- FALSE,
    MaxTime <- 1, MaxCrashes <- 1, MaxLost <- 1, MaxDrops <- 0

\* Two processes execute the workflow; their listeners poll.
Twice == INSTANCE Notifications WITH
    Processes <- {"p1", "p2"}, Executions <- {"x1", "x2"},
    ProcOf <- [x \in {"x1", "x2"} |-> IF x = "x1" THEN "p1" ELSE "p2"],
    RecvTopics <- <<1, 1>>, Sends <- {"s1", "s2"}, Batch <- Batches, TopicOf <- OneTopic,
    Key <- FirstKeyed, InWorkflow <- {"s2"}, Timeout <- 1, ListenNotify <- FALSE,
    Gathered <- FALSE, MaxCancels <- 0, SameInstant <- FALSE,
    MaxTime <- 1, MaxCrashes <- 0, MaxLost <- 0, MaxDrops <- 0

\* Two executions in one process, whose recv_async calls are cancelled.
Cancelled == INSTANCE Notifications WITH
    Processes <- {"p1"}, Executions <- {"x1", "x2"}, ProcOf <- One({"x1", "x2"}),
    RecvTopics <- <<1>>, Sends <- {"s1"}, Batch <- Batches, TopicOf <- OneTopic,
    Key <- FirstKeyed, InWorkflow <- {}, Timeout <- 1, ListenNotify <- TRUE,
    Gathered <- FALSE, MaxCancels <- 2, SameInstant <- FALSE,
    MaxTime <- 1, MaxCrashes <- 0, MaxLost <- 0, MaxDrops <- 0

\* Two executions in two processes may record at the same millisecond.
Tied == INSTANCE Notifications WITH
    Processes <- {"p1", "p2"}, Executions <- {"x1", "x2"},
    ProcOf <- [x \in {"x1", "x2"} |-> IF x = "x1" THEN "p1" ELSE "p2"],
    RecvTopics <- <<1>>, Sends <- {"s1"}, Batch <- Batches, TopicOf <- OneTopic,
    Key <- FirstKeyed, InWorkflow <- {}, Timeout <- 1, ListenNotify <- TRUE,
    Gathered <- FALSE, MaxCancels <- 0, SameInstant <- TRUE,
    MaxTime <- 1, MaxCrashes <- 0, MaxLost <- 0, MaxDrops <- 0

\* The listener loses its connection.
Deaf == INSTANCE Notifications WITH
    Processes <- {"p1"}, Executions <- {"x1"}, ProcOf <- One({"x1"}),
    RecvTopics <- <<1, 1>>, Sends <- {"s1", "s2"}, Batch <- Batches, TopicOf <- OneTopic,
    Key <- FirstKeyed, InWorkflow <- {"s2"}, Timeout <- 1, ListenNotify <- TRUE,
    Gathered <- FALSE, MaxCancels <- 0, SameInstant <- FALSE,
    MaxTime <- 1, MaxCrashes <- 1, MaxLost <- 0, MaxDrops <- 1

\* Getters 1 and 2 are two executions of one call of a workflow, 3 is outside.
CallsOf(G) == [g \in G |-> IF g = 3 THEN None ELSE 1]

\* The event is set from a step and from the workflow.
Answered == INSTANCE WorkflowEvents WITH
    Setters <- {1}, Program <- <<"step", "workflow">>, Getters <- {1, 3},
    CallOf <- CallsOf({1, 3}), Timeout <- 1, MaxTime <- 2, MaxCrashes <- 1, MaxLost <- 0,
    MaxDrops <- 1

\* Two executions set it, and two read it.
Contended == INSTANCE WorkflowEvents WITH
    Setters <- {1, 2}, Program <- <<"workflow", "workflow">>, Getters <- {1, 2},
    CallOf <- CallsOf({1, 2}), Timeout <- 0, MaxTime <- 0, MaxCrashes <- 1, MaxLost <- 1,
    MaxDrops <- 0

\* Two calls wait at the shared entry; notifications are lost.
Shared == INSTANCE WorkflowEvents WITH
    Setters <- {1}, Program <- <<"step", "workflow">>, Getters <- {1, 3},
    CallOf <- CallsOf({1, 3}), Timeout <- 1, MaxTime <- 1, MaxCrashes <- 1, MaxLost <- 0,
    MaxDrops <- 2

\* A stream with an end mark, read by two readers.
Closed == INSTANCE Streams WITH
    Executions <- {1}, Program <- <<"write", "step", "write", "close">>, Readers <- {1, 2},
    MayCancel <- FALSE, MaxCrashes <- 1, MaxLost <- 1

\* Two executions write it, and the workflow may be cancelled.
Written == INSTANCE Streams WITH
    Executions <- {1, 2}, Program <- <<"write", "step", "write", "close">>, Readers <- {},
    MayCancel <- TRUE, MaxCrashes <- 1, MaxLost <- 1

\* The workflow ends without closing it.
Unclosed == INSTANCE Streams WITH
    Executions <- {1, 2}, Program <- <<"write", "step", "write">>, Readers <- {1},
    MayCancel <- FALSE, MaxCrashes <- 1, MaxLost <- 1

ASSUME ScenarioAssumption ==
    /\ NotificationsAssumption /\ Idempotent /\ ~Gathered /\ Bulk!NotificationsAssumption
    /\ Twice!NotificationsAssumption /\ Cancelled!NotificationsAssumption
    /\ Tied!NotificationsAssumption /\ Deaf!NotificationsAssumption
    /\ Answered!EventsAssumption /\ Contended!EventsAssumption /\ Shared!EventsAssumption
    /\ Closed!StreamsAssumption /\ Written!StreamsAssumption /\ Unclosed!StreamsAssumption

waitVars == <<now, sleeps, entry, notifies, drops>>
messageVars == <<messages, ops, call, parked, listening, cancels>>
eventVars == <<event, history, setter, get, got>>
streamVars == <<status, stream, exec, reader>>
allVars == <<scenario, crashes, lost, recorded, waitVars, messageVars, eventVars, streamVars>>

NoWait == now = None /\ sleeps = None /\ entry = None /\ notifies = None /\ drops = None
NoMessages ==
    /\ table = <<>> /\ sending = {} /\ sendStep = {} /\ tied = FALSE
    /\ ops = [i \in Recvs |-> None] /\ call = [x \in Executions |-> [i \in Recvs |-> NoCall]]
    /\ parked = {} /\ listening = {} /\ cancels = 0
NoEvent == event = None /\ history = None /\ setter = None /\ get = None /\ got = None
NoStream == status = None /\ stream = None /\ exec = None /\ reader = None

MCInit ==
    \/ /\ NoEvent /\ NoStream /\ recorded = None
       /\ \/ scenario = "received" /\ Init
          \/ scenario = "bulk" /\ Bulk!Init
          \/ scenario = "twice" /\ Twice!Init
          \/ scenario = "cancelled" /\ Cancelled!Init
          \/ scenario = "tied" /\ Tied!Init
          \/ scenario = "deaf" /\ Deaf!Init
    \/ /\ NoMessages /\ NoStream
       /\ \/ scenario = "answered" /\ Answered!Init
          \/ scenario = "contended" /\ Contended!Init
          \/ scenario = "shared" /\ Shared!Init
    \/ /\ NoMessages /\ NoEvent /\ NoWait
       /\ \/ scenario = "closed" /\ Closed!Init
          \/ scenario = "written" /\ Written!Init
          \/ scenario = "unclosed" /\ Unclosed!Init

MCNext ==
    /\ UNCHANGED scenario
    /\ \/ /\ \/ scenario = "received" /\ Next
             \/ scenario = "bulk" /\ Bulk!Next
             \/ scenario = "twice" /\ Twice!Next
             \/ scenario = "cancelled" /\ Cancelled!Next
             \/ scenario = "tied" /\ Tied!Next
             \/ scenario = "deaf" /\ Deaf!Next
          /\ UNCHANGED <<eventVars, streamVars, recorded>>
       \/ /\ \/ scenario = "answered" /\ Answered!Next
             \/ scenario = "contended" /\ Contended!Next
             \/ scenario = "shared" /\ Shared!Next
          /\ UNCHANGED <<messageVars, streamVars>>
       \/ /\ \/ scenario = "closed" /\ Closed!Next
             \/ scenario = "written" /\ Written!Next
             \/ scenario = "unclosed" /\ Unclosed!Next
          /\ UNCHANGED <<messageVars, eventVars, waitVars>>

\* The threads of the processes run; the clock may stand still.
Fairness ==
    /\ \A i \in {1, 2} : WF_(Deaf!vars)(scenario = "deaf" /\ Deaf!Recv("x1", i))
    /\ \A s \in {"s1", "s2"} : WF_(Deaf!vars)(scenario = "deaf" /\ Deaf!Send(s))
    /\ WF_(Shared!vars)(scenario = "shared" /\ Shared!Set(1))
    /\ \A g \in {1, 3} : WF_(Shared!vars)(scenario = "shared" /\ Shared!Get(g))
    /\ \A x \in {1, 2} : WF_(Unclosed!vars)(scenario = "unclosed" /\ Unclosed!Write(x))
    /\ WF_(Unclosed!vars)(scenario = "unclosed" /\ Unclosed!Follow(1))

MCSpec == MCInit /\ [][MCNext]_allVars /\ Fairness

-----------------------------------------------------------------------------
(* Properties, stated in the modules and here for their scenarios.         *)

\* The type invariants of the modules: an event object is set only while calls
\* hold its entry of notifications_map or workflow_events_map.
TypesOK ==
    CASE scenario = "received" -> TypeOK
      [] scenario = "bulk" -> Bulk!TypeOK
      [] scenario = "twice" -> Twice!TypeOK
      [] scenario = "cancelled" -> Cancelled!TypeOK
      [] scenario = "tied" -> Tied!TypeOK
      [] scenario = "deaf" -> Deaf!TypeOK
      [] scenario = "answered" -> Answered!TypeOK
      [] scenario = "contended" -> Contended!TypeOK
      [] scenario = "shared" -> Shared!TypeOK
      [] scenario = "closed" -> Closed!TypeOK
      [] scenario = "written" -> Written!TypeOK
      [] scenario = "unclosed" -> Unclosed!TypeOK

\* With the polling listener a recv records null only once its recorded
\* timeout has passed (recv).
RecvGivesUpLate == [][ scenario = "twice" => Twice!GivesUpLate ]_allVars

\* An execution after a crash waits until the end that the first one recorded
\* for the timeout of its recv (sleep as a step of recv).
RecvTimeoutKept ==
    /\ scenario = "received" => TimeoutKept
    /\ scenario = "tied" => Tied!TimeoutKept
    /\ scenario = "deaf" => Deaf!TimeoutKept

\* No call that has returned leaves an entry of notifications_map behind,
\* however it was cancelled, a second cancellation during its setup aside
\* (recv_setup, ThreadSafeEventDict).
RecvLeavesNothing ==
    /\ scenario = "cancelled" => Cancelled!NoStaleEntry
    /\ scenario = "bulk" => Bulk!NoStaleEntry

\* As long as a recv has no recorded output an execution goes on that is not
\* parked as a duplicate, if no two records carry the same time
\* (DBOSWorkflowConflictIDError).
OneProceeds ==
    /\ scenario = "received" => SomeoneProceeds
    /\ scenario = "twice" => Twice!SomeoneProceeds

\* A recv that waits while a message is there comes back, although the
\* notification was lost (recv: the poll of its wait loop).
Wakes ==
    \A i \in {1, 2} :
        LET starved == scenario = "deaf" /\ Deaf!Starved("x1", i)
        IN  starved ~> ~starved

\* The event holds what the last recorded set_event set: an execution that
\* lags behind does not put an earlier value back (set_event_from_workflow).
LatestValue == scenario = "contended" => Contended!LatestValue

\* The history of the event, which a fork rebuilds it from, has an entry for
\* every recorded set_event (workflow_events_history).
HistoryAgrees == scenario = "contended" => Contended!HistoryAgrees

\* A get_event of a workflow has one result, however often it is executed,
\* although the event changes between reading and recording (get_event).
OneAnswer ==
    /\ scenario = "answered" => Answered!OneAnswer
    /\ scenario = "contended" => Contended!OneAnswer

\* get_event returns null only after its timeout (get_event).
NullLate ==
    [][ /\ scenario = "answered" => Answered!NullLate
        /\ scenario = "shared" => Shared!NullLate ]_allVars

\* Every call at the shared event comes back once the event is set, though
\* notifications are lost (get_event: the poll of its wait loop).
AllWake ==
    \A g \in {1, 3} :
        LET starved == scenario = "shared" /\ Shared!Starved(g)
        IN  starved ~> ~starved

\* What the workflow itself writes is in the stream exactly once, when its
\* operation is recorded (write_stream_from_workflow).
WrittenOnce ==
    /\ scenario = "closed" => Closed!WrittenOnce
    /\ scenario = "written" => Written!WrittenOnce
    /\ scenario = "unclosed" => Unclosed!WrittenOnce

\* The stream keeps the order of the workflow's own writes (write_stream).
KeepsOrder ==
    /\ scenario = "closed" => Closed!KeepsOrder
    /\ scenario = "written" => Written!KeepsOrder

\* A reader that has stopped has yielded the whole stream, and the stream
\* does not grow behind it (read_stream).
ReadsAll == scenario = "closed" => Closed!ReadsAll

\* A reader comes to its end: at the end mark, or because the workflow is
\* done (read_stream).
ReaderStops == scenario = "unclosed" ~> scenario = "unclosed" /\ ~Unclosed!Reading(1)
-----------------------------------------------------------------------------
(* What the run checks.                                                    *)

\* The variables have their types; a wait is as long as it was recorded to be,
\* leaves nothing behind when it is cancelled, and refuses at most the duplicates
\* of an execution that goes on (recv, get_event).
WaitsKept ==
    /\ [](TypesOK /\ RecvTimeoutKept /\ RecvLeavesNothing /\ OneProceeds)
    /\ RecvGivesUpLate /\ NullLate

\* An event has the value that was set last, a history of all of them, and one
\* answer for every call (set_event_from_workflow, get_event).
EventsAgree == LatestValue /\ HistoryAgrees /\ OneAnswer

\* A stream has what the workflow wrote once and in order, and a reader that
\* has stopped has yielded all of it (write_stream_from_workflow, read_stream).
StreamsWhole == WrittenOnce /\ KeepsOrder /\ ReadsAll

\* Whoever waits for a message, an event or a stream that is there comes back
\* although notifications are lost (recv, get_event, read_stream).
WaitersReturn == Wakes /\ AllWake /\ ReaderStops
=============================================================================

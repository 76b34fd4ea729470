--------------------------- MODULE WorkflowEvents ---------------------------
(***************************************************************************)
(* One event of a workflow: the executions of the workflow that set it and *)
(* the get_event calls that wait for it in one process, some of them       *)
(* operations of a calling workflow. Unlike recv, get_event calls share    *)
(* one in-process event, and take nothing away.                            *)
(***************************************************************************)
EXTENDS Naturals, FiniteSets, FiniteSetsExt, Sequences

CONSTANTS
    Setters,        \* executions of the workflow that sets the event
    Program,        \* its set_event calls: from the "workflow" or from a "step"
    Getters,        \* get_event calls in progress in the process
    CallOf,         \* getter -> the operation of its workflow it is, or None
    Timeout,
    MaxTime, MaxCrashes, MaxLost, MaxDrops,  \* bounds
    None

Ops == DOMAIN Program
Calls == {CallOf[g] : g \in Getters} \ {None}

EventsAssumption ==
    /\ \A i \in Ops : Program[i] \in {"workflow", "step"}
    /\ DOMAIN CallOf = Getters
    /\ {Timeout, MaxTime, MaxCrashes, MaxLost, MaxDrops} \subseteq Nat

VARIABLES
    now,
    event,      \* the row of workflow_events: the call that set it, 0 if none
    history,    \* rows of workflow_events_history
    recorded,   \* set_event calls and steps with a recorded output
    setter,     \* execution -> where it is
    get,        \* getter -> the state of its call
    got,        \* call -> recorded output, or None
    sleeps,     \* call -> recorded end of its timeout, or None
    entry,      \* the entry of workflow_events_map
    notifies,   \* NOTIFYs on their way
    crashes, lost, drops

vars == <<now, event, history, recorded, setter, get, got, sleeps, entry, notifies,
          crashes, lost, drops>>
setting == <<event, history, recorded, setter>>
getting == <<get, got, sleeps, entry>>
bounds == <<crashes, lost, drops>>

NoGet == [pc |-> "idle", res |-> None, read |-> None, until |-> None]
NoEntry == [count |-> 0, set |-> FALSE]

Init ==
    /\ now = 0 /\ event = 0 /\ history = {} /\ recorded = {}
    /\ setter = [x \in Setters |-> [op |-> 1, pc |-> "next"]]
    /\ get = [g \in Getters |-> NoGet]
    /\ got = [c \in Calls |-> None] /\ sleeps = [c \in Calls |-> None]
    /\ entry = NoEntry /\ notifies = 0
    /\ crashes = 0 /\ lost = 0 /\ drops = 0

(***************************************************************************)
(* set_event                                                               *)
(***************************************************************************)
Goto(x, pc) == setter' = [setter EXCEPT ![x].pc = pc]
Advance(x) == setter' = [setter EXCEPT ![x] = [op |-> setter[x].op + 1, pc |-> "next"]]
Op(x) == setter[x].op

\* The upserts of both tables; the trigger notifies.
Upsert(i) ==
    /\ event' = i /\ history' = history \cup {i}
    /\ notifies' = notifies + 1

\* check_operation_execution, in the transaction of a set_event of the
\* workflow, and before the body of a step.
SetCheck(x) ==
    /\ Op(x) \in Ops /\ setter[x].pc = "next"
    /\ IF Op(x) \in recorded THEN Advance(x) ELSE Goto(x, Program[Op(x)])
    /\ UNCHANGED <<now, event, history, recorded, getting, notifies, bounds>>

\* set_event_from_workflow: the upserts and the record commit together; the
\* record of another execution aborts them.
SetCommit(x) ==
    /\ setter[x].pc = "workflow"
    /\ \/ /\ Op(x) \in recorded
          /\ Goto(x, "stopped") /\ UNCHANGED <<event, history, recorded, notifies, lost>>
       \/ /\ Op(x) \notin recorded
          /\ Upsert(Op(x)) /\ recorded' = recorded \cup {Op(x)}
          /\ \/ Advance(x) /\ UNCHANGED lost
             \/ lost < MaxLost /\ lost' = lost + 1 /\ Goto(x, "next")
    /\ UNCHANGED <<now, getting, crashes, drops>>

\* set_event_from_step: not recorded; its step is, afterwards.
StepSet(x) ==
    /\ setter[x].pc = "step"
    /\ Upsert(Op(x)) /\ Goto(x, "record")
    /\ UNCHANGED <<now, recorded, getting, bounds>>

RecordStep(x) ==
    /\ setter[x].pc = "record"
    /\ IF Op(x) \in recorded
       THEN Goto(x, "stopped") /\ UNCHANGED recorded
       ELSE Advance(x) /\ recorded' = recorded \cup {Op(x)}
    /\ UNCHANGED <<now, event, history, getting, notifies, bounds>>

SetterCrash(x) ==
    /\ crashes < MaxCrashes /\ crashes' = crashes + 1
    /\ setter' = [setter EXCEPT ![x] = [op |-> 1, pc |-> "next"]]
    /\ UNCHANGED <<now, event, history, recorded, getting, notifies, lost, drops>>

Set(x) == SetCheck(x) \/ SetCommit(x) \/ StepSet(x) \/ RecordStep(x)

(***************************************************************************)
(* get_event                                                               *)
(***************************************************************************)
Put(g, r) == get' = [get EXCEPT ![g] = r]
Recorded(g) == CallOf[g] # None /\ got[CallOf[g]] # None
Popped == IF entry.count <= 1 THEN NoEntry ELSE [entry EXCEPT !.count = @ - 1]
Checked == [entry EXCEPT !.set = @ \/ event # 0]
After(d) == IF now + d < MaxTime THEN now + d ELSE MaxTime

\* get_event_setup: the recorded output, or a place at the shared event.
GetSetup(g) ==
    /\ get[g].pc = "idle"
    /\ IF Recorded(g)
       THEN Put(g, [get[g] EXCEPT !.pc = "done", !.res = got[CallOf[g]]]) /\ UNCHANGED entry
       ELSE Put(g, [get[g] EXCEPT !.pc = "check"]) /\ entry' = [entry EXCEPT !.count = @ + 1]
    /\ UNCHANGED <<now, setting, got, sleeps, notifies, bounds>>

GetCheck(g) ==
    /\ get[g].pc = "check"
    /\ entry' = Checked
    /\ Put(g, [get[g] EXCEPT !.pc = "sleep"])
    /\ UNCHANGED <<now, setting, got, sleeps, notifies, bounds>>

\* record_sleep, for a call that is an operation of a workflow: the recorded
\* end, or an end of its own, which it keeps if another one gets recorded.
GetSleep(g) ==
    LET c == CallOf[g] IN
    /\ get[g].pc = "sleep"
    /\ Put(g, CASE c = None -> [get[g] EXCEPT !.pc = "wait", !.until = After(Timeout)]
                [] c # None /\ sleeps[c] # None -> [get[g] EXCEPT !.pc = "wait", !.until = sleeps[c]]
                [] OTHER -> [get[g] EXCEPT !.pc = "sleeprec", !.until = After(Timeout)])
    /\ UNCHANGED <<now, setting, got, sleeps, entry, notifies, bounds>>

GetSleepRecord(g) ==
    /\ get[g].pc = "sleeprec"
    /\ sleeps' = [sleeps EXCEPT ![CallOf[g]] = IF @ = None THEN get[g].until ELSE @]
    /\ Put(g, [get[g] EXCEPT !.pc = "wait"])
    /\ UNCHANGED <<now, setting, got, entry, notifies, bounds>>

Recheck(g) ==
    /\ get[g].pc = "wait" /\ ~entry.set /\ event # 0 /\ now < get[g].until
    /\ entry' = Checked
    /\ UNCHANGED <<now, setting, get, got, sleeps, notifies, bounds>>

Awake(g) == entry.set \/ now >= get[g].until

\* get_event_consume reads the value ...
GetRead(g) ==
    /\ get[g].pc = "wait" /\ Awake(g)
    /\ IF CallOf[g] = None
       THEN /\ Put(g, [get[g] EXCEPT !.pc = "done", !.res = event])
            /\ entry' = Popped
       ELSE /\ Put(g, [get[g] EXCEPT !.pc = "record", !.read = event])
            /\ UNCHANGED entry
    /\ UNCHANGED <<now, setting, got, sleeps, notifies, bounds>>

\* Mutant: the value is read again when it is recorded.
GetRecordLate(g) ==
    /\ get[g].pc = "record"
    /\ got' = [got EXCEPT ![CallOf[g]] = event]
    /\ Put(g, [get[g] EXCEPT !.pc = "done", !.res = get[g].read])
    /\ entry' = Popped
    /\ UNCHANGED <<now, setting, sleeps, notifies, bounds>>

\* ... and records it afterwards, in another transaction; the record of
\* another execution of the caller is a conflict.
GetRecord(g) ==
    /\ get[g].pc = "record"
    /\ entry' = Popped
    /\ IF got[CallOf[g]] = None
       THEN /\ got' = [got EXCEPT ![CallOf[g]] = get[g].read]
            /\ Put(g, [get[g] EXCEPT !.pc = "done", !.res = get[g].read])
       ELSE Put(g, [get[g] EXCEPT !.pc = "parked"]) /\ UNCHANGED got
    /\ UNCHANGED <<now, setting, sleeps, notifies, bounds>>

Get(g) ==
    \/ GetSetup(g) \/ GetCheck(g) \/ GetSleep(g) \/ GetSleepRecord(g)
    \/ Recheck(g) \/ GetRead(g) \/ GetRecord(g)

\* The process of the getters crashes; their workflows are executed again.
GetterCrash ==
    /\ crashes < MaxCrashes /\ crashes' = crashes + 1
    /\ get' = [g \in Getters |-> NoGet] /\ entry' = NoEntry /\ notifies' = 0
    /\ UNCHANGED <<now, setting, got, sleeps, lost, drops>>

(***************************************************************************)
(* The listener and the clock                                              *)
(***************************************************************************)
Notify ==
    /\ notifies > 0 /\ notifies' = notifies - 1
    /\ entry' = [entry EXCEPT !.set = @ \/ entry.count > 0]
    /\ UNCHANGED <<now, setting, get, got, sleeps, bounds>>

Drop ==
    /\ notifies > 0 /\ drops < MaxDrops
    /\ drops' = drops + 1 /\ notifies' = 0
    /\ UNCHANGED <<now, setting, getting, crashes, lost>>

Tick ==
    /\ now < MaxTime /\ now' = now + 1
    /\ UNCHANGED <<setting, getting, notifies, bounds>>

Finished ==
    /\ \A x \in Setters : setter[x].pc = "stopped" \/ Op(x) \notin Ops
    /\ \A g \in Getters : get[g].pc \in {"done", "parked"}
    /\ UNCHANGED vars

Next ==
    \/ \E x \in Setters : Set(x) \/ SetterCrash(x)
    \/ \E g \in Getters : Get(g)
    \/ GetterCrash \/ Notify \/ Drop \/ Tick \/ Finished

Spec == Init /\ [][Next]_vars

(***************************************************************************)
(* Properties                                                              *)
(***************************************************************************)
TypeOK ==
    /\ now \in 0..MaxTime /\ event \in {0} \cup Ops
    /\ history \subseteq Ops /\ recorded \subseteq Ops
    /\ got \in [Calls -> {None, 0} \cup Ops]
    /\ entry.set => entry.count > 0
    /\ entry.count = Cardinality({g \in Getters :
                         get[g].pc \in {"check", "sleep", "sleeprec", "wait", "record"}})

\* The event holds what the last set_event of the workflow recorded: an
\* execution that lags behind does not put an earlier value back.
LatestValue ==
    event = IF recorded = {} THEN 0 ELSE Max(recorded)

\* The history of the event, from which a fork rebuilds it, has an entry for
\* every recorded set_event and no other.
HistoryAgrees == history = recorded

\* A get_event of a workflow has one result, however often it is executed,
\* although the event changes between its reading and its recording.
OneAnswer ==
    \A g \in Getters : CallOf[g] # None => get[g].res \in {None, got[CallOf[g]]}

\* get_event returns null only after its timeout: nothing but the event wakes
\* it, so that it reads a value when it is woken.
NullLate ==
    \A g \in Getters : get[g].pc = "wait" /\ get'[g].pc # "wait" /\ now < get[g].until
        => event # 0 \/ get'[g] = NoGet

\* A get_event waits although the event is set.
Starved(g) == get[g].pc = "wait" /\ event # 0
=============================================================================

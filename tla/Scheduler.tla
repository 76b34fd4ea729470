----------------------------- MODULE Scheduler -----------------------------
(***************************************************************************)
(* A cron schedule. In every executor a scheduler loop polls the schedule  *)
(* and keeps a thread for it, which enqueues one workflow per time of the  *)
(* schedule. Executors crash and restart, and the schedule is paused,      *)
(* resumed, redefined, deleted and created again while they run.           *)
(***************************************************************************)
EXTENDS Integers, FiniteSets

CONSTANTS
    Executors,
    Steady,         \* the executors that never crash
    Ticks,          \* the times of the cron expression
    Backfill,       \* automatic_backfill
    MaxTime,        \* bound: the clock
    MaxCrashes,     \* bound: crashes
    MaxFails,       \* bound: exceptions while firing
    Ops,            \* what is done to the schedule
    MaxOps,         \* bound: how often
    None

SchedulerAssumption ==
    /\ Steady \subseteq Executors /\ Ticks \subseteq Nat /\ Backfill \in BOOLEAN
    /\ MaxTime \in Nat /\ MaxCrashes \in Nat /\ MaxFails \in Nat /\ MaxOps \in Nat

VARIABLES
    now,
    sched,      \* the row of workflow_schedules
    rows,       \* tick -> how often a workflow was created for it
    loop,       \* executor -> where its scheduler loop is, and the row it read
    thr,        \* executor -> its thread for the schedule
    old,        \* executor -> threads that were stopped while they fired
    since,      \* history: when a steady executor got a thread; the first firing if there is none
    crashes, fails, ops

vars == <<now, sched, rows, loop, thr, old, since, crashes, fails, ops>>

Never == MaxTime + 1

\* croniter.get_next: the first time of the schedule after t.
TickAfter(t) ==
    LET later == {k \in Ticks : k > t /\ k <= MaxTime} IN
    IF later = {} THEN Never ELSE CHOOSE k \in later : \A j \in later : k <= j

Init ==
    /\ now = 0
    /\ sched = [id |-> 1, status |-> "ACTIVE", def |-> 1, lastFired |-> None]
    /\ rows = [t \in Ticks |-> 0]
    /\ loop = [e \in Executors |-> [pc |-> "poll", row |-> None, from |-> 0, to |-> 0]]
    /\ thr = [e \in Executors |-> None] /\ old = [e \in Executors |-> {}]
    /\ since = None /\ crashes = 0 /\ fails = 0 /\ ops = 0

NewThread(s) == [pc |-> "wait", next |-> TickAfter(now), id |-> s.id, def |-> s.def]

Idle == [pc |-> "poll", row |-> None, from |-> 0, to |-> 0]

\* stop: a thread that waits ends at once, one that fires finishes that first.
Stopped(e) == IF thr[e] = None \/ thr[e].pc = "wait" THEN old[e] ELSE old[e] \cup {thr[e]}

StartThread(e, s) ==
    /\ thr' = [thr EXCEPT ![e] = NewThread(s)]
    /\ since' = IF since = None /\ e \in Steady THEN now ELSE since

\* Mutant: any change of a schedule is overlooked.
SameSignature(t, s) == TRUE

Unchanged(t, s) == t.def = s.def

\* list_schedules.
Poll(e) ==
    /\ loop[e].pc = "poll"
    /\ loop' = [loop EXCEPT ![e].pc = "act", ![e].row = sched]
    /\ UNCHANGED <<now, sched, rows, thr, old, since, crashes, fails, ops>>

\* The body of the loop, for the row that was read.
Act(e) ==
    /\ loop[e].pc = "act"
    /\ LET s    == loop[e].row
           gone == IF thr[e] = None \/ s = None THEN FALSE ELSE thr[e].id # s.id
           cur  == IF gone THEN None ELSE thr[e] IN
       \/ /\ IF s = None THEN TRUE ELSE s.status # "ACTIVE"
          /\ thr' = [thr EXCEPT ![e] = None] /\ old' = [old EXCEPT ![e] = Stopped(e)]
          /\ loop' = [loop EXCEPT ![e] = Idle] /\ UNCHANGED since
       \/ /\ s # None /\ s.status = "ACTIVE" /\ cur # None
          /\ loop' = [loop EXCEPT ![e] = Idle]
          /\ IF Unchanged(cur, s) THEN UNCHANGED <<thr, old, since>>
             ELSE StartThread(e, s) /\ old' = [old EXCEPT ![e] = Stopped(e)]
       \/ /\ s # None /\ s.status = "ACTIVE" /\ cur = None
          /\ old' = [old EXCEPT ![e] = Stopped(e)]
          /\ IF Backfill /\ s.lastFired # None /\ s.lastFired < now /\ sched # None
             THEN /\ loop' = [loop EXCEPT ![e].pc = "backfill", ![e].from = s.lastFired, ![e].to = now]
                  /\ thr' = [thr EXCEPT ![e] = None] /\ UNCHANGED since
             ELSE StartThread(e, s) /\ loop' = [loop EXCEPT ![e] = Idle]
    /\ UNCHANGED <<now, sched, rows, crashes, fails, ops>>

\* init_workflow with the id of the tick.
Created(t) == [rows EXCEPT ![t] = IF @ = 0 THEN 1 ELSE @]

\* backfill_schedule enqueues its next tick. (It looks for the workflow first;
\* as the insert does nothing when there is one, that makes no difference.)
BackfillNext(e) ==
    /\ loop[e].pc = "backfill" /\ TickAfter(loop[e].from) < loop[e].to
    /\ rows' = Created(TickAfter(loop[e].from))
    /\ loop' = [loop EXCEPT ![e].from = TickAfter(@)]
    /\ UNCHANGED <<now, sched, thr, old, since, crashes, fails, ops>>

\* After the last tick, or an exception, the thread is started.
BackfillEnd(e) ==
    /\ loop[e].pc = "backfill"
    /\ \/ TickAfter(loop[e].from) >= loop[e].to /\ UNCHANGED fails
       \/ TickAfter(loop[e].from) < loop[e].to /\ fails < MaxFails /\ fails' = fails + 1
    /\ StartThread(e, loop[e].row)
    /\ loop' = [loop EXCEPT ![e] = Idle]
    /\ UNCHANGED <<now, sched, rows, old, crashes, ops>>

Loop(e) == Poll(e) \/ Act(e) \/ BackfillNext(e) \/ BackfillEnd(e)

\* Mutant: the next tick is counted from now, not from the last one.
FromNow(t) == [t EXCEPT !.pc = "wait", !.next = TickAfter(now)]

\* A thread goes on to the next time, in order.
Advance(t) == [t EXCEPT !.pc = "wait", !.next = TickAfter(@)]

Fired(t) == {[t EXCEPT !.pc = "update"], [t EXCEPT !.pc = "insert"], Advance(t)}

\* One step of a thread t that fires, and becomes u.
FireStep(t, u) ==
    \/ /\ t.pc = "check"
       /\ u = [t EXCEPT !.pc = IF rows[t.next] > 0 THEN "update" ELSE "insert"]
       /\ UNCHANGED <<rows, sched, since, fails>>
    \/ /\ t.pc = "insert"
       /\ rows' = Created(t.next) /\ u = [t EXCEPT !.pc = "update"]
       /\ UNCHANGED <<sched, since, fails>>
    \/ /\ t.pc = "update"
       /\ sched' = IF sched = None THEN None ELSE [sched EXCEPT !.lastFired = t.next]
       /\ since' = IF since = None /\ Steady = {} THEN t.next ELSE since
       /\ u = Advance(t)
       /\ UNCHANGED <<rows, fails>>
    \/ /\ t.pc # "wait" /\ fails < MaxFails /\ fails' = fails + 1
       /\ u = Advance(t)
       /\ UNCHANGED <<rows, sched, since>>

\* The wait, with its jitter, is over.
Wake(e) ==
    /\ thr[e] # None /\ thr[e].pc = "wait" /\ thr[e].next <= now
    /\ thr' = [thr EXCEPT ![e].pc = "check"]
    /\ UNCHANGED <<now, sched, rows, loop, old, since, crashes, fails, ops>>

Fire(e) ==
    /\ thr[e] # None
    /\ \E u \in Fired(thr[e]) : FireStep(thr[e], u) /\ thr' = [thr EXCEPT ![e] = u]
    /\ UNCHANGED <<now, loop, old, crashes, ops>>

\* A thread that was stopped ends when it has fired.
FireOld(e) ==
    /\ \E t \in old[e] : \E u \in Fired(t) :
           /\ FireStep(t, u)
           /\ old' = [old EXCEPT ![e] = (@ \ {t}) \cup {v \in {u} : v.pc # "wait"}]
    /\ UNCHANGED <<now, loop, thr, crashes, ops>>

\* The executor dies and starts again.
Crash(e) ==
    /\ e \notin Steady /\ crashes < MaxCrashes /\ crashes' = crashes + 1
    /\ loop' = [loop EXCEPT ![e] = Idle]
    /\ thr' = [thr EXCEPT ![e] = None] /\ old' = [old EXCEPT ![e] = {}]
    /\ UNCHANGED <<now, sched, rows, since, fails, ops>>

SetStatus(status) == sched # None /\ sched' = [sched EXCEPT !.status = status]

PauseSchedule == SetStatus("PAUSED")

ResumeSchedule == SetStatus("ACTIVE")

\* upsert_schedule changes the definition, and keeps id, status and last_fired_at.
ApplySchedules == sched # None /\ sched' = [sched EXCEPT !.def = @ + 1]

DeleteSchedule == sched' = None

CreateSchedule ==
    sched = None /\ sched' = [id |-> 2, status |-> "ACTIVE", def |-> 1, lastFired |-> None]

Manage ==
    /\ ops < MaxOps /\ ops' = ops + 1
    /\ \/ "pause" \in Ops /\ PauseSchedule
       \/ "resume" \in Ops /\ ResumeSchedule
       \/ "apply" \in Ops /\ ApplySchedules
       \/ "delete" \in Ops /\ DeleteSchedule
       \/ "create" \in Ops /\ CreateSchedule
    /\ UNCHANGED <<now, rows, loop, thr, old, since, crashes, fails>>

Tick ==
    /\ now < MaxTime /\ now' = now + 1
    /\ UNCHANGED <<sched, rows, loop, thr, old, since, crashes, fails, ops>>

Run(e) == Loop(e) \/ Wake(e) \/ Fire(e) \/ FireOld(e)

Next == (\E e \in Executors : Run(e) \/ Crash(e)) \/ Manage \/ Tick

Spec == Init /\ [][Next]_vars

(***************************************************************************)
(* Properties                                                              *)
(***************************************************************************)
TypeOK ==
    /\ now \in 0..MaxTime
    /\ sched # None => sched.status \in {"ACTIVE", "PAUSED"} /\ sched.lastFired \in Ticks \cup {None}
    /\ \A e \in Executors :
           /\ loop[e].pc \in {"poll", "act", "backfill"}
           /\ thr[e] = None \/ thr[e].pc = "wait" \/ thr[e].next <= now
           /\ \A t \in old[e] : t.pc \in {"check", "insert", "update"} /\ t.next <= now

\* One workflow is created for a time of the schedule, whichever executors,
\* threads and backfills come to it.
FiredOnce == \A t \in Ticks : rows[t] <= 1

\* A time of the schedule that has passed has its workflow, or a thread that
\* has still to come to it, or is left to the backfill of the next start.
NoneForgotten ==
    \A t \in Ticks :
        since # None /\ since < t /\ t <= now
        => \/ rows[t] > 0
           \/ \E e \in Executors : thr[e] # None /\ thr[e].next <= t
           \/ Backfill /\ sched # None /\ sched.lastFired # None /\ sched.lastFired < t
           \/ Backfill /\ \E e \in Executors : loop[e].pc = "backfill" /\ loop[e].from < t /\ t < loop[e].to

Active == sched # None /\ sched.status = "ACTIVE"

\* A time that has passed while a steady executor had a thread, and has no
\* workflow.
Late(t) == since # None /\ since < t /\ t <= now /\ rows[t] = 0

\* The threads of all executors match the schedule: none for one that is
\* paused or gone, else one with its definition.
Matches ==
    \A e \in Executors :
        /\ old[e] = {}
        /\ IF Active THEN thr[e] # None /\ thr[e].id = sched.id /\ thr[e].def = sched.def
           ELSE thr[e] = None
=============================================================================

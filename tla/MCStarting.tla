----------------------------- MODULE MCStarting -----------------------------
(***************************************************************************)
(* Instances of Debouncer and Scheduler for the model checker. Every       *)
(* behaviour is one of the scenarios below, from the start to the end; the *)
(* variables the scenario does not use are None.                           *)
(***************************************************************************)
EXTENDS Naturals

CONSTANT None

VARIABLES
    scenario, now, crashes, ops,
    wf, call, rec, applied, lost,                   \* of Debouncer
    sched, rows, loop, thr, old, since, fails       \* of Scheduler

Two == {"c1", "c2"}
Three == Two \cup {"c3"}
Same(C) == [c \in C |-> "a"]
Other(C) == [c \in C |-> IF c = "c3" THEN "b" ELSE "a"]
Own(C) == [c \in C |-> c]

\* Two workflows debounce, crash, and answers to their commits are lost.
FromWorkflows == INSTANCE Debouncer WITH
    Callers <- Two, Inside <- Two, Clients <- {}, Name <- Same(Two), Id <- Own(Two),
    Plain <- "p", Period <- 1, Timeout <- 0, MaxTime <- 1, MaxCrashes <- 1, MaxLost <- 1,
    MaxOps <- 0

\* A client, a workflow and a caller of another workflow use one key.
Colliding == INSTANCE Debouncer WITH
    Callers <- Three, Inside <- {"c2"}, Clients <- {"c1"}, Name <- Other(Three),
    Id <- Own(Three), Plain <- "p", Period <- 1, Timeout <- 2, MaxTime <- 1, MaxCrashes <- 0,
    MaxLost <- 0, MaxOps <- 1

\* Calls push the delay up to the deadline.
Pushed == INSTANCE Debouncer WITH
    Callers <- Three, Inside <- {}, Clients <- {}, Name <- Same(Three), Id <- Own(Three),
    Plain <- "p", Period <- 2, Timeout <- 3, MaxTime <- 3, MaxCrashes <- 0, MaxLost <- 0,
    MaxOps <- 0

\* Two names with one key, no timeout.
Contending == INSTANCE Debouncer WITH
    Callers <- Three, Inside <- {"c2"}, Clients <- {}, Name <- Other(Three),
    Id <- Own(Three), Plain <- "p", Period <- 1, Timeout <- 0, MaxTime <- 1, MaxCrashes <- 0,
    MaxLost <- 0, MaxOps <- 0

AllOps == {"pause", "resume", "apply", "delete", "create"}

\* A schedule that is left alone; one of two executors crashes.
Alone == INSTANCE Scheduler WITH
    Executors <- {"e1", "e2"}, Steady <- {"e1"}, Ticks <- {1, 2, 3}, Backfill <- TRUE,
    MaxTime <- 3, MaxCrashes <- 1, MaxFails <- 0, Ops <- AllOps, MaxOps <- 0

\* It is paused, resumed, changed, deleted and created again.
Managed == INSTANCE Scheduler WITH
    Executors <- {"e1", "e2"}, Steady <- {"e1"}, Ticks <- {1}, Backfill <- TRUE,
    MaxTime <- 1, MaxCrashes <- 0, MaxFails <- 1, Ops <- AllOps, MaxOps <- 2

\* The same with one executor, which crashes and fails.
Crashing == INSTANCE Scheduler WITH
    Executors <- {"e1"}, Steady <- {}, Ticks <- {1, 2, 3}, Backfill <- TRUE,
    MaxTime <- 3, MaxCrashes <- 1, MaxFails <- 1, Ops <- AllOps, MaxOps <- 1

\* The same, with the times the liveness properties are about.
Settling == INSTANCE Scheduler WITH
    Executors <- {"e1", "e2"}, Steady <- {"e1"}, Ticks <- {1}, Backfill <- TRUE,
    MaxTime <- 1, MaxCrashes <- 1, MaxFails <- 0, Ops <- AllOps, MaxOps <- 1

ASSUME ScenarioAssumption ==
    /\ FromWorkflows!DebouncerAssumption /\ Colliding!DebouncerAssumption
    /\ Pushed!DebouncerAssumption /\ Contending!DebouncerAssumption
    /\ Alone!SchedulerAssumption /\ Managed!SchedulerAssumption
    /\ Crashing!SchedulerAssumption /\ Settling!SchedulerAssumption

debounceVars == <<wf, call, rec, applied, lost>>
scheduleVars == <<sched, rows, loop, thr, old, since, fails>>
vars == <<scenario, now, crashes, ops, debounceVars, scheduleVars>>

NoDebounce == wf = None /\ call = None /\ rec = None /\ applied = None /\ lost = None
NoSchedule ==
    /\ sched = None /\ rows = None /\ loop = None /\ thr = None /\ old = None
    /\ since = None /\ fails = None

Init ==
    \/ scenario = "from_workflows" /\ FromWorkflows!Init /\ NoSchedule
    \/ scenario = "colliding" /\ Colliding!Init /\ NoSchedule
    \/ scenario = "pushed" /\ Pushed!Init /\ NoSchedule
    \/ scenario = "contending" /\ Contending!Init /\ NoSchedule
    \/ scenario = "alone" /\ Alone!Init /\ NoDebounce
    \/ scenario = "managed" /\ Managed!Init /\ NoDebounce
    \/ scenario = "crashing" /\ Crashing!Init /\ NoDebounce
    \/ scenario = "settling" /\ Settling!Init /\ NoDebounce

Next ==
    /\ \/ scenario = "from_workflows" /\ FromWorkflows!Next /\ UNCHANGED scheduleVars
       \/ scenario = "colliding" /\ Colliding!Next /\ UNCHANGED scheduleVars
       \/ scenario = "pushed" /\ Pushed!Next /\ UNCHANGED scheduleVars
       \/ scenario = "contending" /\ Contending!Next /\ UNCHANGED scheduleVars
       \/ scenario = "alone" /\ Alone!Next /\ UNCHANGED debounceVars
       \/ scenario = "managed" /\ Managed!Next /\ UNCHANGED debounceVars
       \/ scenario = "crashing" /\ Crashing!Next /\ UNCHANGED debounceVars
       \/ scenario = "settling" /\ Settling!Next /\ UNCHANGED debounceVars
    /\ UNCHANGED scenario

\* Callers run, and a queue thread looks for delays that are over. Time
\* passes, the scheduler loops poll, and their threads wake and fire.
Fairness ==
    /\ \A c \in Three : WF_(Contending!vars)(scenario = "contending" /\ Contending!Debounce(c))
    /\ WF_(Contending!vars)(scenario = "contending" /\ Contending!Transition)
    /\ WF_(Alone!vars)(scenario = "alone" /\ Alone!Tick)
    /\ WF_(Settling!vars)(scenario = "settling" /\ Settling!Tick)
    /\ \A e \in {"e1", "e2"} :
          /\ WF_(Alone!vars)(scenario = "alone" /\ Alone!Loop(e))
          /\ WF_(Alone!vars)(scenario = "alone" /\ (Alone!Wake(e) \/ Alone!Fire(e)))
          /\ WF_(Settling!vars)(scenario = "settling" /\ Settling!Loop(e))
          /\ WF_(Settling!vars)(scenario = "settling" /\ (Settling!Wake(e) \/ Settling!Fire(e)))
          /\ WF_(Settling!vars)(scenario = "settling" /\ Settling!FireOld(e))

Spec == Init /\ [][Next]_vars /\ Fairness

-----------------------------------------------------------------------------
(* Properties, stated in the modules and here for their scenarios.         *)

\* The type invariants of both modules: only a workflow that waits keeps its
\* debounce key, and a thread that fires does so at its time.
TypeOK ==
    CASE scenario = "from_workflows" -> FromWorkflows!TypeOK
      [] scenario = "colliding" -> Colliding!TypeOK
      [] scenario = "pushed" -> Pushed!TypeOK
      [] scenario = "contending" -> Contending!TypeOK
      [] scenario = "alone" -> Alone!TypeOK
      [] scenario = "managed" -> Managed!TypeOK
      [] scenario = "crashing" -> Crashing!TypeOK
      [] scenario = "settling" -> Settling!TypeOK

\* A call gives its input to one workflow, the one whose handle it returns,
\* through crashes of the calling workflow and lost answers (debounce).
CallsOnce ==
    /\ scenario = "from_workflows" => FromWorkflows!CallsOnce
    /\ scenario = "contending" => Contending!CallsOnce

\* A call that returns has given its input to the workflow that it returns,
\* if workflow IDs are not pinned (debounce).
NotDropped ==
    /\ scenario = "colliding" => Colliding!NotDropped
    /\ scenario = "pushed" => Pushed!NotDropped

\* Two workflows never wait with the same key (init_workflow_debounced).
OneWaiting ==
    /\ scenario = "colliding" => Colliding!OneWaiting
    /\ scenario = "contending" => Contending!OneWaiting

\* A call never gives its input to a different workflow whose key collides
\* (update_debounced_workflow).
OwnName ==
    /\ scenario = "colliding" => Colliding!OwnName
    /\ scenario = "contending" => Contending!OwnName

\* However often it is bounced, a workflow is due by the deadline that it got
\* with the first call (update_debounced_workflow).
DueByDeadline ==
    /\ scenario = "colliding" => Colliding!DueByDeadline
    /\ scenario = "pushed" => Pushed!DueByDeadline

\* A workflow leaves its delay by itself only when a period has passed since
\* the call whose input it has, or at its deadline
\* (transition_delayed_workflows).
QuietPeriod ==
    [][ /\ scenario = "pushed" => Pushed!QuietPeriod
        /\ scenario = "from_workflows" => FromWorkflows!QuietPeriod ]_vars

\* Every call returns or raises: the loop of debounce ends.
CallsReturn ==
    \A c \in Three :
        scenario = "contending" ~> scenario = "contending" /\ Contending!Over(c)

\* One workflow is created for a time of the schedule, whichever executors,
\* threads and backfills come to it (init_workflow with the ID of the time).
FiredOnce ==
    /\ scenario = "alone" => Alone!FiredOnce
    /\ scenario = "managed" => Managed!FiredOnce
    /\ scenario = "crashing" => Crashing!FiredOnce
    /\ scenario = "settling" => Settling!FiredOnce

\* A time of the schedule that has passed has its workflow, or a thread that
\* has still to come to it, or is left to a backfill, as long as an executor
\* that does not crash has a thread and the schedule is left alone
\* (_DynamicSchedulerThread).
NoneForgotten == scenario = "alone" => Alone!NoneForgotten

\* Every time of a schedule with a thread in an executor that does not crash
\* gets its workflow (_DynamicSchedulerThread).
EveryTickFires ==
    \A t \in {1, 2, 3} :
        LET late == scenario = "alone" /\ Alone!Late(t)
        IN  late ~> ~late

\* Once the schedule is left alone, the threads of all executors come to match
\* it (dynamic_scheduler_loop).
Converges == <>[](scenario = "settling" => Settling!Matches)
-----------------------------------------------------------------------------
(* What the run checks.                                                    *)

\* A debounced call gives its input to one workflow of its own name, the only
\* one that waits with its key, which starts a quiet period after the last call
\* and by its deadline (debounce, update_debounced_workflow).
Debounced ==
    /\ [](TypeOK /\ CallsOnce /\ NotDropped /\ OneWaiting /\ OwnName /\ DueByDeadline)
    /\ QuietPeriod

\* A time of a schedule gets one workflow, and none that has passed is
\* forgotten, whichever executors crash (_DynamicSchedulerThread).
TicksKept == FiredOnce /\ NoneForgotten

\* Every debounced call returns, every time of a schedule fires, and the
\* threads come to match a schedule that was changed (debounce,
\* dynamic_scheduler_loop).
StartersProgress == CallsReturn /\ EveryTickFires /\ Converges
=============================================================================

----------------------------- MODULE MCFamilies -----------------------------
(***************************************************************************)
(* Instances of WorkflowTree and WorkflowTimeouts for the model checker.   *)
(* Every behaviour is one of the scenarios below, from the start to the    *)
(* end. The constants of WorkflowTree are those of the scenario            *)
(* "cascaded"; the variables a scenario does not use stay as they are.     *)
(***************************************************************************)
EXTENDS WorkflowTree, TLC

CONSTANTS Unset, Off

VARIABLES
    scenario,
    now, ctx, begin, timers, up     \* of WorkflowTimeouts

\* The root has the children a and b, and a has the child c; or the root has
\* the child a, and that the child c.
Branching == ("r" :> <<"a", "b">>) @@ ("a" :> <<"c">>) @@ ("b" :> <<>>) @@ ("c" :> <<>>)
Chain == ("r" :> <<"a">>) @@ ("a" :> <<"c">>) @@ ("c" :> <<>>)

\* "cascaded": the branching tree is cancelled while it grows, crashes and is
\* resumed in parts.

\* Two crashes, and children that are cancelled on their own.
Replayed == INSTANCE WorkflowTree WITH
    Workflows <- DOMAIN Branching, Root <- "r", Kids <- Branching, MaxCrashes <- 2,
    MaxCancels <- 1, MaxResumes <- 0, MaxCascades <- 0, GC <- FALSE

\* A chain of three, of which one is cancelled and resumed.
Recovered == INSTANCE WorkflowTree WITH
    Workflows <- DOMAIN Chain, Root <- "r", Kids <- Chain, MaxCrashes <- 1,
    MaxCancels <- 1, MaxResumes <- 1, MaxCascades <- 0, GC <- FALSE

\* The same chain, while what has ended is collected.
Collected == INSTANCE WorkflowTree WITH
    Workflows <- DOMAIN Chain, Root <- "r", Kids <- Chain, MaxCrashes <- 1,
    MaxCancels <- 1, MaxResumes <- 0, MaxCascades <- 0, GC <- TRUE

\* p starts c, which inherits its deadline, and d, which is freed of it.
Inherited == INSTANCE WorkflowTimeouts WITH
    Executors <- {"e1", "e2", "e3"}, Workflows <- {"p", "c", "d"},
    Parent <- "p" :> None @@ "c" :> "p" @@ "d" :> "p",
    Timeouts <- "p" :> 2 @@ "c" :> Unset @@ "d" :> None,
    Queued <- {"p", "c"}, Blocked <- {}, MaxCrashes <- 2, MaxCancels <- 0, MaxResumes <- 0

\* No queue: p starts c with a longer timeout of its own.
Direct == INSTANCE WorkflowTimeouts WITH
    Executors <- {"e1", "e2"}, Workflows <- {"p", "c"}, Parent <- "p" :> None @@ "c" :> "p",
    Timeouts <- "p" :> 2 @@ "c" :> 5,
    Queued <- {}, Blocked <- {}, MaxCrashes <- 1, MaxCancels <- 0, MaxResumes <- 0

\* Both are enqueued, and one is cancelled and resumed.
Enqueued == INSTANCE WorkflowTimeouts WITH
    Executors <- {"e1", "e2"}, Workflows <- {"p", "c"}, Parent <- "p" :> None @@ "c" :> "p",
    Timeouts <- "p" :> 2 @@ "c" :> Unset,
    Queued <- {"p", "c"}, Blocked <- {}, MaxCrashes <- 1, MaxCancels <- 1, MaxResumes <- 1

ASSUME ScenarioAssumption ==
    /\ TreeAssumption /\ Replayed!TreeAssumption /\ Recovered!TreeAssumption
    /\ Collected!TreeAssumption
    /\ Inherited!TimeoutsAssumption /\ Direct!TimeoutsAssumption /\ Enqueued!TimeoutsAssumption

treeVars == <<link, got, exec, saw, cascade, cascades, history>>
timeoutVars == <<now, ctx, begin, timers, up>>
allVars == <<scenario, row, crashes, cancels, resumes, treeVars, timeoutVars>>

NoTree ==
    /\ link = [w \in Workflows |-> {}] /\ got = [w \in Workflows |-> <<>>] /\ saw = got
    /\ exec = [w \in Workflows |-> NoExec] /\ cascade = NoCascade /\ cascades = 0
    /\ target = {} /\ revived = {} /\ collected = {}
NoTimeouts == now = None /\ ctx = None /\ begin = None /\ timers = None /\ up = None

MCInit ==
    \/ scenario = "cascaded" /\ Init /\ NoTimeouts
    \/ scenario = "replayed" /\ Replayed!Init /\ NoTimeouts
    \/ scenario = "recovered" /\ Recovered!Init /\ NoTimeouts
    \/ scenario = "collected" /\ Collected!Init /\ NoTimeouts
    \/ scenario = "inherited" /\ Inherited!Init /\ NoTree
    \/ scenario = "direct" /\ Direct!Init /\ NoTree
    \/ scenario = "enqueued" /\ Enqueued!Init /\ NoTree

MCNext ==
    /\ \/ scenario = "cascaded" /\ Next /\ UNCHANGED timeoutVars
       \/ scenario = "replayed" /\ Replayed!Next /\ UNCHANGED timeoutVars
       \/ scenario = "recovered" /\ Recovered!Next /\ UNCHANGED timeoutVars
       \/ scenario = "collected" /\ Collected!Next /\ UNCHANGED timeoutVars
       \/ scenario = "inherited" /\ Inherited!Next /\ UNCHANGED treeVars
       \/ scenario = "direct" /\ Direct!Next /\ UNCHANGED treeVars
       \/ scenario = "enqueued" /\ Enqueued!Next /\ UNCHANGED treeVars
    /\ UNCHANGED scenario

\* Threads run, and pending workflows that have none are recovered. With
\* timeouts a workflow may run for ever; queues, recovery, the executors'
\* thread pools and event loops go on, and so does time.
Fairness ==
    /\ \A w \in DOMAIN Chain :
          /\ WF_(Recovered!vars)(scenario = "recovered" /\ Recovered!Step(w))
          /\ WF_(Recovered!vars)(scenario = "recovered" /\ Recovered!Recover(w))
    /\ WF_(Direct!vars)(scenario = "direct" /\ Direct!Tick)
    /\ WF_(Enqueued!vars)(scenario = "enqueued" /\ Enqueued!Tick)
    /\ \A w \in {"p", "c"} :
          /\ WF_(Direct!vars)(scenario = "direct" /\ Direct!Timer(w))
          /\ WF_(Enqueued!vars)(scenario = "enqueued" /\ Enqueued!Timer(w))
          /\ WF_(Enqueued!vars)(scenario = "enqueued" /\ Enqueued!Queue(w))
          /\ \A e \in {"e1", "e2"} :
                /\ WF_(Direct!vars)(scenario = "direct" /\ Direct!Execute(w, e))
                /\ WF_(Enqueued!vars)(scenario = "enqueued" /\ Enqueued!Execute(w, e))
    /\ \A d \in {"e1", "e2"} :
          /\ WF_(Direct!vars)(scenario = "direct" /\ Direct!Recovery(d))
          /\ WF_(Enqueued!vars)(scenario = "enqueued" /\ Enqueued!Recovery(d))

MCSpec == MCInit /\ [][MCNext]_allVars /\ Fairness

-----------------------------------------------------------------------------
(* Properties, stated in the modules and here for their scenarios.         *)

\* The type invariants of both modules: what is recorded as a child is one,
\* and a dead process has no timeout tasks.
TypesOK ==
    CASE scenario = "cascaded" -> TypeOK
      [] scenario = "replayed" -> Replayed!TypeOK
      [] scenario = "recovered" -> Recovered!TypeOK
      [] scenario = "collected" -> Collected!TypeOK
      [] scenario = "inherited" -> Inherited!TypeOK
      [] scenario = "direct" -> Direct!TypeOK
      [] scenario = "enqueued" -> Enqueued!TypeOK

\* Every pending workflow of a tree ends: recovery always gets it past the
\* children it started (execution and recovery of a tree of workflows).
FamilyCompletes ==
    \A w \in DOMAIN Chain :
        LET pending == scenario = "recovered" /\ Recovered!Pending(w)
        IN  pending ~> ~pending

\* A workflow without a timeout of its own has the deadline of its parent,
\* however that came to execute, as long as none is resumed
\* (_get_timeout_deadline).
DeadlinePropagates ==
    /\ scenario = "inherited" => Inherited!DeadlinePropagates
    /\ scenario = "enqueued" /\ resumes = 0 => Enqueued!DeadlinePropagates

\* A workflow that was given a timeout has a deadline when it executes, with
\* or without a queue (_get_timeout_deadline, start_queued_workflows).
TimeoutSetsDeadline ==
    /\ scenario = "inherited" => Inherited!TimeoutSetsDeadline
    /\ scenario = "direct" => Direct!TimeoutSetsDeadline
    /\ scenario = "enqueued" => Enqueued!TimeoutSetsDeadline

\* timeout_func cancels a workflow only once its deadline has passed, if
\* workflows are not resumed before the deadline that they lose by it.
NotEarly ==
    [][ /\ scenario = "inherited" => Inherited!NotEarly
        /\ scenario = "direct" => Direct!NotEarly ]_allVars

\* However often a workflow is recovered or dequeued again, its deadline stays
\* the one it was given first, until it is resumed (_insert_workflow_status,
\* start_queued_workflows).
DeadlineKept ==
    [][ /\ scenario = "inherited" => Inherited!DeadlineKept
        /\ scenario = "direct" => Direct!DeadlineKept
        /\ scenario = "enqueued" => Enqueued!DeadlineKept ]_allVars

\* A workflow with a deadline does not stay active for ever, although
\* executors crash and forget their timeout tasks (execute_workflow_by_id).
Expires ==
    \A w \in {"p", "c"} :
        LET expiring == \/ scenario = "direct" /\ Direct!Expiring(w)
                        \/ scenario = "enqueued" /\ Enqueued!Expiring(w)
        IN  expiring ~> ~expiring
-----------------------------------------------------------------------------
(* What the run checks.                                                    *)

\* The variables have their types, and a workflow has the deadline that its
\* timeout or its parent gives it, through recoveries and dequeues, and is not
\* cancelled before it (_get_timeout_deadline, timeout_func).
DeadlinesKept ==
    [](TypesOK /\ DeadlinePropagates /\ TimeoutSetsDeadline) /\ NotEarly /\ DeadlineKept

\* Trees end although processes crash, and what has a deadline ends although
\* the process with its timeout task crashed (execute_workflow_by_id).
FamiliesEnd == FamilyCompletes /\ Expires
=============================================================================

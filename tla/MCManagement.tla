---------------------------- MODULE MCManagement ----------------------------
(***************************************************************************)
(* Instances of WorkflowFork, WorkflowExport and WorkflowCleanup for the   *)
(* model checker. Every behaviour is one of the scenarios below, from the  *)
(* start to the end; the variables the scenario does not use are None.     *)
(***************************************************************************)
EXTENDS Naturals, TLC

CONSTANT None

VARIABLES
    scenario, pc,
    orig, fork, start, at,                     \* of WorkflowFork
    source, target, ids, frontier, pkg,        \* of WorkflowExport
    wf, tx, run, commits, op, want, crashes    \* of WorkflowCleanup

Steps == <<"event", "stream", "step", "stream", "event", "stream">>

\* A workflow is forked while it runs; SQLite's transactions exclude each
\* other.
Running == INSTANCE WorkflowFork WITH
    Program <- Steps, Failing <- {3, 4}, Starts <- 1..7,
    Modes <- {"named", "failure", "last"}, Concurrent <- FALSE, Exclusive <- TRUE

\* From the failure or the last step of it, on PostgreSQL.
Failed == INSTANCE WorkflowFork WITH
    Program <- Steps, Failing <- {3, 4}, Starts <- {},
    Modes <- {"failure", "last"}, Concurrent <- FALSE, Exclusive <- FALSE

Tree == "p" :> <<"event", "c", "stream">> @@ "c" :> <<"stream", "g">> @@ "g" :> <<"step">>
Single == "p" :> <<"stream", "event", "step", "stream", "event">>

\* A complete tree is exported while workflows are garbage collected.
Complete == INSTANCE WorkflowExport WITH
    Workflows <- {"p", "c", "g"}, Root <- "p", Program <- Tree, WhenComplete <- TRUE,
    Collects <- TRUE, Exclusive <- FALSE

\* A workflow is exported while it runs, on SQLite.
Moving == INSTANCE WorkflowExport WITH
    Workflows <- {"p"}, Root <- "p", Program <- Single, WhenComplete <- FALSE,
    Collects <- FALSE, Exclusive <- TRUE

NoParent(W) == [w \in W |-> None]

\* Old workflows are collected in batches, while others are resumed.
Batched == INSTANCE WorkflowCleanup WITH
    Workflows <- {"w1", "w2"}, Parent <- NoParent({"w1", "w2"}), Now <- 2, Cutoffs <- {2},
    Thresholds <- {}, BatchSize <- 1, Operations <- {"collect"}, Resumes <- TRUE,
    Reuse <- FALSE, MaxCrashes <- 1

\* All but the newest are collected.
Kept == INSTANCE WorkflowCleanup WITH
    Workflows <- {"w1", "w2"}, Parent <- NoParent({"w1", "w2"}), Now <- 3, Cutoffs <- {2},
    Thresholds <- {1, 2}, BatchSize <- None, Operations <- {"collect"}, Resumes <- TRUE,
    Reuse <- FALSE, MaxCrashes <- 0

\* A chain of children is deleted, and what is old is cancelled.
Deleted == INSTANCE WorkflowCleanup WITH
    Workflows <- {"w1", "w2", "w3"}, Parent <- "w1" :> None @@ "w2" :> "w1" @@ "w3" :> "w2",
    Now <- 1, Cutoffs <- {1}, Thresholds <- {}, BatchSize <- None,
    Operations <- {"delete", "timeout"}, Resumes <- FALSE, Reuse <- FALSE, MaxCrashes <- 0

\* All operations, and IDs that are used again.
Mixed == INSTANCE WorkflowCleanup WITH
    Workflows <- {"w1", "w2"}, Parent <- NoParent({"w1", "w2"}), Now <- 2, Cutoffs <- {2},
    Thresholds <- {}, BatchSize <- 1, Operations <- {"collect", "delete", "timeout"},
    Resumes <- TRUE, Reuse <- TRUE, MaxCrashes <- 0

ASSUME ScenarioAssumption ==
    /\ Running!ForkAssumption /\ Failed!ForkAssumption
    /\ Complete!ExportAssumption /\ Moving!ExportAssumption
    /\ Batched!CleanupAssumption /\ Kept!CleanupAssumption
    /\ Deleted!CleanupAssumption /\ Mixed!CleanupAssumption

forkVars == <<orig, fork, start, at>>
exportVars == <<source, target, ids, frontier, pkg>>
cleanupVars == <<wf, tx, run, commits, op, want, crashes>>
vars == <<scenario, pc, forkVars, exportVars, cleanupVars>>

NoFork == orig = None /\ fork = None /\ start = None /\ at = None
NoExport == source = None /\ target = None /\ ids = None /\ frontier = None /\ pkg = None
NoCleanup ==
    /\ wf = None /\ tx = None /\ run = None /\ commits = None /\ op = None
    /\ want = None /\ crashes = None

Init ==
    \/ /\ NoExport /\ NoCleanup
       /\ \/ scenario = "running" /\ Running!Init
          \/ scenario = "failed" /\ Failed!Init
    \/ /\ NoFork /\ NoCleanup
       /\ \/ scenario = "complete" /\ Complete!Init
          \/ scenario = "moving" /\ Moving!Init
    \/ /\ NoFork /\ NoExport /\ pc = None
       /\ \/ scenario = "batched" /\ Batched!Init
          \/ scenario = "kept" /\ Kept!Init
          \/ scenario = "deleted" /\ Deleted!Init
          \/ scenario = "mixed" /\ Mixed!Init

Next ==
    /\ UNCHANGED scenario
    /\ \/ /\ \/ scenario = "running" /\ Running!Next
             \/ scenario = "failed" /\ Failed!Next
          /\ UNCHANGED <<exportVars, cleanupVars>>
       \/ /\ \/ scenario = "complete" /\ Complete!Next
             \/ scenario = "moving" /\ Moving!Next
          /\ UNCHANGED <<forkVars, cleanupVars>>
       \/ /\ \/ scenario = "batched" /\ Batched!Next
             \/ scenario = "kept" /\ Kept!Next
             \/ scenario = "deleted" /\ Deleted!Next
             \/ scenario = "mixed" /\ Mixed!Next
          /\ UNCHANGED <<pc, forkVars, exportVars>>

\* Recovery on the target database executes what is pending there; a cleanup
\* that has begun goes on, whatever the workflows do.
Fairness ==
    /\ WF_(Moving!vars)(scenario = "moving" /\ Moving!TargetRuns("p"))
    /\ WF_(Mixed!vars)(scenario = "mixed" /\ Mixed!Operation)

Spec == Init /\ [][Next]_vars /\ Fairness

-----------------------------------------------------------------------------
(* Properties, stated in the modules and here for their scenarios.         *)

\* The type invariants of the modules: only operations that set events or
\* write streams leave them, in a fork and in an import too.
TypeOK ==
    CASE scenario = "running" -> Running!TypeOK
      [] scenario = "failed" -> Failed!TypeOK
      [] scenario = "complete" -> Complete!TypeOK
      [] scenario = "moving" -> Moving!TypeOK
      [] scenario = "batched" -> Batched!TypeOK
      [] scenario = "kept" -> Kept!TypeOK
      [] scenario = "deleted" -> Deleted!TypeOK
      [] scenario = "mixed" -> Mixed!TypeOK

\* A fork executes the step it starts from and all later ones: none of them
\* is replayed (fork_workflow).
StartsAtStep ==
    /\ scenario = "running" => Running!StartsAtStep
    /\ scenario = "failed" => Failed!StartsAtStep

\* The event of a fork or an import is the one set by the last step that it
\* has a checkpoint of, as if it had executed them all itself (fork_workflow,
\* import_workflow).
EventAsExecuted ==
    /\ scenario = "running" => Running!EventAsExecuted
    /\ scenario = "failed" => Failed!EventAsExecuted
    /\ scenario = "moving" => Moving!EventAsExecuted

\* The stream of a fork or an import has one entry for every checkpointed
\* step that wrote one, in order and without a gap (fork_workflow,
\* import_workflow).
StreamAsExecuted ==
    /\ scenario = "running" => Running!StreamAsExecuted
    /\ scenario = "failed" => Failed!StreamAsExecuted
    /\ scenario = "moving" => Moving!StreamAsExecuted

\* A complete workflow is imported as it was, with all of its descendants that
\* were not collected, nor cut off from it because one between them was
\* (export_workflow, import_workflow).
RoundTrip == scenario = "complete" => Complete!RoundTrip

\* What the target database has recorded is never lost: importing again
\* conflicts and changes nothing (import_workflow).
ProgressKept ==
    [][ /\ scenario = "complete" => Complete!ProgressKept
        /\ scenario = "moving" => Moving!ProgressKept ]_vars

\* A workflow that is imported is completed, wherever its export caught it.
ImportedCompletes ==
    LET incomplete == scenario = "moving" /\ Moving!Incomplete
    IN  incomplete ~> ~incomplete

\* An operation that returns has done its work, on what did not change
\* meanwhile (garbage_collect, delete_workflow, global_timeout).
WorkDone ==
    /\ scenario = "batched" => Batched!WorkDone
    /\ scenario = "kept" => Kept!WorkDone
    /\ scenario = "deleted" => Deleted!WorkDone

\* A workflow that remains keeps the output of its transaction
\* (garbage_collect of the system and the application database).
OutputsKept ==
    /\ scenario = "batched" => Batched!OutputsKept
    /\ scenario = "kept" => Kept!OutputsKept
    /\ scenario = "deleted" => Deleted!OutputsKept

\* When garbage_collect returns, no output from before the cutoff is left of
\* a workflow that is gone, even of one that a call that died removed.
NoOrphans ==
    /\ scenario = "batched" => Batched!NoOrphans
    /\ scenario = "kept" => Kept!NoOrphans

\* The transaction of a workflow is applied once, whatever is cleaned up
\* meanwhile, if its ID is not used again.
AppliedOnce ==
    /\ scenario = "batched" => Batched!AppliedOnce
    /\ scenario = "kept" => Kept!AppliedOnce
    /\ scenario = "deleted" => Deleted!AppliedOnce

\* garbage_collect removes only complete workflows, and with rows_threshold
\* alone none of that many newest ones.
RemovesOnlyOld ==
    [][ /\ scenario = "batched" => Batched!RemovesOnlyOld
        /\ scenario = "kept" => Kept!RemovesOnlyOld ]_vars

\* A workflow that succeeded stays so: global_timeout does not cancel one that
\* finished after it was listed.
SuccessKept == [][ scenario = "deleted" => Deleted!SuccessKept ]_vars

\* Every operation returns, though workflows change all the while
\* (garbage_collect, delete_workflow, global_timeout).
Returns ==
    LET begun == scenario = "mixed" /\ Mixed!InProgress
    IN  begun ~> ~begun
-----------------------------------------------------------------------------
(* What the run checks.                                                    *)

\* A fork or an import is what an execution of its checkpointed steps would
\* have left, a complete workflow comes with its descendants, and importing
\* again loses nothing (fork_workflow, export_workflow, import_workflow).
CopiesAsExecuted ==
    /\ [](TypeOK /\ StartsAtStep /\ EventAsExecuted /\ StreamAsExecuted /\ RoundTrip)
    /\ ProgressKept

\* A cleanup removes what it was asked to and nothing of a workflow that
\* remains, so that no transaction is applied twice, and undoes no success
\* (garbage_collect, delete_workflow, global_timeout).
CleansOnly ==
    /\ [](WorkDone /\ OutputsKept /\ NoOrphans /\ AppliedOnce)
    /\ RemovesOnlyOld /\ SuccessKept

\* Cleanups return and imported workflows complete (garbage_collect,
\* import_workflow).
ManagementEnds == Returns /\ ImportedCompletes
=============================================================================

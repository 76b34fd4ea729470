------------------------------ MODULE MCSteps ------------------------------
(***************************************************************************)
(* Instances of StepAttempts and TransactionalStep for the model checker,  *)
(* and one of WorkflowExecution for what must eventually happen in it.     *)
(* Every behaviour is one of the scenarios below, from the start to the    *)
(* end; the variables the scenario does not use are None.                  *)
(***************************************************************************)
EXTENDS Naturals

CONSTANTS None, CancelErr, Exceeded, SerializeError, IntegrityError, ConnectionError

VARIABLES
    scenario, exec, crashes, lost,
    status, record, cancels, began, failed,     \* of StepAttempts
    effects, output, step, errLost,             \* of TransactionalStep
    row, ops, call, up, active, resumes         \* of WorkflowExecution

\* Two executions retry a step, with errors that are not to be retried and
\* values that cannot be serialized.
Retried == INSTANCE StepAttempts WITH
    Executions <- {"x1", "x2"}, Async <- FALSE, Preemptible <- FALSE,
    Retries <- TRUE, MaxAttempts <- 3, Vals <- {"v1", "v2"},
    Unserializable <- {"bad"}, Errors <- {"err", "fatal"}, Refused <- {"fatal"},
    MaxCancels <- 1, MaxCrashes <- 2

\* A preemptible step whose workflow is cancelled and resumed twice.
Preempted == INSTANCE StepAttempts WITH
    Executions <- {"x1", "x2"}, Async <- TRUE, Preemptible <- TRUE,
    Retries <- TRUE, MaxAttempts <- 2, Vals <- {"v1"},
    Unserializable <- {"bad"}, Errors <- {"err", "fatal"}, Refused <- {"fatal"},
    MaxCancels <- 2, MaxCrashes <- 1

\* Three executions of one @DBOS.transaction; answers to commits are lost.
Transaction == INSTANCE TransactionalStep WITH
    Executions <- {"x1", "x2", "x3"}, Datasource <- FALSE, Vals <- {"v1", "v2"},
    Errors <- {"err"}, MaxCrashes <- 2, MaxLost <- 2, MaxErrLost <- 0

\* The same of a datasource, which may also fail to record an error.
DataStep == INSTANCE TransactionalStep WITH
    Executions <- {"x1", "x2", "x3"}, Datasource <- TRUE, Vals <- {"v1", "v2"},
    Errors <- {"err"}, MaxCrashes <- 2, MaxLost <- 2, MaxErrLost <- 1

\* One execution of a datasource's step at a time, crashing again and again.
Recovered == INSTANCE TransactionalStep WITH
    Executions <- {"x1"}, Datasource <- TRUE, Vals <- {"v1", "v2"},
    Errors <- {"err"}, MaxCrashes <- 6, MaxLost <- 0, MaxErrLost <- 0

\* One workflow and three dispatches of it, on two executors that may crash.
Workflow == INSTANCE WorkflowExecution WITH
    Executors <- {"e1", "e2"}, Clients <- {"c1"}, Dispatches <- {"d1", "d2", "d3"},
    NumSteps <- 1, Vals <- {"v1"}, FailVals <- {},
    StampsOf <- [c \in {"c1", "d1", "d2", "d3"} |-> {c}],
    MaxAttempts <- 1, InputsOk <- TRUE, FalseDeath <- FALSE,
    MaxCrashes <- 1, MaxLost <- 0, MaxResumes <- 0

\* The same, of a workflow whose persisted inputs cannot be read back.
Unreadable == INSTANCE WorkflowExecution WITH
    Executors <- {"e1", "e2"}, Clients <- {"c1"}, Dispatches <- {"d1", "d2", "d3"},
    NumSteps <- 1, Vals <- {"v1"}, FailVals <- {},
    StampsOf <- [c \in {"c1", "d1", "d2", "d3"} |-> {c}],
    MaxAttempts <- 1, InputsOk <- FALSE, FalseDeath <- FALSE,
    MaxCrashes <- 1, MaxLost <- 0, MaxResumes <- 0

ASSUME ScenarioAssumption ==
    /\ Retried!AttemptsAssumption /\ Preempted!AttemptsAssumption
    /\ Transaction!StepAssumption /\ DataStep!StepAssumption
    /\ Recovered!StepAssumption
    /\ Workflow!ConstantsAssumption /\ Unreadable!ConstantsAssumption

attemptVars == <<status, record, cancels, began, failed>>
transactionVars == <<effects, output, step, errLost>>
workflowVars == <<row, ops, call, up, active, resumes>>
vars == <<scenario, exec, crashes, lost, attemptVars, transactionVars, workflowVars>>

NoAttempts ==
    status = None /\ record = None /\ cancels = None /\ began = None /\ failed = None
NoTransaction == effects = None /\ output = None /\ step = None /\ errLost = None
NoWorkflow ==
    /\ row = None /\ ops = None /\ call = None
    /\ up = None /\ active = None /\ resumes = None

Init ==
    \/ /\ NoTransaction /\ NoWorkflow /\ lost = None
       /\ \/ scenario = "retried" /\ Retried!Init
          \/ scenario = "preempted" /\ Preempted!Init
    \/ /\ NoAttempts /\ NoWorkflow
       /\ \/ scenario = "transaction" /\ Transaction!Init
          \/ scenario = "datasource" /\ DataStep!Init
          \/ scenario = "recovered" /\ Recovered!Init
    \/ /\ NoAttempts /\ NoTransaction /\ exec = None
       /\ \/ scenario = "workflow" /\ Workflow!Init
          \/ scenario = "unreadable" /\ Unreadable!Init

Next ==
    /\ \/ /\ UNCHANGED <<transactionVars, workflowVars, lost>>
          /\ \/ scenario = "retried" /\ Retried!Next
             \/ scenario = "preempted" /\ Preempted!Next
       \/ /\ UNCHANGED <<attemptVars, workflowVars>>
          /\ \/ scenario = "transaction" /\ Transaction!Next
             \/ scenario = "datasource" /\ DataStep!Next
             \/ scenario = "recovered" /\ Recovered!Next
       \/ /\ UNCHANGED <<attemptVars, transactionVars, exec>>
          /\ \/ scenario = "workflow" /\ Workflow!Next
             \/ scenario = "unreadable" /\ Unreadable!Next
    /\ UNCHANGED scenario

\* Threads, event loops and pollers run. The threads of a live process are
\* scheduled, its queue worker keeps polling, and a process that died is started
\* again; nothing is assumed of requests, crashes or recovery by another executor.
Fairness ==
    /\ \A x \in {"x1", "x2"} :
          /\ WF_(Preempted!vars)(scenario = "preempted" /\ Preempted!Thread(x))
          /\ WF_(Preempted!vars)(scenario = "preempted" /\ Preempted!Poller(x))
    /\ \A c \in {"c1", "d1", "d2", "d3"} :
          /\ WF_(Workflow!vars)(scenario = "workflow" /\ Workflow!Run(c))
          /\ WF_(Unreadable!vars)(scenario = "unreadable" /\ Unreadable!Run(c))
    /\ \A e \in {"e1", "e2"} :
          /\ WF_(Workflow!vars)(scenario = "workflow"
                /\ \E c \in {"d1", "d2", "d3"} : Workflow!Dequeue(c, e))
          /\ WF_(Workflow!vars)(scenario = "workflow" /\ Workflow!Restart(e))
          /\ WF_(Unreadable!vars)(scenario = "unreadable"
                /\ \E c \in {"d1", "d2", "d3"} : Unreadable!Dequeue(c, e))
          /\ WF_(Unreadable!vars)(scenario = "unreadable" /\ Unreadable!Restart(e))

Spec == Init /\ [][Next]_vars /\ Fairness

-----------------------------------------------------------------------------
(* Properties, stated in the modules and here for their scenarios.         *)

\* The type invariants of the modules: no more attempts than max_attempts, a
\* poller only while the function runs.
TypeOK ==
    CASE scenario = "retried" -> Retried!TypeOK
      [] scenario = "preempted" -> Preempted!TypeOK
      [] scenario = "transaction" -> Transaction!TypeOK
      [] scenario = "datasource" -> DataStep!TypeOK
      [] scenario = "recovered" -> Recovered!TypeOK
      [] scenario = "workflow" -> Workflow!TypeOK
      [] scenario = "unreadable" -> Unreadable!TypeOK

\* Executions that get past a step got what operation_outputs records for it
\* (record_step_result, record_operation_result).
StepAgrees ==
    CASE scenario = "retried" -> Retried!StepAgrees
      [] scenario = "preempted" -> Preempted!StepAgrees
      [] scenario = "transaction" -> Transaction!SameOutcome
      [] scenario = "datasource" -> DataStep!SameOutcome
      [] scenario = "recovered" -> Recovered!SameOutcome
      [] scenario = "workflow" -> Workflow!ReplayExact
      [] scenario = "unreadable" -> Unreadable!ReplayExact

\* DBOSMaxStepRetriesExceeded is recorded only after max_attempts failures of
\* one execution, another error only if it is not retried (Outcome.retry).
FailsForReason ==
    [][ /\ scenario = "retried" => Retried!FailsForReason
        /\ scenario = "preempted" => Preempted!FailsForReason ]_vars

\* A function that never ends by itself is ended by the cancellation of its
\* workflow (_run_preemptible_step).
PreemptionEnds ==
    \A x \in {"x1", "x2"} :
        LET runsOn == scenario = "preempted" /\ Preempted!RunsOn(x)
        IN  runsOn ~> ~runsOn

\* README.md: "when it restarts all your workflows will automatically resume".
\* A workflow that was started or enqueued reaches a final status, through a
\* crash at any point, while there are invocations left to dispatch it; also
\* one whose inputs cannot be read back (execute_workflow_by_id).
Completes ==
    LET open == /\ scenario \in {"workflow", "unreadable"}
                /\ row.status \in {"PENDING", "ENQUEUED"}
    IN  open ~> (~open \/ Workflow!Spent)

\* The function of a transactional step takes effect exactly once if its
\* output is kept, else not at all (record_transaction_output).
AppliedOnce ==
    /\ scenario = "transaction" => Transaction!AppliedOnce
    /\ scenario = "datasource" => DataStep!AppliedOnce
    /\ scenario = "recovered" => Recovered!AppliedOnce

\* The outcome the workflow goes on with is the one the application database
\* keeps (invoke_tx); of a datasource's step this needs that no answer to a
\* commit is lost (run_tx_step).
SourceOfTruth ==
    /\ scenario = "transaction" => Transaction!StepAgrees
    /\ scenario = "recovered" => Recovered!StepAgrees

InTransaction(v, w) == IF scenario = "transaction" THEN v ELSE w

Promise == INSTANCE ExactlyOnce WITH
    Outcomes <- {"v1", "v2", "err"}, Good <- {"v1", "v2"},
    effects <- InTransaction(effects, 0),
    outcome <- InTransaction(output, None), answer <- InTransaction(step, None)

\* A transaction implements the promise of ExactlyOnce: it settles once,
\* together with its effect, and answers what it settled on.
ImplementsExactlyOnce == Promise!Spec
-----------------------------------------------------------------------------
(* What the run checks.                                                    *)

\* Every execution goes on with the one outcome that is recorded for a step
\* (record_step_result, record_operation_result).
OutcomesAgree == TypeOK /\ StepAgrees

\* A step fails only for an error that is not retried or after max_attempts
\* failures, and is preempted only by a cancellation that still stands
\* (Outcome.retry, _run_preemptible_step).
StopsForReason ==
    /\ [](scenario = "preempted" => Preempted!NoStalePreemption)
    /\ FailsForReason

\* A @DBOS.transaction implements ExactlyOnce, and a datasource's step, which
\* may be recorded as failed although it committed, still takes effect at most
\* once; what is recorded is what the application database keeps, if no answer
\* to a commit of a datasource is lost (invoke_tx, run_tx_step).
EffectsOnce == ImplementsExactlyOnce /\ [](AppliedOnce /\ SourceOfTruth)

\* A workflow completes through a crash at any point, and a function that runs
\* for ever does not keep a cancelled workflow from ending
\* (startup_recovery_thread, _run_preemptible_step).
StepsEnd == Completes /\ PreemptionEnds
=============================================================================

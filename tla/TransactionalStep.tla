------------------------- MODULE TransactionalStep -------------------------
(***************************************************************************)
(* One transactional step of a workflow: its function works in the         *)
(* application's database, which also keeps its output, and the step is    *)
(* then recorded in the system database. The workflow may be executed      *)
(* several times, at once or after a crash. Two implementations: the       *)
(* @DBOS.transaction decorator, and the step of a datasource.              *)
(***************************************************************************)
EXTENDS Naturals

CONSTANTS
    Executions,
    Datasource,     \* a datasource step, else @DBOS.transaction
    Vals,           \* what the function may return
    Errors,         \* what it may raise
    MaxCrashes,     \* bound: crashes
    MaxLost,        \* bound: lost answers to the commit of the function
    MaxErrLost,     \* bound: failures of the transaction that records an error
    IntegrityError, \* the error of a second insert of the output
    ConnectionError,
    None

Outcomes == Vals \cup Errors

StepAssumption ==
    /\ Vals \cap Errors = {} /\ {None, IntegrityError, ConnectionError} \cap Outcomes = {}
    /\ None \notin {IntegrityError, ConnectionError}
    /\ Datasource \in BOOLEAN
    /\ MaxCrashes \in Nat /\ MaxLost \in Nat /\ MaxErrLost \in Nat

VARIABLES
    effects,    \* committed runs of the function
    output,     \* the row of transaction_outputs or datasource_outputs
    step,       \* the row of operation_outputs
    exec,       \* execution -> where it is, and the outcome it has in hand
    crashes, lost, errLost

vars == <<effects, output, step, exec, crashes, lost, errLost>>

Start == [pc |-> "start", out |-> None]

Init ==
    /\ effects = 0 /\ output = None /\ step = None
    /\ exec = [x \in Executions |-> Start]
    /\ crashes = 0 /\ lost = 0 /\ errLost = 0

Go(x, pc, out) == exec' = [exec EXCEPT ![x] = [pc |-> pc, out |-> out]]

\* check_operation_execution: a recorded step is replayed.
CheckStep(x) ==
    /\ exec[x].pc = "start"
    /\ IF step # None THEN Go(x, "done", step) ELSE Go(x, "check", None)
    /\ UNCHANGED <<effects, output, step, crashes, lost, errLost>>

\* The output kept by the application's database is replayed: by a
\* transaction as its first statement, by a datasource step before its loop.
CheckOutput(x) ==
    /\ exec[x].pc = "check"
    /\ IF output # None THEN Go(x, "record", output) ELSE Go(x, "body", None)
    /\ UNCHANGED <<effects, output, step, crashes, lost, errLost>>

\* Where a retry of the application's transaction begins.
Retry == IF Datasource THEN "body" ELSE "check"

\* The function returns, raises, or fails in a way that is retried.
Body(x) ==
    /\ exec[x].pc = "body"
    /\ \/ \E v \in Vals : Go(x, "commit", v)
       \/ \E e \in Errors : Go(x, "error", e)
       \/ Go(x, Retry, None)
    /\ UNCHANGED <<effects, output, step, crashes, lost, errLost>>

\* Mutant: the output of another execution goes unnoticed.
CommitApart(x) ==
    /\ exec[x].pc = "commit"
    /\ effects' = effects + 1
    /\ output' = IF output = None THEN exec[x].out ELSE output
    /\ Go(x, "record", exec[x].out)
    /\ UNCHANGED <<step, crashes, lost, errLost>>

\* The output is inserted in the transaction of the function. If there is
\* one already, the transaction is rolled back with a serialization failure,
\* which is retried, or with a violation of the primary key: a conflict for
\* DBOS.transaction, an error like any other for a datasource.
Commit(x) ==
    /\ exec[x].pc = "commit"
    /\ \/ /\ output = None
          /\ output' = exec[x].out /\ effects' = effects + 1
          /\ \/ Go(x, "record", exec[x].out) /\ UNCHANGED lost
             \/ lost < MaxLost /\ lost' = lost + 1 /\ Go(x, Retry, None)
       \/ /\ output # None
          /\ \/ Go(x, Retry, None)
             \/ IF Datasource THEN Go(x, "error", IntegrityError) ELSE Go(x, "parked", None)
          /\ UNCHANGED <<effects, output, lost>>
    /\ UNCHANGED <<step, crashes, errLost>>

\* The error of the function is recorded in a transaction of its own, which
\* nothing retries. When that fails, a datasource step ends with the failure
\* as its error, and DBOS.transaction raises it without recording the step.
RecordError(x) ==
    /\ exec[x].pc = "error"
    /\ \/ /\ output = None
          /\ output' = exec[x].out /\ Go(x, "record", exec[x].out)
          /\ UNCHANGED errLost
       \/ /\ output # None
          /\ IF Datasource THEN Go(x, "record", IntegrityError) ELSE Go(x, "parked", None)
          /\ UNCHANGED <<output, errLost>>
       \/ /\ errLost < MaxErrLost /\ errLost' = errLost + 1
          /\ output' \in IF output = None THEN {None, exec[x].out} ELSE {output}
          /\ Go(x, IF Datasource THEN "record" ELSE "done", ConnectionError)
    /\ UNCHANGED <<effects, step, crashes, lost>>

\* record_operation_result; the record of another execution is a conflict.
Record(x) ==
    /\ exec[x].pc = "record"
    /\ IF step = None
       THEN step' = exec[x].out /\ Go(x, "done", exec[x].out)
       ELSE Go(x, "parked", None) /\ UNCHANGED step
    /\ UNCHANGED <<effects, output, crashes, lost, errLost>>

\* The process of an execution dies and the workflow is executed again.
Crash(x) ==
    /\ crashes < MaxCrashes /\ crashes' = crashes + 1
    /\ exec' = [exec EXCEPT ![x] = Start]
    /\ UNCHANGED <<effects, output, step, lost, errLost>>

Run(x) ==
    \/ CheckStep(x) \/ CheckOutput(x) \/ Body(x) \/ Commit(x) \/ RecordError(x) \/ Record(x)

Finished == (\A x \in Executions : exec[x].pc \in {"done", "parked"}) /\ UNCHANGED vars

Next == (\E x \in Executions : Run(x) \/ Crash(x)) \/ Finished

Spec == Init /\ [][Next]_vars

(***************************************************************************)
(* Properties                                                              *)
(***************************************************************************)
TypeOK ==
    /\ effects \in Nat /\ output \in Outcomes \cup {None, IntegrityError}
    /\ step \in Outcomes \cup {None, IntegrityError, ConnectionError}
    /\ \A x \in Executions :
           /\ exec[x].pc \in {"start", "check", "body", "commit", "error", "record", "done", "parked"}
           /\ exec[x].pc \in {"commit", "error", "record", "done"} <=> exec[x].out # None

\* The function takes effect exactly once when its output is kept, and not at
\* all when its error is: no crash, retry or second execution repeats it.
AppliedOnce == effects = IF output \in Vals THEN 1 ELSE 0

\* The outcome that the workflow goes on with is the one its function had in
\* the application's database, which is the source of truth.
StepAgrees == step # None => step = output

\* All executions that come back from the step have the recorded outcome.
SameOutcome == \A x \in Executions : exec[x].pc = "done" => exec[x].out = step
=============================================================================

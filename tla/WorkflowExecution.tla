-------------------------- MODULE WorkflowExecution --------------------------
(***************************************************************************)
(* The life of ONE workflow ID: its row in workflow_status, its step       *)
(* checkpoints in operation_outputs, and every invocation of it, on any    *)
(* executor, that starts, enqueues, dequeues, recovers, runs or awaits it. *)
(* Rows of different workflows meet only in the queue limits and in the    *)
(* parent/child tables, which other modules model; here one ID suffices.   *)
(*                                                                         *)
(* Every action is one database transaction, one critical section of       *)
(* ActiveWorkflowById, or one run of user code, so two actions interleave  *)
(* wherever the program can be preempted, retried or killed.               *)
(***************************************************************************)
EXTENDS Naturals, FiniteSets

CONSTANTS
    Executors,      \* executor IDs; a process restarts under its own ID
    Clients,        \* invocations user code makes; each has its own owner_xid
    Dispatches,     \* invocations queue workers and recovery make
    NumSteps,       \* steps of the workflow function
    Vals,           \* results a step can return or raise
    FailVals,       \* the results that are exceptions the function lets escape
    StampsOf,       \* completed_at_epoch_ms values an invocation may read
    MaxAttempts,    \* max_recovery_attempts of the workflow
    InputsOk,       \* the persisted arguments deserialize and validate
    FalseDeath,     \* recovery may be asked for an executor that is alive
    MaxCrashes,     \* bound: crashes of executors
    MaxLost,        \* bound: commits whose acknowledgement is lost
    MaxResumes,     \* bound: resume_workflow requests
    None,           \* no value
    CancelErr       \* DBOSAwaitedWorkflowCancelledError as an outcome

Calls == Clients \cup Dispatches
Steps == 1..NumSteps
Stamps == UNION {StampsOf[c] : c \in Calls}

ASSUME ConstantsAssumption ==
    /\ NumSteps \in Nat \ {0}
    /\ Clients \cap Dispatches = {}
    /\ FailVals \subseteq Vals
    /\ None \notin Vals \cup Calls \cup Executors
    /\ CancelErr \notin Vals /\ CancelErr # None
    /\ DOMAIN StampsOf = Calls
    /\ MaxAttempts \in Nat
    /\ InputsOk \in BOOLEAN /\ FalseDeath \in BOOLEAN
    /\ MaxCrashes \in Nat /\ MaxLost \in Nat /\ MaxResumes \in Nat
    /\ IsFiniteSet(Calls)

VARIABLES
    row,        \* the workflow_status row; status "ABSENT" before the insert
    ops,        \* operation_outputs: step -> [val, at]
    call,       \* invocation -> its control state
    up,         \* executors whose process is alive
    active,     \* executors whose ActiveWorkflowById holds this workflow
    crashes, lost, resumes          \* what the bounds count

vars == <<row, ops, call, up, active, crashes, lost, resumes>>

Statuses == {"ABSENT", "PENDING", "SUCCESS", "ERROR", "ENQUEUED",
             "CANCELLED", "MAX_RECOVERY_ATTEMPTS_EXCEEDED"}
Complete == {"SUCCESS", "ERROR"}
Kinds == {"start", "call", "enqueue", "recover", "dequeue"}
Pcs == {"idle", "snapshot", "dispatched", "init", "acquire", "check", "body",
        "record", "outcome", "error", "caught", "await", "release", "done",
        "dead"}

Blank == [val |-> None, at |-> None]
NoOutput == [s \in Steps |-> None]

\* What the function returns or raises is determined by the step results it saw.
Output(seen) == [s \in Steps |-> seen[s].val]

NoCall == [pc |-> "idle", kind |-> "start", exec |-> None, queued |-> FALSE,
           owned |-> FALSE, step |-> 1, seen |-> [s \in Steps |-> Blank],
           new |-> Blank, ran |-> FALSE, result |-> NoOutput]

Init ==
    /\ row = [status |-> "ABSENT", queued |-> FALSE, exec |-> None,
              attempts |-> 0, owner |-> None, output |-> NoOutput]
    /\ ops = [s \in Steps |-> Blank]
    /\ call = [c \in Calls |-> NoCall]
    /\ up = Executors
    /\ active = {}
    /\ crashes = 0 /\ lost = 0 /\ resumes = 0

-----------------------------------------------------------------------------
(* Transactions on the row, as functions from the row to the row.          *)

\* The status _init_workflow asks for: enqueued iff a queue name is passed.
RequestsQueue(k) == k.kind = "enqueue" \/ k.queued

Forced(k) == k.kind \in {"recover", "dequeue"}

\* Mutant: recoveries are not counted.
UpsertedUncounted(r, c, k) ==
    IF r.status = "ABSENT"
      THEN [status |-> IF RequestsQueue(k) THEN "ENQUEUED" ELSE "PENDING",
            queued |-> RequestsQueue(k), exec |-> k.exec, attempts |-> 1,
            owner |-> c, output |-> NoOutput]
      ELSE [r EXCEPT !.exec = IF RequestsQueue(k) THEN @ ELSE k.exec]

\* The upsert of _insert_workflow_status.
Upserted(r, c, k) ==
    IF r.status = "ABSENT"
      THEN [status |-> IF RequestsQueue(k) THEN "ENQUEUED" ELSE "PENDING",
            queued |-> RequestsQueue(k), exec |-> k.exec,
            attempts |-> IF RequestsQueue(k) THEN 0 ELSE 1,
            owner |-> c, output |-> NoOutput]
      ELSE [r EXCEPT !.attempts = IF r.status # "ENQUEUED" /\ Forced(k)
                                    THEN @ + 1 ELSE @,
                     !.exec = IF RequestsQueue(k) THEN @ ELSE k.exec]

\* The dead-letter test on the row the upsert returned.
Exhausted(r, c) == /\ r.status \notin Complete
                   /\ r.attempts > MaxAttempts + 1
                   /\ r.owner # c

\* Mutant: rows in any status are dead-lettered.
DeadLetteredAny(r, c) ==
    IF Exhausted(r, c)
      THEN [r EXCEPT !.status = "MAX_RECOVERY_ATTEMPTS_EXCEEDED",
                     !.queued = FALSE]
      ELSE r

DeadLettered(r, c) ==
    IF Exhausted(r, c) /\ r.status = "PENDING"
      THEN [r EXCEPT !.status = "MAX_RECOVERY_ATTEMPTS_EXCEEDED",
                     !.queued = FALSE]
      ELSE r

ShouldExecute(r, c, k) == r.owner = c \/ Forced(k)

\* Mutant: only the status is written.
FinalizedBare(r, st, out) ==
    IF r.status \in {"CANCELLED", "ABSENT"} THEN r ELSE [r EXCEPT !.status = st]

\* update_workflow_outcome: any row but a cancelled one takes the outcome.
Finalized(r, st, out) ==
    IF r.status \in {"CANCELLED", "ABSENT"} THEN r
    ELSE [r EXCEPT !.status = st, !.output = out]

Cancelled(r) ==
    IF r.status \in Complete \cup {"ABSENT"} THEN r
    ELSE [r EXCEPT !.status = "CANCELLED", !.queued = FALSE]

\* Mutant: the recovery attempts are not reset.
ResumedSpent(r) ==
    IF r.status \in Complete \cup {"ABSENT"} THEN r
    ELSE [r EXCEPT !.status = "ENQUEUED", !.queued = TRUE]

Resumed(r) ==
    IF r.status \in Complete \cup {"ABSENT"} THEN r
    ELSE [r EXCEPT !.status = "ENQUEUED", !.queued = TRUE, !.attempts = 0]

Requeued(r) ==
    IF r.queued /\ r.status = "PENDING" THEN [r EXCEPT !.status = "ENQUEUED"]
    ELSE r

-----------------------------------------------------------------------------
(* Starting an invocation.                                                 *)

\* The invocation leaves; only what callers can still observe is kept.
Ended(k, pc) == [NoCall EXCEPT !.pc = pc, !.kind = k.kind, !.ran = k.ran,
                               !.result = k.result]
Left(k) == IF k.owned THEN [k EXCEPT !.pc = "release"] ELSE Ended(k, "done")

Unused(c) == call[c].pc = "idle"
At(c, pc) == call[c].pc = pc
Set(c, k) == call' = [call EXCEPT ![c] = k]

\* A commit whose acknowledgement is lost: db_retry runs the transaction again.
LoseAck == lost < MaxLost /\ lost' = lost + 1 /\ UNCHANGED call

\* User code calls start_workflow, Queue.enqueue or the workflow itself.
Request(c, e, kind) ==
    /\ Unused(c) /\ e \in up
    /\ kind \in {"start", "call", "enqueue"}
    /\ Set(c, [NoCall EXCEPT !.pc = "init", !.kind = kind, !.exec = e])
    /\ UNCHANGED <<row, ops, up, active, crashes, lost, resumes>>

\* start_queued_workflows hands this workflow to the queue worker of e.
Dequeue(c, e) ==
    /\ Unused(c) /\ e \in up
    /\ row.status = "ENQUEUED"
    /\ row' = [row EXCEPT !.status = "PENDING", !.exec = e]
    /\ Set(c, [NoCall EXCEPT !.pc = "dispatched", !.kind = "dequeue",
                             !.exec = e])
    /\ UNCHANGED <<ops, up, active, crashes, lost, resumes>>

\* The same transaction, committed with its acknowledgement lost: it is not
\* under db_retry, so the worker only logs the error and dispatches nothing.
DequeueUnacknowledged(e) ==
    /\ e \in up
    /\ row.status = "ENQUEUED"
    /\ row' = [row EXCEPT !.status = "PENDING", !.exec = e]
    /\ LoseAck
    /\ UNCHANGED <<ops, up, active, crashes, resumes>>

Snapshot(c, e) ==
    Set(c, [NoCall EXCEPT !.pc = "snapshot", !.kind = "recover",
                          !.exec = e, !.queued = row.queued])

\* get_pending_workflows lists this workflow among those of executor x.
ListedAsPending(x) == row.status = "PENDING" /\ row.exec = x

\* recover_pending_workflows on e, for executor x.
RecoverPending(c, e, x) ==
    /\ Unused(c) /\ e \in up
    /\ FalseDeath \/ x \notin up
    /\ ListedAsPending(x)
    /\ Snapshot(c, e)
    /\ UNCHANGED <<row, ops, up, active, crashes, lost, resumes>>

\* _recover_workflow on a queued row: clear_queue_assignment, nothing is run.
ReturnToQueue(c) ==
    /\ At(c, "snapshot") /\ call[c].queued
    /\ row' = Requeued(row)
    /\ \/ Set(c, Ended(call[c], "done")) /\ UNCHANGED lost
       \/ LoseAck
    /\ UNCHANGED <<ops, up, active, crashes, resumes>>

\* execute_workflow_by_id: the row is read here and used by the next action.
ExecuteById(c) ==
    /\ At(c, "dispatched") \/ (At(c, "snapshot") /\ ~call[c].queued)
    /\ IF InputsOk
         THEN /\ Set(c, [call[c] EXCEPT !.pc = "init", !.queued = row.queued])
              /\ UNCHANGED row
         ELSE /\ row' = Finalized(row, "ERROR", NoOutput)
              /\ Set(c, Ended(call[c], "done"))
    /\ UNCHANGED <<ops, up, active, crashes, lost, resumes>>

\* Where start_workflow and workflow_wrapper go with what init_workflow said.
AfterInit(r, c) ==
    LET k == call[c]
        runs == /\ k.kind # "enqueue"
                /\ ShouldExecute(r, c, k)
                /\ r.status \notin Complete
    IN  CASE Exhausted(r, c) -> Ended(k, "done")
          [] ~Exhausted(r, c) /\ runs ->
               [k EXCEPT !.ran = TRUE,
                         !.pc = IF k.kind = "call" THEN "check" ELSE "acquire"]
          [] ~Exhausted(r, c) /\ ~runs ->
               IF Forced(k) THEN Ended(k, "done") ELSE [k EXCEPT !.pc = "await"]

InitWorkflow(c) ==
    /\ At(c, "init")
    /\ LET r == Upserted(row, c, call[c])
       IN  /\ row' = DeadLettered(r, c)
           /\ \/ Set(c, AfterInit(r, c)) /\ UNCHANGED lost
              \/ LoseAck
    /\ UNCHANGED <<ops, up, active, crashes, resumes>>

\* Mutant: the map is written without looking.
AcquireBlindly(c) ==
    /\ At(c, "acquire")
    /\ Set(c, [call[c] EXCEPT !.pc = "check", !.owned = TRUE])
    /\ active' = active \cup {call[c].exec}
    /\ UNCHANGED <<row, ops, up, crashes, lost, resumes>>

\* _execute_workflow_wthread: only the owner runs, any other invocation polls.
Acquire(c) ==
    /\ At(c, "acquire")
    /\ IF call[c].exec \in active
         THEN /\ Set(c, [call[c] EXCEPT !.pc = "await"])
              /\ UNCHANGED active
         ELSE /\ Set(c, [call[c] EXCEPT !.pc = "check", !.owned = TRUE])
              /\ active' = active \cup {call[c].exec}
    /\ UNCHANGED <<row, ops, up, crashes, lost, resumes>>

Release(c) ==
    /\ At(c, "release")
    /\ active' = active \ {call[c].exec}
    /\ Set(c, Ended(call[c], "done"))
    /\ UNCHANGED <<row, ops, up, crashes, lost, resumes>>

-----------------------------------------------------------------------------
(* Running the workflow function, one step after the other.                *)

\* The function has the result n of its current step and goes on.
Advanced(k, n) ==
    [k EXCEPT !.seen = [@ EXCEPT ![k.step] = n], !.step = @ + 1, !.new = Blank,
              !.pc = IF n.val \in FailVals THEN "error"
                     ELSE IF k.step = NumSteps THEN "outcome" ELSE "check"]

\* check_operation_execution, then a replay or the step's body.
CheckStep(c) ==
    /\ At(c, "check")
    /\ LET k == call[c]
       IN  Set(c, IF row.status = "CANCELLED" THEN Left(k)
                  ELSE IF ops[k.step] # Blank THEN Advanced(k, ops[k.step])
                  ELSE [k EXCEPT !.pc = "body"])
    /\ UNCHANGED <<row, ops, up, active, crashes, lost, resumes>>

\* The step's body returns or raises v, then the clock is read.
RunBody(c, v, t) ==
    /\ At(c, "body") /\ t \in StampsOf[c]
    /\ Set(c, [call[c] EXCEPT !.pc = "record", !.new = [val |-> v, at |-> t]])
    /\ UNCHANGED <<row, ops, up, active, crashes, lost, resumes>>

\* Mutant: ON CONFLICT DO NOTHING, and no look at what is there.
ConflictsNever(s, n) == FALSE

\* record_operation_result: an entry of another instant is a conflict.
Conflicts(s, n) == ops[s] # Blank /\ ops[s].at # n.at

\* Mutant: the last writer wins.
RecordStepOver(c) ==
    /\ At(c, "record")
    /\ LET k == call[c]
       IN  /\ row' = [row EXCEPT !.exec = k.exec]
           /\ ops' = [ops EXCEPT ![k.step] = k.new]
           /\ Set(c, Advanced(k, k.new))
    /\ UNCHANGED <<up, active, crashes, lost, resumes>>

RecordStep(c) ==
    /\ At(c, "record")
    /\ LET k == call[c]
       IN  IF Conflicts(k.step, k.new)
             THEN /\ Set(c, [k EXCEPT !.pc = "await", !.new = Blank])
                  /\ UNCHANGED <<row, ops, lost>>
             ELSE /\ row' = [row EXCEPT !.exec = k.exec]
                  /\ ops' = [ops EXCEPT ![k.step] = IF @ = Blank THEN k.new ELSE @]
                  /\ \/ Set(c, Advanced(k, k.new)) /\ UNCHANGED lost
                     \/ LoseAck
    /\ UNCHANGED <<up, active, crashes, resumes>>

\* persist: update_workflow_outcome for the function's result.
WriteOutcome(c, pc, st, out) ==
    /\ At(c, pc)
    /\ IF row.status = "CANCELLED"
         THEN /\ Set(c, IF st = "SUCCESS" THEN [call[c] EXCEPT !.pc = "caught"]
                        ELSE Left(call[c]))
              /\ UNCHANGED <<row, lost>>
         ELSE /\ row' = Finalized(row, st, out)
              /\ \/ Set(c, Left([call[c] EXCEPT !.result = out]))
                    /\ UNCHANGED lost
                 \/ LoseAck
    /\ UNCHANGED <<ops, up, active, crashes, resumes>>

WriteSuccess(c) == WriteOutcome(c, "outcome", "SUCCESS", Output(call[c].seen))
WriteError(c) == WriteOutcome(c, "error", "ERROR", Output(call[c].seen))

\* The error raised by a cancelled WriteSuccess is caught by persist itself.
WriteCaught(c) ==
    WriteOutcome(c, "caught", "ERROR", [s \in Steps |-> CancelErr])

\* await_workflow_result: one poll that finds a final status.
AwaitResult(c) ==
    /\ At(c, "await")
    /\ row.status \notin {"ABSENT", "PENDING", "ENQUEUED"}
    /\ Set(c, Left(IF row.status \in Complete
                     THEN [call[c] EXCEPT !.result = row.output]
                     ELSE call[c]))
    /\ UNCHANGED <<row, ops, up, active, crashes, lost, resumes>>

-----------------------------------------------------------------------------
(* Requests about the workflow, and failures.                              *)

\* cancel_workflow, or the timeout task of _init_workflow at the deadline.
Cancel ==
    /\ row' = Cancelled(row)
    /\ UNCHANGED <<ops, call, up, active, crashes, lost, resumes>>

Resume ==
    /\ resumes < MaxResumes
    /\ row' = Resumed(row)
    /\ resumes' = resumes + 1
    /\ UNCHANGED <<ops, call, up, active, crashes, lost>>

Live(k) == k.pc \notin {"idle", "done", "dead"}

Crash(e) ==
    /\ e \in up /\ crashes < MaxCrashes
    /\ crashes' = crashes + 1
    /\ up' = up \ {e}
    /\ active' = active \ {e}
    /\ call' = [c \in Calls |-> IF call[c].exec = e /\ Live(call[c])
                                  THEN Ended(call[c], "dead") ELSE call[c]]
    /\ UNCHANGED <<row, ops, lost, resumes>>

\* Mutant: nothing is recovered at launch.
RestartAfresh(e) ==
    /\ e \notin up
    /\ up' = up \cup {e}
    /\ UNCHANGED <<row, ops, call, active, crashes, lost, resumes>>

\* DBOS.launch: the new process lists its pending workflows first.
Restart(e) ==
    /\ e \notin up
    /\ up' = up \cup {e}
    /\ IF ListedAsPending(e)
         THEN \E c \in Dispatches : Unused(c) /\ Snapshot(c, e)
         ELSE UNCHANGED call
    /\ UNCHANGED <<row, ops, active, crashes, lost, resumes>>

Run(c) ==
    \/ ReturnToQueue(c) \/ ExecuteById(c) \/ InitWorkflow(c)
    \/ Acquire(c) \/ Release(c) \/ CheckStep(c) \/ RecordStep(c)
    \/ WriteSuccess(c) \/ WriteError(c) \/ WriteCaught(c) \/ AwaitResult(c)
    \/ \E v \in Vals, t \in StampsOf[c] : RunBody(c, v, t)

Next ==
    \/ \E c \in Calls : Run(c)
    \/ \E c \in Clients, e \in Executors, kind \in Kinds : Request(c, e, kind)
    \/ \E c \in Dispatches, e \in Executors :
         \/ Dequeue(c, e)
         \/ \E x \in Executors : RecoverPending(c, e, x)
    \/ \E e \in Executors : DequeueUnacknowledged(e) \/ Crash(e) \/ Restart(e)
    \/ Cancel
    \/ Resume

Spec == Init /\ [][Next]_vars

-----------------------------------------------------------------------------
(* Properties.                                                             *)

Entry == [val : Vals \cup {None}, at : Stamps \cup {None}]
Outputs == [Steps -> Vals \cup {None, CancelErr}]

RowRecords == [status : Statuses, queued : BOOLEAN,
               exec : Executors \cup {None}, attempts : Nat,
               owner : Clients \cup {None}, output : Outputs]
CallRecords == [pc : Pcs, kind : Kinds, exec : Executors \cup {None},
                queued : BOOLEAN, owned : BOOLEAN, step : 1..(NumSteps + 1),
                seen : [Steps -> Entry], new : Entry, ran : BOOLEAN,
                result : Outputs]

\* The shape of the row, of the step records and of the invocations.
TypeOK ==
    /\ row \in RowRecords
    /\ ops \in [Steps -> Entry]
    /\ call \in [Calls -> CallRecords]
    /\ up \in SUBSET Executors /\ active \in SUBSET Executors
    /\ crashes \in 0..MaxCrashes /\ lost \in 0..MaxLost
    /\ resumes \in 0..MaxResumes

\* Two invocations never read the same completed_at_epoch_ms.
DistinctStamps ==
    \A c, d \in Calls : c # d => StampsOf[c] \cap StampsOf[d] = {}

\* Exactly-once steps: whatever execution the function is in, it goes on only
\* with step results that are in operation_outputs (check_operation_execution,
\* record_operation_result), so all executions of the workflow see one history.
ReplayExact ==
    DistinctStamps =>
      \A c \in Calls, s \in Steps :
        call[c].seen[s] # Blank => call[c].seen[s] = ops[s]

\* A step is recorded only after every earlier step of the function was, and
\* never after a step whose exception ended the function.
StepsInOrder ==
    DistinctStamps =>
      \A s, t \in Steps :
        s < t /\ ops[t] # Blank => ops[s] # Blank /\ ops[s].val \notin FailVals

\* The steps of the function ran to its end.
Finished ==
    \/ \E s \in Steps : ops[s].val \in FailVals
    \/ \A s \in Steps : ops[s] # Blank

\* A completed workflow's recorded outcome is the one its recorded steps
\* determine (persist, update_workflow_outcome), whoever wrote it. A resume
\* can make an ERROR an exception (WriteCaught after the resume of a workflow
\* whose cancellation refused the SUCCESS), a SUCCESS never.
OutcomeFromSteps ==
    DistinctStamps /\ row.status \in Complete
      /\ (row.status = "SUCCESS" \/ (InputsOk /\ MaxResumes = 0))
        => Finished /\ row.output = Output(ops)

\* Every caller that gets a result gets the same one (persist's return value,
\* await_workflow_result), even when several invocations ran the function.
ResultsAgree ==
    DistinctStamps /\ InputsOk /\ MaxResumes = 0 =>
      \A c, d \in Calls :
        call[c].result # NoOutput /\ call[d].result # NoOutput =>
          call[c].result = call[d].result

\* ActiveWorkflowById: in one process at most one invocation that went through
\* the map runs the function, and the map holds the ID exactly while it does.
SingleOwner ==
    /\ \A c, d \in Calls :
         call[c].owned /\ call[d].owned /\ call[c].exec = call[d].exec => c = d
    /\ active = {call[c].exec : c \in {d \in Calls : call[d].owned}}

\* A workflow that can still be dispatched has attempts left: the dead-letter
\* test of _insert_workflow_status leaves no exhausted row PENDING or ENQUEUED.
AttemptsBounded ==
    row.status \in {"PENDING", "ENQUEUED"} => row.attempts <= MaxAttempts + 1

\* Invocations that run the function, and recoveries that ended without: they
\* returned the workflow to its queue, or were refused.
Ran == {c \in Calls : call[c].ran}
Returns == {c \in Calls :
              call[c].kind = "recover" /\ call[c].pc = "done" /\ ~call[c].ran}

\* Unless it is resumed, a workflow starts executing at most
\* max_recovery_attempts + 1 times, whatever crashes and recoveries do, and once
\* more for every recovery that returns it to its queue and for every lost
\* acknowledgement: a dispatch that meets a row returned to ENQUEUED meanwhile
\* runs the function, and _insert_workflow_status does not count it.
ExecutionsBounded ==
    resumes = 0 =>
      Cardinality(Ran) <= MaxAttempts + 1 + Cardinality(Returns) + lost

\* A recorded step never changes and is never lost (operation_outputs has no
\* update): a crash or a second execution cannot undo it.
StepsDurable == [][\A s \in Steps : ops[s] # Blank => ops'[s] = ops[s]]_vars

\* A completed workflow keeps its status and its outcome forever, although
\* update_workflow_outcome would overwrite them.
OutcomeDurable ==
    [][(DistinctStamps /\ InputsOk /\ MaxResumes = 0 /\ row.status \in Complete)
         => row'.status = row.status /\ row'.output = row.output]_vars

\* CANCELLED is left only by resume_workflow, which enqueues the workflow.
CancelHolds ==
    [][row.status = "CANCELLED" =>
         \/ row'.status = "CANCELLED"
         \/ row'.status = "ENQUEUED" /\ resumes' = resumes + 1]_vars

\* The bounded supply of invocations is used up: dispatch stops in the model,
\* not in the program.
Spent == \A c \in Dispatches : ~Unused(c)

\* _sys_db.py, _record_operation_result_txn: "Record the outcome, throwing
\* DBOSWorkflowConflictIDError if it is already present". No execution goes on
\* with a step result other than the one that is present.
DuplicateRecordRejected ==
    \A c \in Calls, s \in Steps :
      call[c].seen[s] # Blank => call[c].seen[s] = ops[s]

-----------------------------------------------------------------------------
(* The abstract specification this one implements.                         *)

Phase ==
    CASE row.status = "ABSENT" -> "absent"
      [] row.status \in {"PENDING", "ENQUEUED"} -> "running"
      [] row.status = "CANCELLED" -> "cancelled"
      [] row.status = "MAX_RECOVERY_ATTEMPTS_EXCEEDED" -> "exhausted"
      [] row.status \in Complete -> "done"

Durable == INSTANCE DurableWorkflow
             WITH phase <- Phase, log <- Output(ops), outcome <- row.output

\* Crashes, recoveries, duplicate executions and retried transactions are
\* invisible: the rows behave as one log of steps with one outcome. It holds
\* without resumes (see OutcomeFromSteps) and clock collisions (see
\* DuplicateRecordRejected), for workflows with valid persisted inputs.
ImplementsDurable == Durable!Spec

-----------------------------------------------------------------------------
(* The inductive invariant behind the safety properties.                   *)

\* The invocations that may still record a step for the first time.
Ahead == {"idle", "snapshot", "dispatched", "init", "acquire", "check", "body"}
Running == {"check", "body", "record", "outcome", "error", "caught"}

\* Control state: what is known of an invocation from where it is.
ControlOK(c, k) ==
    /\ Forced(k) => c \in Dispatches
    /\ c \in Dispatches => Forced(k) \/ k.pc = "idle"
    /\ k.owned => k.pc \in Running \cup {"await", "release"}
    /\ k.pc = "release" => k.owned
    /\ Live(k) => k.exec \in up
    /\ k.pc \in {"check", "body", "record"} => k.step \in Steps
    /\ k.pc \in {"outcome", "caught"} => k.step = NumSteps + 1
    /\ k.pc = "error" => k.step > 1
    /\ k.pc \notin Running \cup {"await", "release"} => k.step = 1
    /\ k.pc = "record" => k.new.val \in Vals /\ k.new.at \in StampsOf[c]

ControlInv == \A c \in Calls : ControlOK(c, call[c])

\* An invocation has seen exactly the first step - 1 of the records o.
HistoryOK(k, o) ==
    \A s \in Steps :
      /\ s < k.step => o[s] # Blank /\ k.seen[s] = o[s]
      /\ s >= k.step => k.seen[s] = Blank
      /\ s < k.step /\ k.pc \in Running
           => (o[s].val \in FailVals <=> k.pc = "error" /\ s = k.step - 1)

\* A record at one of c's instants is c's own.
StampOK(c, k, o) ==
    \A s \in Steps :
      o[s] # Blank /\ o[s].at \in StampsOf[c] =>
        /\ k.pc \in Ahead => s < k.step
        /\ k.pc = "record" => s < k.step \/ (s = k.step /\ o[s] = k.new)

HistoryInv ==
    DistinctStamps =>
      \A c \in Calls : HistoryOK(call[c], ops) /\ StampOK(c, call[c], ops)

RecordInv == \A s \in Steps : ops[s] # Blank => ops[s].val \in Vals

SomeFailed == \E s \in Steps : ops[s].val \in FailVals

Orderly == DistinctStamps /\ InputsOk /\ MaxResumes = 0

\* Outcomes written, and outcomes about to be written, are those of the steps.
OutcomeInv ==
    /\ DistinctStamps /\ row.status \in Complete
         /\ (row.status = "SUCCESS" \/ Orderly)
           => /\ Finished /\ row.output = Output(ops)
              /\ row.status = "ERROR" <=> SomeFailed
    /\ Orderly =>
         \A c \in Calls :
           /\ call[c].result # NoOutput =>
                Finished /\ call[c].result = Output(ops)
           /\ call[c].pc = "caught" => row.status = "CANCELLED"

\* Nothing runs before the row exists.
PresenceInv ==
    row.status = "ABSENT" =>
      /\ row.attempts = 0
      /\ \A c \in Calls : call[c].pc \in {"idle", "init", "dead"} /\ ~Forced(call[c])

\* The dispatches that took the workflow from its queue and did not reach
\* init_workflow yet.
InFlight == {c \in Calls :
               call[c].kind = "dequeue" /\ call[c].pc \in {"dispatched", "init"}}

Counted == IF row.attempts <= MaxAttempts THEN row.attempts ELSE MaxAttempts + 1
Uncounted == Cardinality(Returns) + lost

\* Without resumes a row leaves its queue for good, and the call that inserted
\* it tells whether it ever was in one.
QueueInv ==
    /\ \A c \in Calls :
         /\ call[c].pc = "snapshot" => call[c].kind = "recover"
         /\ call[c].pc = "dispatched" => call[c].kind = "dequeue"
         /\ call[c].pc \in {"idle", "snapshot", "dispatched", "init"} => ~call[c].ran
         /\ call[c].queued => Forced(call[c])
    /\ row.status = "ABSENT" =>
         row.owner = None /\ \A c \in Calls : ~call[c].ran
    /\ row.status # "ABSENT" => row.owner \in Clients /\ ~Unused(row.owner)
    /\ resumes = 0 =>
         /\ row.status = "ENQUEUED" => row.queued
         /\ row.queued \/ (\E c \in Calls : call[c].kind = "dequeue")
              => row.status # "ABSENT" /\ call[row.owner].kind = "enqueue"
         /\ \A c \in Calls :
              call[c].kind = "recover" /\
                (call[c].pc = "init" \/ (call[c].pc = "snapshot" /\ ~call[c].queued))
                  => ~row.queued

\* Every execution was counted, or follows a return that no dispatch in flight
\* can use any more; the inserting call was counted at its insert.
ExecutionsInv ==
    resumes = 0 =>
      /\ Cardinality(Ran) <= Counted + Uncounted
      /\ Cardinality(Ran) + Cardinality(InFlight)
           <= Counted + Uncounted + (IF row.status = "ENQUEUED" THEN 0 ELSE 1)
      /\ \A c \in Clients :
           row.owner = c /\ call[c].kind # "enqueue" /\ call[c].pc = "init"
             => Cardinality(Ran) + 1 <= Counted + Uncounted
=============================================================================

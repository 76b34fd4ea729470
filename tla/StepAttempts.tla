---------------------------- MODULE StepAttempts ----------------------------
(***************************************************************************)
(* One step of a workflow, from the call to its checkpoint: the attempts   *)
(* of its function, the retries, the poller that preempts it when the      *)
(* workflow is cancelled, and what is recorded. The workflow is cancelled  *)
(* and resumed while several executions of it run the step. No two         *)
(* executions record it in the same millisecond (WorkflowExecution has     *)
(* that case).                                                             *)
(***************************************************************************)
EXTENDS Naturals

CONSTANTS
    Executions,
    Async,          \* the function is a coroutine function
    Preemptible,    \* preemptible=True
    Retries,        \* retries_allowed
    MaxAttempts,    \* max_attempts
    Vals,           \* what the function may return
    Unserializable, \* what it may return that cannot be serialized
    Errors,         \* what it may raise
    Refused,        \* the errors should_retry refuses
    MaxCancels,     \* bound: cancellations
    MaxCrashes,     \* bound: crashes
    Exceeded,       \* DBOSMaxStepRetriesExceeded
    SerializeError, \* raised for an unserializable value
    None

Outcomes == Vals \cup Unserializable \cup Errors

AttemptsAssumption ==
    /\ {Async, Preemptible, Retries} \subseteq BOOLEAN
    /\ Preemptible => Async                      \* checked by decorate_step
    /\ MaxAttempts \in Nat \ {0}                 \* asserted by retry
    /\ Refused \subseteq Errors
    /\ Vals \cap Errors = {} /\ Unserializable \cap (Vals \cup Errors) = {}
    /\ {None, Exceeded, SerializeError} \cap Outcomes = {}
    /\ None # Exceeded /\ None # SerializeError /\ Exceeded # SerializeError
    /\ MaxCancels \in Nat /\ MaxCrashes \in Nat

VARIABLES
    status,     \* the workflow's status: cancelled or not
    record,     \* the row of operation_outputs
    exec,       \* execution -> where it is, its attempt, what it has in hand,
                \* and what its poller did: read a cancelled status ("seen"),
                \* then called cancel() on the task of the step ("asked")
    cancels, crashes,
    began,      \* history: cancellations made before an execution's check
    failed      \* history: attempts of an execution that failed

vars == <<status, record, exec, cancels, crashes, began, failed>>

Fresh == [pc |-> "start", att |-> 0, out |-> None, poll |-> "no"]

Init ==
    /\ status = "PENDING" /\ record = None
    /\ exec = [x \in Executions |-> Fresh]
    /\ cancels = 0 /\ crashes = 0
    /\ began = [x \in Executions |-> 0]
    /\ failed = [x \in Executions |-> 0]

Go(x, pc, att, out) ==
    exec' = [exec EXCEPT ![x] = [pc |-> pc, att |-> att, out |-> out, poll |-> "no"]]

\* Mutant: a step begins though its workflow is cancelled.
CheckRecordOnly(x) ==
    /\ exec[x].pc = "start"
    /\ IF record # None THEN Go(x, "done", 0, record) ELSE Go(x, "run", 1, None)
    /\ began' = [began EXCEPT ![x] = cancels]
    /\ UNCHANGED <<status, record, cancels, crashes, failed>>

\* check_existing_result: a cancelled workflow aborts, a recorded step is
\* replayed, any other is attempted.
Check(x) ==
    /\ exec[x].pc = "start"
    /\ IF status = "CANCELLED" THEN Go(x, "aborted", 0, None)
       ELSE IF record # None THEN Go(x, "done", 0, record)
       ELSE Go(x, "run", 1, None)
    /\ began' = [began EXCEPT ![x] = cancels]
    /\ UNCHANGED <<status, record, cancels, crashes, failed>>

\* What becomes of an attempt that raised err: it is the step's error, or is
\* followed by another attempt after a pause, or exhausts them.
AfterError(x, err) ==
    LET n == exec[x].att
    IN  IF ~Retries \/ err \in Refused THEN Go(x, "record", n, err)
        ELSE IF n = MaxAttempts THEN Go(x, "record", n, Exceeded)
        ELSE Go(x, "pause", n, None)

\* The function ends, whether or not its task was cancelled: it may have
\* ended before the cancellation reached it, or have handled it.
Attempt(x) ==
    /\ exec[x].pc = "run"
    /\ \/ \E v \in Vals \cup Unserializable :
             Go(x, "record", exec[x].att, v) /\ UNCHANGED failed
       \/ \E e \in Errors :
             /\ AfterError(x, e)
             /\ failed' = [failed EXCEPT ![x] = @ + 1]
    /\ UNCHANGED <<status, record, cancels, crashes, began>>

\* The pause of on_exception is over.
Again(x) ==
    /\ exec[x].pc = "pause"
    /\ Go(x, "run", exec[x].att + 1, None)
    /\ UNCHANGED <<status, record, cancels, crashes, began, failed>>

\* The poller reads the status, in a thread of its own. After a read that
\* finds the workflow uncancelled, or fails, it polls again.
PollRead(x) ==
    /\ Preemptible /\ exec[x].pc = "run" /\ exec[x].poll = "no"
    /\ status = "CANCELLED"
    /\ exec' = [exec EXCEPT ![x].poll = "seen"]
    /\ UNCHANGED <<status, record, cancels, crashes, began, failed>>

PollCancel(x) ==
    /\ exec[x].poll = "seen"
    /\ exec' = [exec EXCEPT ![x].poll = "asked"]
    /\ UNCHANGED <<status, record, cancels, crashes, began, failed>>

\* The task of the step ends with CancelledError, which the poller caused.
Preempt(x) ==
    /\ exec[x].poll = "asked"
    /\ Go(x, "aborted", exec[x].att, None)
    /\ UNCHANGED <<status, record, cancels, crashes, began, failed>>

\* Serializing the value fails, before anything is written. Pending._wrap
\* gives the exception to record_step_result again, as the step's error;
\* Immediate.then lets it out, and the step is not recorded.
SerializeFails(x) ==
    /\ exec[x].pc = "record" /\ exec[x].out \in Unserializable
    /\ Go(x, IF Async THEN "record" ELSE "raised", exec[x].att, SerializeError)
    /\ UNCHANGED <<status, record, cancels, crashes, began, failed>>

\* Mutant: a record of another execution is overwritten.
RecordOver(x) ==
    /\ exec[x].pc = "record" /\ exec[x].out \notin Unserializable
    /\ record' = exec[x].out /\ Go(x, "done", exec[x].att, exec[x].out)
    /\ UNCHANGED <<status, cancels, crashes, began, failed>>

\* record_step_result: the first record stays, whatever the status is. A
\* second one is a conflict, upon which the execution gives way.
Record(x) ==
    /\ exec[x].pc = "record" /\ exec[x].out \notin Unserializable
    /\ IF record = None
       THEN record' = exec[x].out /\ Go(x, "done", exec[x].att, exec[x].out)
       ELSE UNCHANGED record /\ Go(x, "parked", exec[x].att, None)
    /\ UNCHANGED <<status, cancels, crashes, began, failed>>

\* The workflow is executed again: it was resumed, or the process died.
Restart(x) ==
    /\ exec[x].pc # "start"
    /\ \/ exec[x].pc = "aborted" /\ status = "PENDING" /\ UNCHANGED crashes
       \/ crashes < MaxCrashes /\ crashes' = crashes + 1
    /\ exec' = [exec EXCEPT ![x] = Fresh]
    /\ failed' = [failed EXCEPT ![x] = 0]
    /\ UNCHANGED <<status, record, cancels, began>>

CancelWorkflow ==
    /\ status = "PENDING" /\ cancels < MaxCancels
    /\ status' = "CANCELLED" /\ cancels' = cancels + 1
    /\ UNCHANGED <<record, exec, crashes, began, failed>>

ResumeWorkflow ==
    /\ status = "CANCELLED" /\ status' = "PENDING"
    /\ UNCHANGED <<record, exec, cancels, crashes, began, failed>>

Finished ==
    /\ \A x \in Executions : exec[x].pc \in {"done", "raised", "parked", "aborted"}
    /\ UNCHANGED vars

\* What the thread, or the event loop, of an execution does by itself. That
\* the function ends is no part of it, except when its task is cancelled.
Thread(x) ==
    \/ Check(x) \/ Again(x) \/ Preempt(x) \/ SerializeFails(x) \/ Record(x)

Poller(x) == PollRead(x) \/ PollCancel(x)

Next ==
    \/ \E x \in Executions : Thread(x) \/ Poller(x) \/ Attempt(x) \/ Restart(x)
    \/ CancelWorkflow \/ ResumeWorkflow \/ Finished

Spec == Init /\ [][Next]_vars

-----------------------------------------------------------------------------

\* Type invariant. A poller runs only while the function does, and no
\* execution makes more attempts than max_attempts.
TypeOK ==
    /\ status \in {"PENDING", "CANCELLED"}
    /\ record \in Vals \cup Errors \cup {None, Exceeded, SerializeError}
    /\ exec \in [Executions -> [
            pc : {"start", "run", "pause", "record", "done", "raised", "parked", "aborted"},
            att : 0..MaxAttempts,
            out : Outcomes \cup {None, Exceeded, SerializeError},
            poll : {"no", "seen", "asked"}]]
    /\ \A x \in Executions : exec[x].poll # "no" => Preemptible /\ exec[x].pc = "run"
    /\ cancels \in 0..MaxCancels /\ crashes \in 0..MaxCrashes
    /\ began \in [Executions -> 0..MaxCancels]
    /\ failed \in [Executions -> 0..MaxAttempts]

\* A step fails for a reason: DBOSMaxStepRetriesExceeded is recorded by an
\* execution all of whose max_attempts attempts failed since it last
\* started, and another error of the function only when it is not to be
\* retried. What every action obeys. (invoke_step and Outcome.retry)
FailsForReason ==
    record' # record /\ record' \in Errors \cup {Exceeded} =>
        \E x \in Executions :
            /\ exec[x].pc = "record"
            /\ IF record' = Exceeded THEN failed[x] = MaxAttempts
               ELSE ~Retries \/ record' \in Refused

\* All executions that get past the step got what is recorded for it, so
\* what a retry or a preemption did to one of them is never seen by the
\* workflow of another. (record_step_result, check_existing_result)
StepAgrees == \A x \in Executions : exec[x].pc = "done" => exec[x].out = record

\* A step is preempted only by a cancellation made after its execution
\* checked the status: one that was resumed is not preempted by the
\* cancellation it was resumed from. (_run_preemptible_step)
NoStalePreemption ==
    \A x \in Executions :
        exec[x].pc = "aborted" /\ exec[x].att > 0 => cancels > began[x]

\* The step goes on although its workflow is cancelled.
RunsOn(x) == status = "CANCELLED" /\ exec[x].pc \in {"run", "pause"}
=============================================================================

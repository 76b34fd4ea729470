-------------------------- MODULE WorkflowCleanup --------------------------
(***************************************************************************)
(* The operations that tidy up after workflows, while workflows run:       *)
(* garbage_collect removes old complete workflows from the system database *)
(* in batches and then their transaction outputs from the application      *)
(* database, delete_workflow does so for a workflow and its descendants,   *)
(* and global_timeout cancels old workflows one by one. Every statement is *)
(* an action: under READ COMMITTED each sees what is committed when it     *)
(* begins. Every workflow has one transactional step.                      *)
(***************************************************************************)
EXTENDS Naturals, FiniteSets, FiniteSetsExt, Relation

CONSTANTS
    Workflows,
    Parent,         \* the workflow that starts each, or None
    Now,            \* the present; older rows have smaller times
    Cutoffs,        \* the times that callers give
    Thresholds,     \* the rows_threshold that callers give
    BatchSize,      \* rows deleted per transaction, or None
    Operations,     \* a subset of {"collect", "delete", "timeout"}
    Resumes,        \* cancelled workflows may be resumed
    Reuse,          \* the ID of a deleted workflow may be started again
    MaxCrashes,
    None

CleanupAssumption ==
    /\ Parent \in [Workflows -> Workflows \cup {None}] /\ None \notin Workflows
    /\ Now \in Nat \ {0} /\ Cutoffs \subseteq 1..Now /\ Thresholds \subseteq Nat \ {0}
    /\ BatchSize \in (Nat \ {0}) \cup {None} /\ MaxCrashes \in Nat
    /\ Operations \subseteq {"collect", "delete", "timeout"}
    /\ Resumes \in BOOLEAN /\ Reuse \in BOOLEAN

VARIABLES
    wf,             \* workflow_status: the status and created_at of each
    tx,             \* transaction_outputs: the created_at of each, 0 if none
    run,            \* the execution: before its transaction, between the
                    \* commit and the checkpoint of the step, or after it
    commits,        \* how often the transaction was applied
    op,             \* the operation in progress
    want,           \* what it is still to do: rows nobody else changed since
    crashes

vars == <<wf, tx, run, commits, op, want, crashes>>

Live == {"PENDING", "ENQUEUED"}
Complete == {"SUCCESS", "CANCELLED"}
Rows == {w \in Workflows : wf[w].status \in Live \cup Complete}
Active == {w \in Rows : wf[w].status \in Live}

Idle == [pc |-> "idle", cutoff |-> None, keep |-> None, mark |-> 0, step |-> None,
         ids |-> {}, frontier |-> {}]

Absent == [status |-> "none", created |-> 0]

Init ==
    /\ wf \in [Workflows -> {Absent} \cup [status : Live \cup Complete, created : 1..Now]]
    /\ run \in [Workflows -> {"tx", "record", "done"}]
    /\ \A w \in Workflows : /\ wf[w].status = "SUCCESS" => run[w] = "done"
                            /\ wf[w] = Absent => run[w] = "tx"
    /\ commits = [w \in Workflows |-> IF run[w] = "tx" THEN 0 ELSE 1]
    /\ tx \in [Workflows -> 0..Now]
    /\ \A w \in Workflows : IF run[w] = "tx" THEN tx[w] = 0 ELSE tx[w] >= wf[w].created
    /\ op = Idle /\ want = {} /\ crashes = 0

-----------------------------------------------------------------------------
(***************************************************************************)
(* The workflows.                                                          *)
(***************************************************************************)
SetStatus(w, s) ==
    /\ wf' = [wf EXCEPT ![w].status = s]
    /\ want' = want \ {w}

Begin(w) ==
    /\ wf[w].status \in {"none"} \cup (IF Reuse THEN {"gone"} ELSE {})
    /\ Parent[w] # None => wf[Parent[w]].status = "PENDING"
    /\ wf' = [wf EXCEPT ![w] = [status |-> "PENDING", created |-> Now]]
    /\ run' = [run EXCEPT ![w] = "tx"]
    /\ commits' = [commits EXCEPT ![w] = 0]
    /\ want' = want \ {w}
    /\ UNCHANGED <<tx, op, crashes>>

Dequeue(w) ==
    /\ wf[w].status = "ENQUEUED"
    /\ SetStatus(w, "PENDING")
    /\ UNCHANGED <<tx, run, commits, op, crashes>>

\* The transaction runs unless its output is recorded already.
Transact(w) ==
    /\ wf[w].status = "PENDING" /\ run[w] = "tx"
    /\ tx' = [tx EXCEPT ![w] = IF @ = 0 THEN Now ELSE @]
    /\ commits' = [commits EXCEPT ![w] = IF tx[w] = 0 THEN @ + 1 ELSE @]
    /\ run' = [run EXCEPT ![w] = "record"]
    /\ UNCHANGED <<wf, op, want, crashes>>

RecordStep(w) ==
    /\ w \in Rows /\ run[w] = "record"
    /\ run' = [run EXCEPT ![w] = "done"]
    /\ UNCHANGED <<wf, tx, commits, op, want, crashes>>

Finish(w) ==
    /\ wf[w].status = "PENDING" /\ run[w] = "done"
    /\ SetStatus(w, "SUCCESS")
    /\ UNCHANGED <<tx, run, commits, op, crashes>>

Cancel(w) ==
    /\ wf[w].status \in Live
    /\ SetStatus(w, "CANCELLED")
    /\ UNCHANGED <<tx, run, commits, op, crashes>>

Resume(w) ==
    /\ Resumes /\ wf[w].status = "CANCELLED"
    /\ SetStatus(w, "ENQUEUED")
    /\ UNCHANGED <<tx, run, commits, op, crashes>>

\* The executor dies before the step is recorded; recovery runs it again.
CrashExecution(w) ==
    /\ crashes < MaxCrashes /\ run[w] = "record"
    /\ crashes' = crashes + 1
    /\ run' = [run EXCEPT ![w] = "tx"]
    /\ UNCHANGED <<wf, tx, commits, op, want>>

-----------------------------------------------------------------------------
(***************************************************************************)
(* garbage_collect.                                                        *)
(***************************************************************************)
Old(c) == {w \in Rows : wf[w].created < c}

Eligible(c) == {w \in Old(c) : wf[w].status \notin Live}

\* The operation goes on to delete what was created before the cutoff.
StartDeleting(c) ==
    /\ op' = [op EXCEPT !.pc = IF BatchSize = None THEN "delete rest" ELSE "find", !.cutoff = c]
    /\ want' = Eligible(c)

Collect(c, k) ==
    /\ op.pc = "idle" /\ "collect" \in Operations
    /\ c # None \/ k # None
    /\ IF k = None
       THEN StartDeleting(c)
       ELSE op' = [op EXCEPT !.pc = "threshold", !.cutoff = c, !.keep = k] /\ want' = {}
    /\ UNCHANGED <<wf, tx, run, commits, crashes>>

\* The created_at of the k-th of a set of rows, the oldest first.
KthOldest(S, created, k) ==
    Min({t \in 0..Now : Cardinality({w \in S : created[w] <= t}) >= k})

Created == [w \in Workflows |-> wf[w].created]

\* The later of the cutoff that was given and the created_at of the
\* rows_threshold-th newest row.
Threshold ==
    /\ op.pc = "threshold"
    /\ IF Cardinality(Rows) < op.keep /\ op.cutoff = None
       THEN op' = Idle /\ want' = {}
       ELSE LET newest == IF Cardinality(Rows) < op.keep THEN 0
                          ELSE KthOldest(Rows, Created, Cardinality(Rows) - op.keep + 1)
                given == IF op.cutoff = None THEN 0 ELSE op.cutoff
            IN  StartDeleting(Max({newest, given}))
    /\ UNCHANGED <<wf, tx, run, commits, crashes>>

Above(S, created, t) == {w \in S : created[w] > t}

\* A batch ends at the BatchSize-th eligible row above the watermark; when
\* there are fewer, what remains is deleted, wherever it is.
FindBatch(S, created, pc, batch, rest) ==
    LET above == Above(S, created, op.mark)
    IN  /\ op.pc = pc
        /\ op' = IF Cardinality(above) < BatchSize
                 THEN [op EXCEPT !.pc = rest]
                 ELSE [op EXCEPT !.pc = batch, !.step = KthOldest(above, created, BatchSize)]
        /\ UNCHANGED <<wf, tx, run, commits, want, crashes>>

Find == FindBatch(Eligible(op.cutoff), Created, "find", "delete batch", "delete rest")

Remove(S) ==
    /\ wf' = [w \in Workflows |-> IF w \in S THEN [status |-> "gone", created |-> 0] ELSE wf[w]]
    /\ want' = want \ S
    /\ UNCHANGED <<tx, run, commits, crashes>>

\* Mutant: the mark of the batch does not move.
DeleteKeepingMark ==
    /\ op.pc = "delete batch"
    /\ Remove({w \in Above(Eligible(op.cutoff), Created, op.mark) : wf[w].created <= op.step})
    /\ op' = [op EXCEPT !.pc = "find"]

DeleteBatch ==
    /\ op.pc = "delete batch"
    /\ Remove({w \in Above(Eligible(op.cutoff), Created, op.mark) : wf[w].created <= op.step})
    /\ op' = [op EXCEPT !.pc = "find", !.mark = op.step]

DeleteRest ==
    /\ op.pc = "delete rest"
    /\ Remove(Eligible(op.cutoff))
    /\ op' = [op EXCEPT !.pc = "list"]

\* Mutant: the outputs of live workflows only are kept.
ListLive ==
    /\ op.pc = "list"
    /\ op' = [op EXCEPT !.ids = Old(op.cutoff) \cap Active, !.mark = 0,
                        !.pc = IF BatchSize = None THEN "app rest" ELSE "app find"]
    /\ UNCHANGED <<wf, tx, run, commits, want, crashes>>

\* The workflows that remain though they are old keep their outputs.
ListRemaining ==
    /\ op.pc = "list"
    /\ op' = [op EXCEPT !.ids = Old(op.cutoff), !.mark = 0,
                        !.pc = IF BatchSize = None THEN "app rest" ELSE "app find"]
    /\ UNCHANGED <<wf, tx, run, commits, want, crashes>>

Forget(S, pc) ==
    /\ tx' = [w \in Workflows |-> IF w \in S THEN 0 ELSE tx[w]]
    /\ op' = [op EXCEPT !.pc = pc, !.mark = IF op.pc = "app batch" THEN op.step ELSE @]
    /\ UNCHANGED <<wf, run, commits, want, crashes>>

AppEligible == {w \in Workflows : tx[w] # 0 /\ tx[w] < op.cutoff /\ w \notin op.ids}

AppFind == FindBatch(AppEligible, tx, "app find", "app batch", "app rest")

AppDeleteBatch ==
    /\ op.pc = "app batch"
    /\ Forget({w \in Above(AppEligible, tx, op.mark) : tx[w] <= op.step}, "app find")

AppDeleteRest ==
    /\ op.pc = "app rest"
    /\ Forget(AppEligible, "done")

-----------------------------------------------------------------------------
(***************************************************************************)
(* delete_workflow and global_timeout.                                     *)
(***************************************************************************)
\* What is to be deleted with w: the rows that descend from it.
Descendants(w) ==
    LET started == [u, v \in Workflows |-> {u, v} \subseteq Rows /\ Parent[v] = u]
    IN  {v \in Workflows : TransitiveClosure(started, Workflows)[w, v]}

Delete(w, children) ==
    /\ op.pc = "idle" /\ "delete" \in Operations
    /\ w \in Rows
    /\ op' = [op EXCEPT !.pc = IF children THEN "children" ELSE "remove",
                        !.ids = {w}, !.frontier = {w}]
    /\ want' = IF children THEN {w} \cup Descendants(w) ELSE {w}
    /\ UNCHANGED <<wf, tx, run, commits, crashes>>

\* One level of descendants, in a transaction of its own.
Children ==
    LET found == {v \in Rows : Parent[v] \in op.frontier} \ op.ids
    IN  /\ op.pc = "children"
        /\ op' = [op EXCEPT !.pc = IF found = {} THEN "remove" ELSE @,
                            !.ids = @ \cup found, !.frontier = found]
        /\ UNCHANGED <<wf, tx, run, commits, want, crashes>>

RemoveAll ==
    /\ op.pc = "remove"
    /\ Remove(op.ids \cap Rows)
    /\ op' = [op EXCEPT !.pc = "forget"]

ForgetAll ==
    /\ op.pc = "forget"
    /\ Forget(op.ids, "done")

\* The workflows to cancel are listed first.
Timeout(c) ==
    LET old == {w \in Active : wf[w].created <= c}
    IN  /\ op.pc = "idle" /\ "timeout" \in Operations
        /\ op' = [op EXCEPT !.pc = IF old = {} THEN "done" ELSE "cancel", !.ids = old]
        /\ want' = old
        /\ UNCHANGED <<wf, tx, run, commits, crashes>>

CancelOld(w, ids) ==
    /\ op.pc = "cancel" /\ w \in op.ids
    /\ wf' = [v \in Workflows |-> IF v \in ids THEN [wf[v] EXCEPT !.status = "CANCELLED"] ELSE wf[v]]
    /\ want' = want \ {w}
    /\ op' = [op EXCEPT !.ids = @ \ {w}, !.pc = IF op.ids = {w} THEN "done" ELSE @]
    /\ UNCHANGED <<tx, run, commits, crashes>>

\* Each is cancelled in its turn, unless it is complete by then.
CancelListed(w) == CancelOld(w, {v \in {w} \cap Rows : wf[v].status # "SUCCESS"})

Return ==
    /\ op.pc = "done"
    /\ op' = Idle /\ want' = {}
    /\ UNCHANGED <<wf, tx, run, commits, crashes>>

\* The process dies in the middle of the operation.
CrashOperation ==
    /\ crashes < MaxCrashes /\ op.pc # "idle"
    /\ crashes' = crashes + 1
    /\ op' = Idle /\ want' = {}
    /\ UNCHANGED <<wf, tx, run, commits>>

-----------------------------------------------------------------------------
Operation ==
    \/ Threshold \/ Find \/ DeleteBatch \/ DeleteRest \/ ListRemaining
    \/ AppFind \/ AppDeleteBatch \/ AppDeleteRest
    \/ Children \/ RemoveAll \/ ForgetAll
    \/ \E w \in Workflows : CancelListed(w)
    \/ Return

Next ==
    \/ \E w \in Workflows :
          \/ Begin(w) \/ Dequeue(w) \/ Transact(w) \/ RecordStep(w) \/ Finish(w)
          \/ Cancel(w) \/ Resume(w) \/ CrashExecution(w)
    \/ \E c \in Cutoffs \cup {None}, k \in Thresholds \cup {None} : Collect(c, k)
    \/ \E w \in Workflows, b \in BOOLEAN : Delete(w, b)
    \/ \E c \in Cutoffs : Timeout(c)
    \/ Operation
    \/ CrashOperation

Spec == Init /\ [][Next]_vars

-----------------------------------------------------------------------------
(***************************************************************************)
(* Properties.                                                             *)
(***************************************************************************)
TypeOK ==
    /\ wf \in [Workflows -> [status : Live \cup Complete \cup {"none", "gone"}, created : 0..Now]]
    /\ tx \in [Workflows -> 0..Now]
    /\ run \in [Workflows -> {"tx", "record", "done"}]
    /\ commits \in [Workflows -> Nat]
    /\ op.pc \in {"idle", "threshold", "find", "delete batch", "delete rest", "list",
                  "app find", "app batch", "app rest",
                  "children", "remove", "forget", "cancel", "done"}
    /\ op.ids \subseteq Workflows /\ op.frontier \subseteq op.ids \cup Workflows
    /\ op.mark \in 0..Now /\ want \subseteq Workflows
    /\ crashes \in 0..MaxCrashes

\* An operation that returns has done its work: what was old and complete
\* when garbage_collect began, the descendants delete_workflow was given,
\* and the workflows global_timeout found, unless they changed meanwhile.
WorkDone == op.pc = "done" => want = {}

\* A workflow that remains keeps the output of its transaction
\* (garbage_collect passes the workflows that remain to the application
\* database).
OutputsKept == \A w \in Rows : commits[w] > 0 => tx[w] # 0

\* When garbage_collect returns, no output from before the cutoff is left of
\* a workflow that is gone, even of one that an earlier call that died
\* removed.
NoOrphans ==
    op.pc = "done" /\ op.cutoff # None =>
        \A w \in Workflows : tx[w] # 0 /\ tx[w] < op.cutoff => w \in Rows

\* The transaction of a workflow is applied once, however often the
\* workflow is recovered, whatever is cleaned up meanwhile.
AppliedOnce == \A w \in Workflows : commits[w] <= 1

\* garbage_collect removes only complete workflows, and with rows_threshold
\* alone none of that many newest ones.
RemovesOnlyOld ==
    op.pc \in {"delete batch", "delete rest"} =>
       \A w \in Rows \ Rows' :
          /\ wf[w].status \in Complete
          /\ op.keep # None =>
                \/ Cardinality({v \in Rows : wf[v].created > wf[w].created}) >= op.keep
                \/ \E c \in Cutoffs : c = op.cutoff /\ wf[w].created < c

\* A workflow that succeeded stays so: global_timeout does not cancel one
\* that finished after it was listed.
SuccessKept ==
    \A w \in Workflows : wf[w].status = "SUCCESS" =>
       wf'[w].status \in {"SUCCESS", "gone"}

InProgress == op.pc # "idle"
=============================================================================

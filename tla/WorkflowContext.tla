--------------------------- MODULE WorkflowContext ---------------------------
(***************************************************************************)
(* The context of workflow code (_context.py): which workflow, step and    *)
(* function ID the code that runs belongs to, and the options the with     *)
(* blocks around it have set. The context is an object; a context variable *)
(* holds the one of each thread and asyncio task, and a task that is       *)
(* created inherits the OBJECT of its creator, so that the tasks of a      *)
(* workflow share it. A step and a workflow run in an object of their own. *)
(*                                                                         *)
(* User code is any nesting of with blocks, calls of workflows, steps and  *)
(* transactions, and tasks that a workflow creates and awaits. An          *)
(* exception leaves a block the way its end does.                          *)
(***************************************************************************)
EXTENDS Integers, Sequences, FiniteSets, FiniteSetsExt, Bags, TLC

CONSTANTS
    Main,           \* the thread the program begins in
    Siblings,       \* asyncio tasks a workflow may create
    Pool,           \* threads of the executor
    Ops,            \* the operations of the program
    Blocks,         \* with blocks: [kind, given, v]
    Ids,            \* workflow IDs given to SetWorkflowID, each of them once
    Users,          \* for DBOSContextSetAuth and DBOSAssumeRole
    Histories,      \* checkpoints of an earlier execution: sets of <<workflow, position, name>>
    MaxDepth,       \* bound on the nesting of a task
    MaxContexts,    \* bound on the objects in use
    MaxRows,        \* bound on the workflows that are started
    MaxTaken,       \* bound on the function IDs
    None

Tasks == {Main} \cup Siblings \cup Pool

ContextAssumption ==
    /\ Main \notin Siblings \cup Pool /\ Siblings \cap Pool = {}
    /\ MaxDepth \in Nat /\ MaxContexts \in Nat \ {0} /\ MaxRows \in Nat /\ MaxTaken \in Nat

VARIABLES
    heap,       \* the context objects
    local,      \* the object of each task, 0 for none
    stack,      \* the blocks each task is in
    pend,       \* what a task that has been created is to run: [kind, ctx]
    probe,      \* patch_async: what it read before it was suspended
    started,       \* the workflows started so far
    taken,      \* the bag of the function IDs reserved: <<workflow, position>>
    marks,      \* operation_outputs: <<workflow, position, name>>
    free        \* the workflow IDs that have not been set yet

vars == <<heap, local, stack, pend, probe, started, taken, marks, free>>

\* DBOSContext. What SetEnqueueOptions and its like set is kept in opts; cap is
\* debounce_deadline_epoch_ms. An ID is a sequence: a child's is its parent's
\* followed by the function ID.
Options == {"timeout", "deadline", "dedup", "priority", "version", "key", "delay",
            "cap", "debounced", "attributes"}
Fresh == [next |-> None, wf |-> None, fid |-> -1, step |-> -1, tx |-> FALSE,
          parent |-> None, pfid |-> -1, user |-> None, role |-> None,
          opts |-> [o \in Options |-> None]]

IsWithinWorkflow(c) == c.wf # None
IsWorkflow(c) == c.wf # None /\ c.step < 0 /\ ~c.tx

Slots == 1..MaxContexts
FreeSlots == {i \in Slots : heap[i] = None}
Slot == Min(FreeSlots)
Ctx(t) == heap[local[t]]

Init ==
    /\ heap = [i \in Slots |-> None]
    /\ local = [t \in Tasks |-> 0]
    /\ stack = [t \in Tasks |-> <<>>]
    /\ pend = [t \in Tasks |-> None]
    /\ probe = [t \in Tasks |-> None]
    /\ started = <<>>
    /\ taken = EmptyBag
    /\ marks \in Histories
    /\ free = Ids

\* A task runs user code: not one that is suspended, or that does not exist.
Runs(t) ==
    /\ probe[t] = None /\ pend[t] = None
    /\ t = Main \/ local[t] # 0
Nests(t) == Runs(t) /\ Len(stack[t]) < MaxDepth

Top(t) == stack[t][Len(stack[t])]
Ends(t, kind) == Runs(t) /\ stack[t] # <<>> /\ Top(t).kind = kind

\* A frame keeps what its block saved. was and sets are for the properties.
Frame(t, kind, ctx, saved, sets) ==
    [kind |-> kind, ctx |-> ctx, prev |-> local[t], saved |-> saved, sets |-> sets,
     was |-> IF local[t] = 0 THEN None ELSE Ctx(t)]
Push(t, f) == stack' = [stack EXCEPT ![t] = Append(@, f)]
Pop(t) == stack' = [stack EXCEPT ![t] = SubSeq(@, 1, Len(@) - 1)]

\* The checkpoint of a position, which the first to finish writes. Code that
\* finds another operation there fails, as WorkflowExecution has it.
Checkpoint(w, n) == {m \in marks : m[1] = w /\ m[2] = n}
Fits(c, name) == \A m \in Checkpoint(c.wf, c.fid + 1) : m[3] = name
Record(w, n, name) == IF Checkpoint(w, n) = {} THEN marks \cup {<<w, n, name>>} ELSE marks

-----------------------------------------------------------------------------
(* Blocks that set something in the context they find, or in a new one.    *)

Ensured(t) == IF local[t] = 0 THEN Slot ELSE local[t]
Found(t) == IF local[t] = 0 THEN Fresh ELSE Ctx(t)

Enter(t, kind, ctx, saved, sets) ==
    /\ Nests(t) /\ (local[t] # 0 \/ FreeSlots # {})
    /\ heap' = [heap EXCEPT ![Ensured(t)] = ctx]
    /\ local' = [local EXCEPT ![t] = Ensured(t)]
    /\ Push(t, Frame(t, kind, Ensured(t), saved, sets))
    /\ UNCHANGED <<pend, probe, started, taken, marks>>

\* The context is dropped by the block that created it.
Leave(t, ctx) ==
    /\ heap' = [heap EXCEPT ![local[t]] = IF Top(t).prev = 0 THEN None ELSE ctx]
    /\ local' = [local EXCEPT ![t] = Top(t).prev]
    /\ Pop(t)
    /\ UNCHANGED <<pend, probe, started, taken, marks, free>>

\* SetWorkflowTimeout, SetWorkflowAttributes, SetEnqueueOptions and
\* SetWorkflowDebounce: the options they set, some of them to None.
TimeoutOptions(b) == ("timeout" :> b.v) @@ ("deadline" :> None)
AttributeOptions(b) == "attributes" :> b.v
EnqueueOptions(b) ==
    [o \in {"dedup", "priority", "version", "key", "delay"} |-> IF o \in b.given THEN b.v ELSE None]
DebounceOptions(b) ==
    [o \in {"dedup", "delay", "cap", "debounced"} |-> b.v] @@ ("deadline" :> None)

Sets(b) ==
    CASE b.kind = "timeout" -> TimeoutOptions(b)
      [] b.kind = "attributes" -> AttributeOptions(b)
      [] b.kind = "enqueue" -> EnqueueOptions(b)
      [] b.kind = "debounce" -> DebounceOptions(b)

EnterSet(t) ==
    \E b \in Blocks :
        LET c == Found(t)
            s == Sets(b)
        IN  /\ "set" \in Ops
            /\ Enter(t, "set", [c EXCEPT !.opts = s @@ @], [o \in DOMAIN s |-> c.opts[o]], s)
            /\ UNCHANGED free

\* Mutant: the block sets back only what it had set to a value.
ExitSetSome(t) ==
    LET s == Top(t).saved
        kept == [o \in {x \in DOMAIN s : Top(t).sets[x] # None} |-> s[o]]
    IN  Ends(t, "set") /\ Leave(t, [Ctx(t) EXCEPT !.opts = kept @@ @])
ExitSet(t) == Ends(t, "set") /\ Leave(t, [Ctx(t) EXCEPT !.opts = Top(t).saved @@ @])

\* SetWorkflowID does not take back an ID that no workflow was started with.
EnterId(t) ==
    \E id \in free :
        /\ "id" \in Ops
        /\ Enter(t, "id", [Found(t) EXCEPT !.next = <<id>>], None, None)
        /\ free' = free \ {id}

ExitId(t) == Ends(t, "id") /\ Leave(t, Ctx(t))

EnterAuth(t) ==
    \E u \in Users :
        /\ "auth" \in Ops
        /\ Enter(t, "auth", [Found(t) EXCEPT !.user = u], Found(t).user, u)
        /\ UNCHANGED free

ExitAuth(t) == Ends(t, "auth") /\ Leave(t, [Ctx(t) EXCEPT !.user = Top(t).saved])

\* DBOSAssumeRole, after check_required_roles: the user has the role.
EnterRole(t) ==
    /\ "role" \in Ops /\ local[t] # 0 /\ Found(t).user # None
    /\ Enter(t, "role", [Found(t) EXCEPT !.role = Found(t).user], Found(t).role, Found(t).user)
    /\ UNCHANGED free

ExitRole(t) == Ends(t, "role") /\ Leave(t, [Ctx(t) EXCEPT !.role = Top(t).saved])

\* EnterDBOSHandler and DBOSContextEnsure.
EnterHandler(t) ==
    /\ "handler" \in Ops /\ local[t] = 0
    /\ Enter(t, "handler", Fresh, None, None)
    /\ UNCHANGED free

ExitHandler(t) == Ends(t, "handler") /\ Leave(t, Ctx(t))

-----------------------------------------------------------------------------
(* Starting workflows.                                                     *)

\* create_child.
CreateChild(c, forWorkflow) ==
    [Fresh EXCEPT !.next = IF forWorkflow THEN c.next ELSE None,
                  !.opts["attributes"] = IF forWorkflow THEN c.opts["attributes"] ELSE None,
                  !.parent = c.wf, !.pfid = c.fid, !.user = c.user, !.role = c.role]

\* create_start_workflow_child: a workflow takes a function ID for its child,
\* which names it unless SetWorkflowID did. The ID is consumed.
Numbered(c) ==
    IF ~IsWithinWorkflow(c) THEN c
    ELSE [c EXCEPT !.fid = @ + 1, !.next = IF @ = None THEN Append(c.wf, c.fid + 1) ELSE @]
StartCaller(c) == [Numbered(c) EXCEPT !.next = None]
Generated == <<"uuid", Len(started)>>
StartChild(c) ==
    LET ch == CreateChild(Numbered(c), TRUE)
    IN  [ch EXCEPT !.next = IF @ = None THEN Generated ELSE @]

\* _get_timeout_deadline, and the row that _init_workflow writes. Only a
\* workflow that is started or enqueued takes the options of queues.
DeadlineOf(c, kind) ==
    IF c.opts["timeout"] = None THEN c.opts["deadline"]
    ELSE IF kind = "enqueue" THEN None ELSE <<"after", c.opts["timeout"]>>
Row(t, kind, c, ch) ==
    [by |-> t, kind |-> kind, id |-> ch.next, parent |-> ch.parent, pfid |-> ch.pfid,
     user |-> ch.user, role |-> ch.role,
     opts |-> [o \in Options |->
         CASE o = "deadline" -> DeadlineOf(c, kind)
           [] o = "timeout" -> c.opts[o]
           [] o = "attributes" -> ch.opts[o]
           [] OTHER -> IF kind = "call" THEN None ELSE c.opts[o]]]

\* _init_workflow consumes the attributes, and keeps the deadline.
Initialized(ch, r) ==
    [ch EXCEPT !.opts["attributes"] = None, !.opts["deadline"] = r.opts["deadline"]]

\* EnterDBOSWorkflow and start_workflow.
Entered(ch) ==
    [ch EXCEPT !.wf = ch.next, !.next = None, !.fid = 0,
               !.opts["timeout"] = None, !.opts["dedup"] = None, !.opts["priority"] = None]

Starts(t) ==
    /\ Nests(t) /\ Len(started) < MaxRows
    /\ IsWithinWorkflow(Found(t)) => IsWorkflow(Found(t)) /\ Fits(Found(t), "child")
RecordChild(c) == marks' = IF IsWithinWorkflow(c) THEN Record(c.wf, c.fid + 1, "child") ELSE marks
Positions(c, n) ==
    IF IsWithinWorkflow(c) THEN {<<c.wf, c.fid + i>> : i \in 1..n} ELSE {}
Takes(ps) == taken' = taken (+) SetToBag(ps) /\ BagCardinality(taken') <= MaxTaken

\* The caller keeps the object it has, if it has one.
Caller(t, c) == IF local[t] = 0 THEN heap ELSE [heap EXCEPT ![local[t]] = c]

\* The wrapper of a workflow: the child runs in the caller's thread. A parent
\* takes a second function ID for the result.
CallWorkflow(t) ==
    LET c == Found(t)
        ch == StartChild(c)
        r == Row(t, "call", c, ch)
        after == IF IsWithinWorkflow(c) THEN [StartCaller(c) EXCEPT !.fid = @ + 1] ELSE StartCaller(c)
    IN  /\ "call" \in Ops /\ Starts(t) /\ FreeSlots # {}
        /\ heap' = [Caller(t, after) EXCEPT ![Slot] = Initialized(Entered(ch), r)]
        /\ local' = [local EXCEPT ![t] = Slot]
        /\ Push(t, Frame(t, "workflow", Slot, [wf |-> after.wf, fid |-> after.fid], None))
        /\ started' = Append(started, r)
        /\ RecordChild(c)
        /\ Takes(Positions(c, 2))
        /\ UNCHANGED <<pend, probe, free>>

\* start_workflow hands the child to a thread of the executor, enqueue leaves
\* it to another process.
StartWorkflow(t) ==
    LET c == Found(t)
        ch == StartChild(c)
    IN  /\ "start" \in Ops /\ Starts(t)
        /\ \/ \E u \in Pool :
                 LET r == Row(t, "start", c, ch)
                 IN  /\ local[u] = 0 /\ pend[u] = None /\ FreeSlots # {}
                     /\ heap' = [Caller(t, StartCaller(c)) EXCEPT ![Slot] = Initialized(ch, r)]
                     /\ pend' = [pend EXCEPT ![u] = [kind |-> "workflow", ctx |-> Slot]]
                     /\ started' = Append(started, r)
           \/ /\ heap' = Caller(t, StartCaller(c))
              /\ started' = Append(started, Row(t, "enqueue", c, ch))
              /\ UNCHANGED pend
        /\ RecordChild(c)
        /\ Takes(Positions(c, 1))
        /\ UNCHANGED <<local, stack, probe, free>>

\* _execute_workflow_wthread: the thread has no context of its own.
ExecuteWorkflow(t) ==
    /\ t \in Pool /\ pend[t] # None
    /\ heap' = [heap EXCEPT ![pend[t].ctx] = Entered(@)]
    /\ local' = [local EXCEPT ![t] = pend[t].ctx]
    /\ Push(t, Frame(t, "workflow", pend[t].ctx, [wf |-> None, fid |-> -1], None))
    /\ pend' = [pend EXCEPT ![t] = None]
    /\ UNCHANGED <<probe, started, taken, marks, free>>

Inherits(u, i) == local[u] = i \/ \E k \in DOMAIN stack[u] : stack[u][k].prev = i

\* A workflow ends when the tasks it has created have; its object is garbage.
\* Its caller records the result (record_get_result).
ExitWorkflow(t) ==
    /\ Ends(t, "workflow")
    /\ \A u \in Siblings : ~Inherits(u, local[t])
    /\ heap' = [heap EXCEPT ![local[t]] = None]
    /\ local' = [local EXCEPT ![t] = Top(t).prev]
    /\ marks' = IF Top(t).saved.wf = None THEN marks
                ELSE Record(Top(t).saved.wf, Top(t).saved.fid, "getResult")
    /\ Pop(t)
    /\ UNCHANGED <<pend, probe, started, taken, free>>

-----------------------------------------------------------------------------
(* Steps and transactions of a workflow.                                   *)

\* snapshot_step_ctx; what sleeps takes a second function ID.
Snapshot(c) ==
    [CreateChild(c, FALSE) EXCEPT !.wf = c.wf, !.opts = c.opts, !.fid = c.fid + 1]

Snapshots(t, n) ==
    /\ IsWorkflow(Found(t)) /\ FreeSlots # {} /\ Fits(Found(t), "step")
    /\ Takes(Positions(Ctx(t), n))

\* EnterDBOSStepCtx: the step of a thread, or of a coroutine that is awaited.
EnterStep(t, n) ==
    /\ Nests(t) /\ Snapshots(t, n)
    /\ LET s == Snapshot(Ctx(t))
       IN  heap' = [heap EXCEPT ![local[t]].fid = @ + n, ![Slot] = [s EXCEPT !.step = s.fid]]
    /\ local' = [local EXCEPT ![t] = Slot]
    /\ Push(t, Frame(t, "step", Slot, None, None))
    /\ UNCHANGED <<pend, probe, started, marks, free>>

CallStep(t) == ("step" \in Ops /\ EnterStep(t, 1)) \/ ("recv" \in Ops /\ EnterStep(t, 2))

\* A step that is not called from a workflow runs as a plain function.
CallPlain(t) ==
    /\ "plain" \in Ops /\ Nests(t)
    /\ IsWithinWorkflow(Found(t)) /\ ~IsWorkflow(Found(t))
    /\ Push(t, Frame(t, "plain", local[t], None, None))
    /\ UNCHANGED <<heap, local, pend, probe, started, taken, marks, free>>

ExitPlain(t) ==
    /\ Ends(t, "plain")
    /\ Pop(t)
    /\ UNCHANGED <<heap, local, pend, probe, started, taken, marks, free>>

\* The outcome is recorded before the step's context is left.
ExitStep(t) ==
    /\ Ends(t, "step")
    /\ marks' = Record(Ctx(t).wf, Ctx(t).step, "step")
    /\ heap' = [heap EXCEPT ![local[t]] = None]
    /\ local' = [local EXCEPT ![t] = Top(t).prev]
    /\ Pop(t)
    /\ UNCHANGED <<pend, probe, started, taken, free>>

\* EnterDBOSTransaction marks the object of the workflow itself.
EnterTransaction(t) ==
    /\ "tx" \in Ops /\ Nests(t) /\ IsWorkflow(Found(t)) /\ Fits(Found(t), "tx")
    /\ heap' = [heap EXCEPT ![local[t]].fid = @ + 1, ![local[t]].tx = TRUE]
    /\ Takes(Positions(Ctx(t), 1))
    /\ Push(t, Frame(t, "tx", local[t], Ctx(t).fid + 1, None))
    /\ UNCHANGED <<local, pend, probe, started, marks, free>>

ExitTransaction(t) ==
    /\ Ends(t, "tx")
    /\ heap' = [heap EXCEPT ![local[t]].tx = FALSE]
    /\ marks' = Record(Ctx(t).wf, Top(t).saved, "tx")
    /\ Pop(t)
    /\ UNCHANGED <<local, pend, probe, started, taken, free>>

-----------------------------------------------------------------------------
(* Tasks of an asynchronous workflow.                                      *)

Idle(u) == local[u] = 0 /\ pend[u] = None

\* create_task: the task inherits the context.
CreateTask(t) ==
    \E u \in Siblings :
        /\ Runs(t) /\ IsWorkflow(Found(t)) /\ Idle(u)
        /\ local' = [local EXCEPT ![u] = local[t]]
        /\ UNCHANGED <<heap, stack, pend, probe, started, taken, marks, free>>

\* gather of steps: each takes its function ID when it is called, and runs
\* later.
CallStepAsync(t) ==
    \E u \in Siblings :
        /\ "step" \in Ops /\ Runs(t) /\ Idle(u) /\ Snapshots(t, 1)
        /\ heap' = [heap EXCEPT ![local[t]].fid = @ + 1, ![Slot] = Snapshot(Ctx(t))]
        /\ local' = [local EXCEPT ![u] = local[t]]
        /\ pend' = [pend EXCEPT ![u] = [kind |-> "step", ctx |-> Slot]]
        /\ UNCHANGED <<stack, probe, started, marks, free>>

BeginStepAsync(t) ==
    /\ t \in Siblings /\ pend[t] # None /\ IsWorkflow(Ctx(t))
    /\ heap' = [heap EXCEPT ![pend[t].ctx].step = heap[pend[t].ctx].fid]
    /\ local' = [local EXCEPT ![t] = pend[t].ctx]
    /\ Push(t, Frame(t, "step", pend[t].ctx, None, None))
    /\ pend' = [pend EXCEPT ![t] = None]
    /\ UNCHANGED <<probe, started, taken, marks, free>>

EndTask(t) ==
    /\ t \in Siblings /\ local[t] # 0 /\ Runs(t) /\ stack[t] = <<>>
    /\ local' = [local EXCEPT ![t] = 0]
    /\ UNCHANGED <<heap, stack, pend, probe, started, taken, marks, free>>

-----------------------------------------------------------------------------
(* Patches.                                                                *)

\* DBOS.patch: the marker takes the next position, unless something else is
\* recorded there. DBOS.deprecate_patch takes the position of a marker and
\* writes none.
Patch(t) ==
    LET c == Found(t)
    IN  /\ "patch" \in Ops /\ Runs(t) /\ IsWorkflow(c) /\ Fits(c, "patch")
        /\ marks' = Record(c.wf, c.fid + 1, "patch")
        /\ Takes(Positions(c, 1))
        /\ heap' = [heap EXCEPT ![local[t]].fid = @ + 1]
        /\ UNCHANGED <<local, stack, pend, probe, started, free>>

DeprecatePatch(t) ==
    LET c == Found(t)
    IN  /\ "patch" \in Ops /\ Runs(t) /\ IsWorkflow(c) /\ Fits(c, "patch")
        /\ Checkpoint(c.wf, c.fid + 1) # {}
        /\ Takes(Positions(c, 1))
        /\ heap' = [heap EXCEPT ![local[t]].fid = @ + 1]
        /\ UNCHANGED <<local, stack, pend, probe, started, marks, free>>

\* patch_async and deprecate_patch_async read the checkpoint in a thread;
\* marks: whether a marker is to be written.
Probe(t, patches) ==
    LET c == Found(t)
    IN  /\ "probe" \in Ops /\ Runs(t) /\ IsWorkflow(c) /\ BagCardinality(taken) < MaxTaken
        /\ probe' = [probe EXCEPT ![t] =
               [stage |-> "probed", marks |-> patches, fid |-> c.fid,
                names |-> {m[3] : m \in Checkpoint(c.wf, c.fid + 1)}]]
        /\ UNCHANGED <<heap, local, stack, pend, started, taken, marks, free>>

ProbePatch(t) == Probe(t, TRUE)
ProbeDeprecated(t) == Probe(t, FALSE)

\* Mutant: positions taken meanwhile go unnoticed.
NeverInterleaved(t) == FALSE

\* Back on the event loop: has another task taken a position meanwhile?
Interleaved(t) == Ctx(t).fid # probe[t].fid

Probed(t) == probe[t] # None /\ probe[t].stage = "probed"
IsMarker(t) == "patch" \in probe[t].names
Writes(t) == probe[t].marks /\ probe[t].names = {}

\* It has, and DBOSPatchNondeterminismError is raised; or the execution has no
\* marker here, and is not to have one.
LeavePatch(t) ==
    /\ Probed(t) /\ (Interleaved(t) \/ ~(IsMarker(t) \/ Writes(t)))
    /\ probe' = [probe EXCEPT ![t] = None]
    /\ UNCHANGED <<heap, local, stack, pend, started, taken, marks, free>>

\* It has not, and the position that was read is taken; in a new execution the
\* marker is written from a thread.
ReservePatch(t) ==
    /\ Probed(t) /\ ~Interleaved(t) /\ (IsMarker(t) \/ Writes(t))
    /\ heap' = [heap EXCEPT ![local[t]].fid = @ + 1]
    /\ Takes({<<Ctx(t).wf, probe[t].fid + 1>>})
    /\ probe' = [probe EXCEPT ![t] = IF Writes(t) THEN [@ EXCEPT !.stage = "marking"] ELSE None]
    /\ UNCHANGED <<local, stack, pend, started, marks, free>>

Marking(t) == probe[t] # None /\ probe[t].stage = "marking"
MarkPatch(t) ==
    /\ Marking(t)
    /\ marks' = Record(Ctx(t).wf, probe[t].fid + 1, "patch")
    /\ probe' = [probe EXCEPT ![t] = None]
    /\ UNCHANGED <<heap, local, stack, pend, started, taken, free>>

-----------------------------------------------------------------------------
Step(t) ==
    \/ EnterSet(t) \/ ExitSet(t) \/ EnterId(t) \/ ExitId(t) \/ EnterAuth(t) \/ ExitAuth(t)
    \/ EnterRole(t) \/ ExitRole(t) \/ EnterHandler(t) \/ ExitHandler(t)
    \/ CallWorkflow(t) \/ StartWorkflow(t) \/ ExecuteWorkflow(t) \/ ExitWorkflow(t)
    \/ CallStep(t) \/ CallPlain(t) \/ ExitPlain(t) \/ ExitStep(t)
    \/ EnterTransaction(t) \/ ExitTransaction(t)
    \/ CreateTask(t) \/ CallStepAsync(t) \/ BeginStepAsync(t) \/ EndTask(t)
    \/ Patch(t) \/ DeprecatePatch(t)
    \/ ProbePatch(t) \/ ProbeDeprecated(t) \/ LeavePatch(t) \/ ReservePatch(t) \/ MarkPatch(t)

\* The program is over.
Ended ==
    /\ \A t \in Tasks : stack[t] = <<>> /\ local[t] = 0 /\ pend[t] = None
    /\ UNCHANGED vars

Next == (\E t \in Tasks : Step(t)) \/ Ended

Spec == Init /\ [][Next]_vars

-----------------------------------------------------------------------------
\* The objects, frames and workflows have their types.
CtxTypeOK ==
    /\ \A i \in Slots : heap[i] # None =>
          /\ DOMAIN heap[i] = DOMAIN Fresh
          /\ heap[i].fid \in -1..MaxTaken
          /\ heap[i].step \in -1..MaxTaken
          /\ heap[i].tx \in BOOLEAN
    /\ \A t \in Tasks : local[t] # 0 => heap[local[t]] # None
    /\ \A t \in Tasks : pend[t] # None => heap[pend[t].ctx] # None
    /\ free \subseteq Ids

\* Every operation of a workflow has a function ID of its own, and they are
\* consecutive, whichever of its tasks take them in whichever order.
PositionsDistinct ==
    \A p \in DOMAIN taken :
        /\ taken[p] = 1
        /\ \A n \in 1..(p[2] - 1) : <<p[1], n>> \in DOMAIN taken

\* Two workflows are not given the same ID, whether it is set, generated or
\* that of a child.
IdsDistinct == \A i, j \in DOMAIN started : i # j => started[i].id # started[j].id

\* The block a task is in finds the context it left there: what the
\* assertions of the __exit__ methods say.
ExitsFind ==
    \A t \in Tasks : Runs(t) /\ stack[t] # <<>> =>
        LET f == Top(t)
            c == Ctx(t)
        IN  /\ local[t] = f.ctx
            /\ f.kind = "workflow" => IsWithinWorkflow(c)
            /\ f.kind = "step" => c.step >= 0
            /\ f.kind = "tx" => c.tx
            /\ f.kind = "role" => c.role = f.sets

\* A step that runs as a plain function is inside another step, or inside a
\* transaction, of the task that calls it.
StepsRunAsSteps ==
    \A t \in Tasks : \A i \in DOMAIN stack[t] :
        stack[t][i].kind = "plain" =>
            \E j \in 1..(i - 1) : stack[t][j].kind \in {"step", "tx"}

\* The position patch_async has reserved is still without a checkpoint when
\* its marker is written.
MarkerHeld ==
    \A t \in Tasks : Marking(t) => Checkpoint(Ctx(t).wf, probe[t].fid + 1) = {}

\* A block that ends leaves the caller the context the caller had, with the
\* options, user, role, workflow and step it had when the block began.
Restored(c, d) ==
    /\ c.opts = d.opts /\ c.user = d.user /\ c.role = d.role
    /\ c.wf = d.wf /\ c.step = d.step /\ c.tx = d.tx
BlocksRestore ==
    \A t \in Tasks : Len(stack'[t]) < Len(stack[t]) =>
        /\ local'[t] = Top(t).prev
        /\ Top(t).prev # 0 => Restored(heap'[Top(t).prev], Top(t).was)

\* What the blocks around a task say: the innermost one that sets an option,
\* within the workflow the task runs, or what the workflow has been given.
Level(t) ==
    LET ws == {i \in DOMAIN stack[t] : stack[t][i].kind = "workflow"}
    IN  IF ws = {} THEN 0 ELSE Max(ws)
Own(t, what, inner, default) ==
    IF inner # {} THEN LET s == stack[t][Max(inner)].sets IN IF what = None THEN s ELSE s[what]
    ELSE IF Level(t) = 0 THEN None ELSE default
RowOf(t) == started[CHOOSE i \in DOMAIN started : started[i].id = Ctx(t).wf]
Setting(t, kind) == {i \in (Level(t) + 1)..Len(stack[t]) : stack[t][i].kind = kind}
Meant(t, o) ==
    Own(t, o, {i \in Setting(t, "set") : o \in DOMAIN stack[t][i].sets},
        IF o = "deadline" /\ Level(t) # 0 THEN RowOf(t).opts["deadline"] ELSE None)

\* A workflow is started with the options, the user and the role of the
\* blocks around the call, and with nothing a block around its parent's
\* caller has set, but for the deadline, the user and the role, which are
\* inherited.
StartedAsMeant ==
    Len(started') > Len(started) =>
        LET r == started'[Len(started')]
            t == r.by
            timeout == Meant(t, "timeout")
        IN  /\ r.opts["timeout"] = timeout
            /\ r.opts["attributes"] = Meant(t, "attributes")
            /\ r.opts["deadline"] = IF timeout = None THEN Meant(t, "deadline")
                                    ELSE IF r.kind = "enqueue" THEN None ELSE <<"after", timeout>>
            /\ r.kind # "call" =>
                  \A o \in Options \ {"timeout", "deadline", "attributes"} : r.opts[o] = Meant(t, o)
            /\ r.user = Own(t, None, Setting(t, "auth"), IF Level(t) = 0 THEN None ELSE RowOf(t).user)
            /\ r.role = Own(t, None, Setting(t, "role"), IF Level(t) = 0 THEN None ELSE RowOf(t).role)
=============================================================================

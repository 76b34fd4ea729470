-------------------------- MODULE WorkflowTimeouts --------------------------
(***************************************************************************)
(* Timeouts of workflows. A timeout is turned into a deadline when the     *)
(* workflow starts or, if it is enqueued, when it is dequeued. The deadline*)
(* is in the row of the workflow and in the context of its execution, from *)
(* which the workflows it starts inherit it. Every executor that starts or *)
(* enqueues a workflow with a deadline sleeps until then and cancels it.   *)
(* Executors crash and lose what they were about to cancel. All of them    *)
(* and the database read the same clock.                                   *)
(***************************************************************************)
EXTENDS Integers, FiniteSets

CONSTANTS
    Executors, Workflows,
    Parent,         \* the workflow that starts each one, None from outside
    Queued,         \* those that are enqueued
    Blocked,        \* those of them whose queue never has room
    Timeouts,       \* SetWorkflowTimeout around the start of each: a number
                    \* of half milliseconds, None, or Unset outside of it
    MaxCrashes, MaxCancels, MaxResumes,
    None, Unset, Off

TimeoutsAssumption ==
    /\ DOMAIN Parent = Workflows /\ DOMAIN Timeouts = Workflows
    /\ \A w \in Workflows : Parent[w] \in (Workflows \ {w}) \cup {None}
    /\ Blocked \subseteq Queued /\ Queued \subseteq Workflows
    /\ MaxCrashes < Cardinality(Executors) /\ MaxCancels \in Nat /\ MaxResumes \in Nat
    /\ {None, Unset, Off} \cap (Nat \cup Workflows \cup Executors) = {}

VARIABLES
    now,        \* milliseconds
    row,        \* workflow_status
    ctx,        \* the deadline in the context of each execution, Off if
                \* the executor does not execute the workflow
    begin,      \* what each executor dequeued or recovers and is to execute
    timers,     \* the timeout tasks of the executors
    up, crashes, cancels, resumes

vars == <<now, row, ctx, begin, timers, up, crashes, cancels, resumes>>

Absent == [status |-> "none", timeout |-> None, deadline |-> None, exec |-> None, queued |-> FALSE]

Init ==
    /\ now = 0 /\ row = [w \in Workflows |-> Absent]
    /\ ctx = [e \in Executors |-> [w \in Workflows |-> Off]]
    /\ begin = [e \in Executors |-> {}] /\ timers = {}
    /\ up = Executors /\ crashes = 0 /\ cancels = 0 /\ resumes = 0

Active(w) == row[w].status \in {"PENDING", "ENQUEUED"}
Executing(w, e) == ctx[e][w] # Off

-----------------------------------------------------------------------------
(***************************************************************************)
(* What a workflow is started with. SetWorkflowTimeout sets the timeout of *)
(* the context of the caller, in whole milliseconds, and clears its        *)
(* deadline; a timeout of zero counts as none.                             *)
(***************************************************************************)
Millis(t) == t \div 2

\* What executor e's execution of a workflow passes on to those it starts: its
\* deadline, its timeout being taken out of the context when it is entered.
Propagated(w, e) == IF w = None THEN None ELSE ctx[e][w]

\* The context in which w is started by executor e.
CallerContext(w, e) ==
    [timeout  |-> IF Timeouts[w] \in Nat THEN Millis(Timeouts[w]) ELSE None,
     deadline |-> IF Timeouts[w] = Unset THEN Propagated(Parent[w], e) ELSE None]

_get_timeout_deadline(c, queue) ==
    IF c.timeout \notin {None, 0}
    THEN [timeout |-> c.timeout, deadline |-> IF queue THEN None ELSE now + c.timeout]
    ELSE [timeout |-> None, deadline |-> c.deadline]

\* timeout_func is submitted by whoever may execute the workflow.
TimerFor(w, e, deadline) ==
    IF deadline = None THEN {} ELSE {[wf |-> w, exec |-> e, at |-> deadline]}

\* The row of the workflow, the checkpoint of its parent and its execution or
\* place in the queue. (WorkflowTree has them apart.) start_workflow, unlike start_workflow_async, records
\* the timeout of the context even where it counts as none.
Start(w, e, sync) ==
    LET c == CallerContext(w, e)
        t == _get_timeout_deadline(c, w \in Queued)
    IN  /\ e \in up /\ row[w] = Absent
        /\ Parent[w] # None => Executing(Parent[w], e)
        /\ row' = [row EXCEPT ![w] =
                    [status |-> IF w \in Queued THEN "ENQUEUED" ELSE "PENDING",
                     timeout |-> IF sync THEN c.timeout ELSE t.timeout,
                     deadline |-> t.deadline, exec |-> e, queued |-> w \in Queued]]
        /\ timers' = timers \cup TimerFor(w, e, t.deadline)
        /\ ctx' = IF w \in Queued THEN ctx ELSE [ctx EXCEPT ![e][w] = t.deadline]
        /\ UNCHANGED <<now, begin, up, crashes, cancels, resumes>>

\* Mutant: every dequeue sets a new deadline.
RestartsTimeout(w, e) ==
    /\ e \in up /\ w \notin Blocked /\ row[w].status = "ENQUEUED"
    /\ row' = [row EXCEPT ![w] = [@ EXCEPT
                  !.status = "PENDING", !.exec = e,
                  !.deadline = IF row[w].timeout # None THEN now + row[w].timeout ELSE @]]
    /\ begin' = [begin EXCEPT ![e] = @ \cup {w}]
    /\ UNCHANGED <<now, ctx, timers, up, crashes, cancels, resumes>>

Dequeue(w, e) ==
    /\ e \in up /\ w \notin Blocked /\ row[w].status = "ENQUEUED"
    /\ row' = [row EXCEPT ![w] = [@ EXCEPT
                  !.status = "PENDING", !.exec = e,
                  !.deadline = IF row[w].timeout # None /\ @ = None
                               THEN now + row[w].timeout ELSE @]]
    /\ begin' = [begin EXCEPT ![e] = @ \cup {w}]
    /\ UNCHANGED <<now, ctx, timers, up, crashes, cancels, resumes>>

\* Mutant: a recovered execution has no timer.
TimerOfStarterOnly(w, e) ==
    /\ e \in up /\ w \in begin[e]
    /\ begin' = [begin EXCEPT ![e] = @ \ {w}]
    /\ row' = IF row[w].queued THEN row ELSE [row EXCEPT ![w].exec = e]
    /\ ctx' = IF row[w].status = "SUCCESS" \/ Executing(w, e) THEN ctx
              ELSE [ctx EXCEPT ![e][w] = row[w].deadline]
    /\ UNCHANGED <<now, timers, up, crashes, cancels, resumes>>

\* execute_workflow_by_id: the deadline is the one of the row.
Execute(w, e) ==
    /\ e \in up /\ w \in begin[e]
    /\ begin' = [begin EXCEPT ![e] = @ \ {w}]
    /\ row' = IF row[w].queued THEN row ELSE [row EXCEPT ![w].exec = e]
    /\ timers' = timers \cup TimerFor(w, e, row[w].deadline)
    /\ ctx' = IF row[w].status = "SUCCESS" \/ Executing(w, e) THEN ctx
              ELSE [ctx EXCEPT ![e][w] = row[w].deadline]
    /\ UNCHANGED <<now, up, crashes, cancels, resumes>>

\* What was dequeued goes back to its queue, the rest is to be executed.
Recover(d, e) ==
    LET lost == {w \in Workflows : row[w].status = "PENDING" /\ row[w].exec = d}
    IN  /\ d \notin up /\ e \in up /\ lost # {}
        /\ row' = [w \in Workflows |->
                      IF w \in lost /\ row[w].queued THEN [row[w] EXCEPT !.status = "ENQUEUED"]
                      ELSE row[w]]
        /\ begin' = [begin EXCEPT ![e] = @ \cup {w \in lost : ~row[w].queued}]
        /\ UNCHANGED <<now, ctx, timers, up, crashes, cancels, resumes>>

\* The execution ends; a workflow that was cancelled does not complete.
Finish(w, e) ==
    /\ Executing(w, e)
    /\ row' = IF row[w].status = "CANCELLED" THEN row ELSE [row EXCEPT ![w].status = "SUCCESS"]
    /\ ctx' = [ctx EXCEPT ![e][w] = Off]
    /\ UNCHANGED <<now, begin, timers, up, crashes, cancels, resumes>>

-----------------------------------------------------------------------------
(***************************************************************************)
(* Cancellation.                                                           *)
(***************************************************************************)
cancel_workflows(w) ==
    row' = IF row[w].status \in {"none", "SUCCESS"} THEN row
           ELSE [row EXCEPT ![w].status = "CANCELLED", ![w].queued = FALSE]

\* timeout_func.
Fire(t) ==
    /\ now >= t.at
    /\ cancel_workflows(t.wf)
    /\ timers' = timers \ {t}
    /\ UNCHANGED <<now, ctx, begin, up, crashes, cancels, resumes>>

Cancel(w) ==
    /\ cancels < MaxCancels /\ Active(w)
    /\ cancel_workflows(w) /\ cancels' = cancels + 1
    /\ UNCHANGED <<now, ctx, begin, timers, up, crashes, resumes>>

\* On the internal queue, without a deadline.
Resume(w) ==
    /\ resumes < MaxResumes /\ row[w].status = "CANCELLED"
    /\ row' = [row EXCEPT ![w] = [@ EXCEPT !.status = "ENQUEUED", !.queued = TRUE, !.deadline = None]]
    /\ resumes' = resumes + 1
    /\ UNCHANGED <<now, ctx, begin, timers, up, crashes, cancels>>

Crash(e) ==
    /\ e \in up /\ crashes < MaxCrashes
    /\ up' = up \ {e} /\ crashes' = crashes + 1
    /\ ctx' = [ctx EXCEPT ![e] = [w \in Workflows |-> Off]]
    /\ begin' = [begin EXCEPT ![e] = {}]
    /\ timers' = {t \in timers : t.exec # e}
    /\ UNCHANGED <<now, row, cancels, resumes>>

\* Time only matters while a deadline lies ahead.
Tick ==
    /\ \/ \E t \in timers : t.at > now
       \/ \E w \in Workflows : Active(w) /\ row[w].deadline # None /\ row[w].deadline > now
    /\ now' = now + 1
    /\ UNCHANGED <<row, ctx, begin, timers, up, crashes, cancels, resumes>>

\* Nothing is left to start, to execute or to cancel.
Over ==
    /\ \A w \in Workflows : ~Active(w) \/ w \in Blocked
    /\ \A w \in Workflows, e \in Executors : ~Executing(w, e)
    /\ timers = {} /\ UNCHANGED vars

-----------------------------------------------------------------------------
\* A queue gets to a workflow, an event loop to a timeout task of it, and
\* recovery to what a dead executor left.
Queue(w) == \E e \in Executors : Dequeue(w, e)
Timer(w) == \E t \in timers : t.wf = w /\ Fire(t)
Recovery(d) == \E e \in Executors : Recover(d, e)

Next ==
    \/ \E w \in Workflows, e \in Executors :
          \/ \E sync \in BOOLEAN : Start(w, e, sync)
          \/ Execute(w, e) \/ Finish(w, e)
    \/ \E w \in Workflows : Queue(w) \/ Timer(w) \/ Cancel(w) \/ Resume(w)
    \/ \E e \in Executors : Recovery(e) \/ Crash(e)
    \/ Tick \/ Over

Spec == Init /\ [][Next]_vars

-----------------------------------------------------------------------------
(***************************************************************************)
(* Properties.                                                             *)
(***************************************************************************)
TypeOK ==
    /\ now \in Nat /\ up \subseteq Executors
    /\ \A w \in Workflows :
          /\ row[w].status \in {"none", "PENDING", "ENQUEUED", "CANCELLED", "SUCCESS"}
          /\ row[w].timeout \in Nat \cup {None} /\ row[w].deadline \in Nat \cup {None}
          /\ row[w].exec \in Executors \cup {None} /\ row[w].queued \in BOOLEAN
          /\ row[w].status = "ENQUEUED" => row[w].queued
    /\ \A e \in Executors : begin[e] \subseteq {w \in Workflows : row[w] # Absent}
    /\ timers \subseteq [wf : Workflows, exec : up, at : Nat]

\* A workflow that is active and has a deadline.
Expiring(w) == Active(w) /\ row[w].deadline # None

\* timeout_func cancels a workflow only once its deadline has passed.
NotEarly ==
    \A t \in timers \ timers' :
       Active(t.wf) /\ row'[t.wf].status = "CANCELLED" =>
           row[t.wf].deadline # None /\ row[t.wf].deadline <= now

\* However often a workflow is recovered or dequeued again, its deadline stays
\* the one it was given first; only resuming it takes that away.
DeadlineKept ==
    \A w \in Workflows :
       row[w].deadline # None /\ row'[w].deadline # row[w].deadline =>
           row[w].status = "CANCELLED" /\ row'[w].deadline = None

\* A workflow started without a timeout of its own has the deadline of its
\* parent, also by a parent that was dequeued, or recovered elsewhere.
\* SetWorkflowTimeout(None) frees it.
DeadlinePropagates ==
    \A w \in Workflows :
        row[w] # Absent /\ Parent[w] # None =>
            /\ Timeouts[w] = Unset => row[w].deadline = row[Parent[w]].deadline
            /\ Timeouts[w] = None => row[w].deadline = None

\* A workflow that has been given a timeout has a deadline when it executes.
\* ("The deadline of a workflow, computed by adding its timeout to its start
\* time.")
TimeoutSetsDeadline ==
    \A w \in Workflows :
        row[w].status = "PENDING" /\ Timeouts[w] \in Nat => row[w].deadline # None
=============================================================================

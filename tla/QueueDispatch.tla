---------------------------- MODULE QueueDispatch ----------------------------
(***************************************************************************)
(* One queue and the worker threads of several executors that poll it:     *)
(* the dequeue transaction with its snapshot and its row locks, global and *)
(* per-process concurrency, the rate limit, priorities, partitions, delays *)
(* and application versions. What a dispatched workflow does is left to    *)
(* WorkflowExecution: here it runs, finishes or is cancelled.              *)
(***************************************************************************)
EXTENDS Naturals, FiniteSets, Sequences

CONSTANTS
    Executors, Workflows,
    Partition,          \* workflow -> queue_partition_key
    Priority,           \* workflow -> priority, lower first
    WfVersion,          \* workflow -> application_version, or None
    ExecVersion,        \* executor -> its application version
    LatestVersion,      \* the newest row of application_versions
    Delays,             \* delays an enqueue may ask for; 0 is no delay
    Concurrency,        \* global limit, or None
    WorkerConcurrency,  \* limit per process, or None
    Limit, Period,      \* rate limit, or None
    PromptThreads,      \* a dispatched workflow gets a thread before the next poll
    MaxTime,            \* bound: the clock
    MaxCancels,         \* bound: cancel_workflow requests
    MaxCrashes,         \* bound: crashes
    None

Partitions == {Partition[w] : w \in Workflows}

QueueAssumption ==
    /\ Priority \in [Workflows -> Nat]
    /\ DOMAIN Partition = Workflows /\ DOMAIN WfVersion = Workflows
    /\ DOMAIN ExecVersion = Executors
    /\ Delays \subseteq Nat /\ 0 \in Delays
    /\ Concurrency # None => Concurrency \in Nat \ {0}
    /\ WorkerConcurrency # None => WorkerConcurrency \in Nat \ {0}
    /\ Limit # None => Limit \in Nat /\ Period \in Nat \ {0}
    /\ IsFiniteSet(Workflows)
    /\ MaxTime \in Nat /\ MaxCancels \in Nat /\ MaxCrashes \in Nat

VARIABLES
    now,        \* the clock
    wf,         \* workflow -> its row
    tx,         \* executor -> its dequeue transaction
    pool,       \* executor -> dispatched workflows without a thread yet
    running,    \* executor -> this queue's entries of ActiveWorkflowById
    todo,       \* executor -> workflows its startup recovery has listed
    up,         \* live executors
    starts,     \* history: started_at_epoch_ms of every dequeue, in order
    cancels, crashes

vars == <<now, wf, tx, pool, running, todo, up, starts, cancels, crashes>>
locals == <<tx, pool, running, todo, up>>

NoRow == [status |-> "ABSENT", exec |-> None, started |-> None, ver |-> None,
          delay |-> 0, created |-> 0]
NoTx == [pc |-> "idle", part |-> None, snap |-> NoRow, at |-> 0, room |-> 0,
         ids |-> {}]

Init ==
    /\ now = 0
    /\ wf = [w \in Workflows |-> NoRow]
    /\ tx = [e \in Executors |-> NoTx]
    /\ pool = [e \in Executors |-> {}]
    /\ running = [e \in Executors |-> {}]
    /\ todo = [e \in Executors |-> {}]
    /\ up = Executors
    /\ starts = <<>>
    /\ cancels = 0 /\ crashes = 0

InStatus(rows, p, st) ==
    {w \in Workflows : Partition[w] = p /\ rows[w].status \in st}

Locked(w) == \E e \in Executors : w \in tx[e].ids

-----------------------------------------------------------------------------
(* Requests.                                                               *)

\* Queue.enqueue, with a delay or without.
Enqueue(w, d) ==
    /\ wf[w].status = "ABSENT" /\ now + d <= MaxTime
    /\ wf' = [wf EXCEPT ![w] =
                [NoRow EXCEPT !.status = IF d = 0 THEN "ENQUEUED" ELSE "DELAYED",
                              !.delay = now + d, !.ver = WfVersion[w],
                              !.created = 1 + Cardinality({v \in Workflows :
                                                wf[v].status # "ABSENT"})]]
    /\ UNCHANGED <<now, locals, starts, cancels, crashes>>

\* set_workflow_delay.
SetDelay(w, d) ==
    /\ wf[w].status = "DELAYED" /\ now + d <= MaxTime
    /\ wf' = [wf EXCEPT ![w].delay = now + d]
    /\ UNCHANGED <<now, locals, starts, cancels, crashes>>

\* cancel_workflows, which also takes the row out of the queue; it waits for
\* the lock of a row that is being dequeued.
Cancel(w) ==
    /\ cancels < MaxCancels
    /\ wf[w].status \in {"DELAYED", "ENQUEUED", "PENDING"} /\ ~Locked(w)
    /\ wf' = [wf EXCEPT ![w].status = "CANCELLED", ![w].started = None]
    /\ cancels' = cancels + 1
    /\ UNCHANGED <<now, locals, starts, crashes>>

-----------------------------------------------------------------------------
(* The manager thread and the worker thread of an executor.                *)

Due(w) == wf[w].status = "DELAYED" /\ wf[w].delay <= now

\* transition_delayed_workflows.
TransitionDelayed(e) ==
    /\ e \in up
    /\ \E w \in Workflows : Due(w)
    /\ wf' = [w \in Workflows |->
                IF Due(w) THEN [wf[w] EXCEPT !.status = "ENQUEUED"] ELSE wf[w]]
    /\ UNCHANGED <<now, locals, starts, cancels, crashes>>

\* Mutant: only the rate limit asks for REPEATABLE READ.
RepeatableLimiter == Limit # None

\* The transaction is REPEATABLE READ, else READ COMMITTED.
Repeatable == Concurrency # None \/ Limit # None
SkipLocked == Concurrency = None

\* Dequeued by the rate-limited queue within the period before now.
Recent(p) ==
    {w \in InStatus(wf, p, {"PENDING", "SUCCESS"}) : wf[w].started + Period > now}

Minus(a, b) == IF a > b THEN a - b ELSE 0
Lower(a, b) == IF a < b THEN a ELSE b

\* max_tasks.
Room(e, p) ==
    LET all == Cardinality(Workflows)
        local == IF WorkerConcurrency = None THEN all
                 ELSE Minus(WorkerConcurrency,
                            Cardinality({w \in running[e] : Partition[w] = p}))
        global == IF Concurrency = None THEN all
                  ELSE Minus(Concurrency,
                             Cardinality(InStatus(wf, p, {"PENDING"})))
    IN  Lower(local, global)

\* Something is enqueued and the limits leave room for it.
MayDequeue(e, p) ==
    /\ InStatus(wf, p, {"ENQUEUED"}) # {}
    /\ Limit # None => Cardinality(Recent(p)) < Limit
    /\ Room(e, p) > 0

\* start_queued_workflows up to the SELECT of the candidates: the transaction
\* has its snapshot.
Begin(e, p) ==
    /\ e \in up /\ tx[e].pc = "idle"
    /\ PromptThreads => pool[e] = {}
    /\ MayDequeue(e, p)
    /\ tx' = [tx EXCEPT ![e] = [NoTx EXCEPT !.pc = "begun", !.part = p,
                                            !.snap = wf, !.at = now,
                                            !.room = Room(e, p)]]
    /\ UNCHANGED <<now, wf, pool, running, todo, up, starts, cancels, crashes>>

VersionOk(e, r) ==
    \/ r.ver = ExecVersion[e]
    \/ r.ver = None /\ LatestVersion = ExecVersion[e]

Candidates(e, rows) ==
    {w \in InStatus(rows, tx[e].part, {"ENQUEUED"}) : VersionOk(e, rows[w])}

\* ORDER BY priority, created_at.
Before(rows, v, w) ==
    \/ Priority[v] < Priority[w]
    \/ Priority[v] = Priority[w] /\ rows[v].created < rows[w].created

FirstOf(n, S, rows) ==
    {w \in S : Cardinality({v \in S : Before(rows, v, w)}) < n}

Rows(e) == IF Repeatable THEN tx[e].snap ELSE wf

\* Mutant: a plain SELECT.
LockedByNobody(e) == {}

LockedByOthers(e) == UNION {tx[f].ids : f \in Executors \ {e}}

\* The rows the SELECT ... FOR UPDATE returns when no lock stops it.
Chosen(e) ==
    FirstOf(tx[e].room,
            IF SkipLocked THEN Candidates(e, Rows(e)) \ LockedByOthers(e)
                          ELSE Candidates(e, Rows(e)),
            Rows(e))

\* NOWAIT meets a lock, or a row has changed since the snapshot.
CannotLock(e) ==
    \E w \in Chosen(e) : w \in LockedByOthers(e) \/ wf[w] # Rows(e)[w]

\* The SELECT ... FOR UPDATE. A transaction that fails is rolled back and the
\* worker polls again.
LockRows(e) ==
    /\ tx[e].pc = "begun"
    /\ tx' = [tx EXCEPT ![e] =
                IF CannotLock(e) \/ Chosen(e) = {} THEN NoTx
                ELSE [@ EXCEPT !.pc = "locked", !.ids = Chosen(e)]]
    /\ UNCHANGED <<now, wf, pool, running, todo, up, starts, cancels, crashes>>

\* The rows the loop over the candidates starts: it stops at the rate limit.
Taken(e) ==
    LET t == tx[e]
        recent == {w \in InStatus(t.snap, t.part, {"PENDING", "SUCCESS"}) :
                     t.snap[w].started + Period > t.at}
    IN  IF Limit = None THEN t.ids
        ELSE FirstOf(Minus(Limit, Cardinality(recent)), t.ids, t.snap)

\* The updates and the commit; the worker dispatches what it got.
Commit(e) ==
    /\ tx[e].pc = "locked"
    /\ wf' = [w \in Workflows |->
                IF w \in Taken(e)
                  THEN [wf[w] EXCEPT !.status = "PENDING", !.exec = e,
                                     !.started = tx[e].at,
                                     !.ver = ExecVersion[e]]
                  ELSE wf[w]]
    /\ starts' = starts \o [i \in 1..Cardinality(Taken(e)) |-> tx[e].at]
    /\ pool' = [pool EXCEPT ![e] = @ \cup Taken(e)]
    /\ tx' = [tx EXCEPT ![e] = NoTx]
    /\ UNCHANGED <<now, running, todo, up, cancels, crashes>>

-----------------------------------------------------------------------------
(* Threads of the pool, crashes and recovery.                              *)

\* _execute_workflow_wthread: the thread enters ActiveWorkflowById, or polls
\* for the result of the execution that is there.
Start(e, w) ==
    /\ w \in pool[e]
    /\ pool' = [pool EXCEPT ![e] = @ \ {w}]
    /\ running' = [running EXCEPT ![e] = @ \cup {w}]
    /\ UNCHANGED <<now, wf, tx, todo, up, starts, cancels, crashes>>

\* update_workflow_outcome; the entry is still in the map.
Finish(e, w) ==
    /\ w \in running[e]
    /\ wf[w].status = "PENDING"
    /\ wf' = [wf EXCEPT ![w].status = "SUCCESS"]
    /\ UNCHANGED <<now, locals, starts, cancels, crashes>>

\* The execution ends, finished or stopped by the cancellation it has seen.
Release(e, w) ==
    /\ w \in running[e]
    /\ wf[w].status \in {"SUCCESS", "CANCELLED"}
    /\ running' = [running EXCEPT ![e] = @ \ {w}]
    /\ UNCHANGED <<now, wf, tx, pool, todo, up, starts, cancels, crashes>>

\* The process dies; the database rolls its transaction back.
Crash(e) ==
    /\ e \in up /\ crashes < MaxCrashes
    /\ crashes' = crashes + 1
    /\ up' = up \ {e}
    /\ tx' = [tx EXCEPT ![e] = NoTx]
    /\ pool' = [pool EXCEPT ![e] = {}]
    /\ running' = [running EXCEPT ![e] = {}]
    /\ todo' = [todo EXCEPT ![e] = {}]
    /\ UNCHANGED <<now, wf, starts, cancels>>

\* Mutant: nothing is recovered at launch.
RestartForgetful(e) ==
    /\ e \notin up
    /\ up' = up \cup {e}
    /\ UNCHANGED <<now, wf, tx, pool, running, todo, starts, cancels, crashes>>

\* Launch: get_pending_workflows of this executor and version.
Restart(e) ==
    /\ e \notin up
    /\ up' = up \cup {e}
    /\ todo' = [todo EXCEPT ![e] =
                  {w \in Workflows : /\ wf[w].status = "PENDING"
                                     /\ wf[w].exec = e
                                     /\ wf[w].ver = ExecVersion[e]}]
    /\ UNCHANGED <<now, wf, tx, pool, running, starts, cancels, crashes>>

\* _recover_workflow of a queued workflow: clear_queue_assignment.
ReturnToQueue(e, w) ==
    /\ w \in todo[e] /\ ~Locked(w)
    /\ todo' = [todo EXCEPT ![e] = @ \ {w}]
    /\ wf' = IF wf[w].status = "PENDING"
               THEN [wf EXCEPT ![w].status = "ENQUEUED", ![w].started = None]
               ELSE wf
    /\ UNCHANGED <<now, tx, pool, running, up, starts, cancels, crashes>>

Tick ==
    /\ now < MaxTime
    /\ now' = now + 1
    /\ UNCHANGED <<wf, locals, starts, cancels, crashes>>

\* A poll that dequeues nothing.
PollNothing(e) ==
    /\ e \in up /\ tx[e].pc = "idle"
    /\ \A p \in Partitions : ~MayDequeue(e, p)
    /\ UNCHANGED vars

Worker(e) == LockRows(e) \/ Commit(e) \/ \E p \in Partitions : Begin(e, p)

Thread(e, w) ==
    Start(e, w) \/ Finish(e, w) \/ Release(e, w) \/ ReturnToQueue(e, w)

Next ==
    \/ \E w \in Workflows, d \in Delays : Enqueue(w, d) \/ SetDelay(w, d)
    \/ \E w \in Workflows : Cancel(w)
    \/ \E e \in Executors : \/ Worker(e) \/ PollNothing(e) \/ TransitionDelayed(e)
                            \/ Crash(e) \/ Restart(e)
    \/ \E e \in Executors, w \in Workflows : Thread(e, w)
    \/ Tick

Spec == Init /\ [][Next]_vars

-----------------------------------------------------------------------------
(* Properties.                                                             *)

Versions ==
    {WfVersion[w] : w \in Workflows} \cup {ExecVersion[e] : e \in Executors} \cup {None}

WfRecords ==
    [status : {"ABSENT", "DELAYED", "ENQUEUED", "PENDING", "SUCCESS", "CANCELLED"},
     exec : Executors \cup {None}, started : Nat \cup {None},
     ver : Versions, delay : Nat, created : Nat]

\* The shape of the rows, the transactions and the processes.
TypeOK ==
    /\ now \in 0..MaxTime
    /\ wf \in [Workflows -> WfRecords]
    /\ \A e \in Executors :
         /\ tx[e].pc \in {"idle", "begun", "locked"}
         /\ tx[e].ids \subseteq Workflows
         /\ tx[e].pc = "locked" <=> tx[e].ids # {}
         /\ pool[e] \cup running[e] \cup todo[e] \subseteq Workflows
    /\ up \subseteq Executors

\* README.md: "you can limit the concurrency of your tasks on a per-queue or
\* per-process basis". Never more workflows of the queue are PENDING than the
\* global concurrency, whatever the workers' transactions interleave.
ConcurrencyLimit ==
    Concurrency # None =>
      \A p \in Partitions : Cardinality(InStatus(wf, p, {"PENDING"})) <= Concurrency

\* The same, per process: never more workflows of the queue run in a process
\* than its worker concurrency.
WorkerLimit ==
    WorkerConcurrency # None =>
      \A e \in Executors, p \in Partitions :
        Cardinality({w \in running[e] : Partition[w] = p /\ wf[w].status = "PENDING"})
          <= WorkerConcurrency

\* QueueRateLimit: "no more than 5 functions can be started per 10 seconds". No
\* window of the period holds more starts than the limit (unpartitioned queue).
RateLimit ==
    Limit # None =>
      \A i \in DOMAIN starts :
        Cardinality({j \in DOMAIN starts : /\ starts[j] <= starts[i]
                                           /\ starts[j] + Period > starts[i]})
          <= Limit

\* A PENDING workflow is in the hands of the executor its row names and of no
\* other: two workers never dispatch one workflow, by locks or by conflicts.
OneWorker ==
    \A e \in DOMAIN pool, w \in DOMAIN wf :
      w \in pool[e] \cup running[e] /\ wf[w].status = "PENDING" => wf[w].exec = e

\* A workflow runs only on executors of one application version, also after a
\* crash put it back into the queue.
VersionKept ==
    \A e \in Executors : \A w \in pool[e] \cup running[e] :
      wf[w].ver = ExecVersion[e] /\ WfVersion[w] \in {None, wf[w].ver}

\* No workflow is in the queue, or dequeued, before its delay is over, whatever
\* set_workflow_delay did while it was DELAYED.
NotEarly ==
    \A w \in DOMAIN wf :
      wf[w].status \in {"ENQUEUED", "PENDING", "SUCCESS"} => wf[w].delay <= now

\* A workflow is dispatched to one executor, and not before its delay is over
\* (start_queued_workflows, transition_delayed_workflows).
DispatchedRightly == OneWorker /\ NotEarly

\* A queue whose workers take rows in the order in which they were enqueued:
\* one priority, no delays and one application version.
FifoQueue ==
    /\ \A v, w \in Workflows : Priority[v] = Priority[w]
    /\ Delays = {0}
    /\ \A e \in Executors : ExecVersion[e] = LatestVersion
    /\ \A w \in Workflows : WfVersion[w] \in {None, LatestVersion}

\* In the queue, or dequeued and not finished.
Unfinished(w) == wf[w].status \in {"DELAYED", "ENQUEUED", "PENDING"}
=============================================================================

----------------------------- MODULE Lifecycle ------------------------------
(***************************************************************************)
(* Launching and destroying DBOS in a process that goes on, while          *)
(* workflows run in the threads of its executor. The steps of destroy take *)
(* away the event loop, the executor and the system database one after     *)
(* another, and threads that are still running meet what is left. Nothing  *)
(* here fails but for the shutdown: the code of every workflow returns.    *)
(***************************************************************************)
EXTENDS Naturals, FiniteSets

CONSTANTS
    Workflows,
    Child,        \* the workflow each starts and waits for, or None
    Coroutines,   \* the workflows that are coroutines, started from a thread
    Loop,         \* what runs coroutines: "background", the "main" loop of the
                  \* application, or the main loop, from which it is "destroying"
    Patient,      \* destroy waits for the active workflows
    Threads,      \* max_executor_threads
    MaxLaunches,  \* how often DBOS is launched
    None

LifecycleAssumption ==
    /\ Child \in [Workflows -> Workflows \cup {None}] /\ None \notin Workflows
    /\ \A w \in Workflows : Child[w] # w
    /\ Coroutines \subseteq {w \in Workflows : Child[w] = None}
    /\ Loop \in {"background", "main", "destroying"} /\ Patient \in BOOLEAN
    /\ Threads \in Nat \ {0} /\ MaxLaunches \in Nat \ {0}

VARIABLES
    phase,      \* of the instance: where launch and destroy are
    gen,        \* how many instances there have been, the number of the last
    executor,   \* the executor of the last instance takes work
    db,         \* the system database of the last instance is there
    row,        \* workflow_status
    recorded,   \* workflows whose start their parent has checkpointed
    calls,      \* workflows inserted by a caller about to submit them
    todo,       \* what startup recovery has still to start
    pool,       \* submitted workflows no thread has begun
    threads,    \* of the executors, of earlier instances too
    futures     \* of workflows, once they are over

vars == <<phase, gen, executor, db, row, recorded, calls, todo, pool, threads, futures>>

Roots == Workflows \ {Child[w] : w \in Workflows}
\* Mutant: a thread uses the database of the instance that is current.
CurrentDatabase(g) == db
Database(g) == db /\ g = gen
Executor(g) == executor /\ g = gen
Destroying == phase \notin {"off", "up", "failed"}
Active == {t \in threads : t.gen = gen}

\* A coroutine on the loop whose thread is busy destroying DBOS.
Frozen(t) == t.wf \in Coroutines /\ Loop = "destroying" /\ Destroying

Init ==
    /\ phase = "off" /\ gen = 0 /\ executor = FALSE /\ db = FALSE
    /\ row = [w \in Workflows |-> None] /\ recorded = {} /\ calls = {}
    /\ todo = {} /\ pool = {} /\ threads = {} /\ futures = {}

-----------------------------------------------------------------------------
(***************************************************************************)
(* Launching, and recovery of what earlier instances left PENDING.         *)
(***************************************************************************)
Launch ==
    /\ phase = "off" /\ gen < MaxLaunches
    /\ phase' = "up" /\ gen' = gen + 1 /\ executor' = TRUE /\ db' = TRUE
    /\ todo' = {w \in Workflows : row[w] = "PENDING"}
    /\ UNCHANGED <<row, recorded, calls, pool, threads, futures>>

\* The database cannot be reached: the instance has an executor and an event
\* loop, counts as launched, and has to be destroyed.
LaunchFails ==
    /\ phase = "off" /\ gen + 1 < MaxLaunches
    /\ phase' = "failed" /\ gen' = gen + 1 /\ executor' = TRUE
    /\ UNCHANGED <<db, row, recorded, calls, todo, pool, threads, futures>>

\* The thread goes through its list after the stop event too; what it cannot
\* submit it logs and drops.
Recover(w) ==
    /\ w \in todo /\ todo' = todo \ {w}
    /\ pool' = IF executor /\ row[w] = "PENDING" THEN pool \cup {w} ELSE pool
    /\ UNCHANGED <<phase, gen, executor, db, row, recorded, calls, threads, futures>>

-----------------------------------------------------------------------------
(***************************************************************************)
(* A caller starts a workflow: the row is inserted, then the workflow is   *)
(* submitted. If destroy comes in between the caller gets an exception.    *)
(***************************************************************************)
Call(w) ==
    /\ w \in Roots /\ row[w] = None /\ db
    /\ row' = [row EXCEPT ![w] = "PENDING"]
    /\ calls' = calls \cup {[wf |-> w, gen |-> gen]}
    /\ UNCHANGED <<phase, gen, executor, db, recorded, todo, pool, threads, futures>>

CallSubmits(c) ==
    /\ c \in calls /\ calls' = calls \ {c}
    /\ pool' = IF Executor(c.gen) THEN pool \cup {c.wf} ELSE pool
    /\ UNCHANGED <<phase, gen, executor, db, row, recorded, todo, threads, futures>>

-----------------------------------------------------------------------------
(***************************************************************************)
(* A thread of the executor runs a workflow. Its own instance is the one   *)
(* it was submitted to; DBOS.start_workflow uses the one there is.         *)
(***************************************************************************)
Thread(w, pc) == [wf |-> w, gen |-> gen, pc |-> pc, handle |-> "none", via |-> gen]
Becomes(t, u) == threads' = (threads \ {t}) \cup {u}
Raises(t) == Becomes(t, [t EXCEPT !.pc = "raise"])

\* A coroutine is submitted to the loop. When the background loop has stopped
\* and is not closed yet, it accepts the coroutine and never runs it.
Entry(w) ==
    IF Child[w] # None THEN {"start"}
    ELSE IF w \in Coroutines /\ Loop = "background" /\ phase = "executor"
         THEN {"raise", "stuck"}
         ELSE {"end"}

Begin(w) ==
    /\ w \in pool /\ Cardinality(Active) < Threads
    /\ pool' = pool \ {w}
    /\ \E pc \in Entry(w) : threads' = threads \cup {Thread(w, pc)}
    /\ UNCHANGED <<phase, gen, executor, db, row, recorded, calls, todo, futures>>

\* start_workflow, up to the row of the child.
StartChild(t) ==
    LET c == Child[t.wf]
        Goes(pc, handle) ==
            Becomes(t, [t EXCEPT !.pc = pc, !.handle = handle, !.via = gen])
    IN /\ t \in threads /\ t.pc = "start"
       /\ \/ ~db /\ Raises(t) /\ UNCHANGED row
          \/ db /\ c \in recorded /\ Goes("await", "polling") /\ UNCHANGED row
          \/ /\ db /\ c \notin recorded
             /\ Goes("submit", IF row[c] = None THEN "future" ELSE "polling")
             /\ row' = IF row[c] = None THEN [row EXCEPT ![c] = "PENDING"] ELSE row
       /\ UNCHANGED <<phase, gen, executor, db, recorded, calls, todo, pool, futures>>

\* The rest of it: the checkpoint, and the child's thread if it inserted the row.
SubmitChild(t) ==
    LET c == Child[t.wf]
        Awaits == Becomes(t, [t EXCEPT !.pc = "await"])
    IN /\ t \in threads /\ t.pc = "submit"
       /\ recorded' = IF Database(t.via) THEN recorded \cup {c} ELSE recorded
       /\ \/ ~Database(t.via) /\ Raises(t) /\ UNCHANGED pool
          \/ Database(t.via) /\ t.handle = "polling" /\ Awaits /\ UNCHANGED pool
          \/ /\ Database(t.via) /\ t.handle = "future"
             /\ \/ Executor(t.via) /\ Awaits /\ pool' = pool \cup {c}
                \/ ~Executor(t.via) /\ Raises(t) /\ UNCHANGED pool
       /\ UNCHANGED <<phase, gen, executor, db, row, calls, todo, futures>>

\* get_result on a handle: of a future, or polling the child's row.
Await(t) ==
    LET c == Child[t.wf]
        returned == IF t.handle = "future"
                    THEN {f.ok : f \in {g \in futures : g.wf = c /\ g.gen = t.via}}
                    ELSE IF row[c] = "PENDING" THEN {} ELSE {row[c] = "SUCCESS"}
    IN /\ t \in threads /\ t.pc = "await"
       /\ \/ t.handle = "polling" /\ ~Database(t.via) /\ Raises(t)
          \/ returned # {} /\ Database(t.via) /\ TRUE \in returned
                /\ Becomes(t, [t EXCEPT !.pc = "end"])
          \/ returned # {} /\ (Database(t.via) => FALSE \in returned) /\ Raises(t)
       /\ UNCHANGED <<phase, gen, executor, db, row, recorded, calls, todo, pool, futures>>

\* The thread records an outcome, if its instance still has its database.
Persist(t, status) ==
    /\ row' = IF Database(t.gen) THEN [row EXCEPT ![t.wf] = status] ELSE row
    /\ futures' = futures \cup
            {[wf |-> t.wf, gen |-> t.gen, ok |-> Database(t.gen) /\ status = "SUCCESS"]}
    /\ threads' = threads \ {t}
    /\ UNCHANGED <<phase, gen, executor, db, recorded, calls, todo, pool>>

Return(t) ==
    /\ t \in threads /\ t.pc = "end" /\ ~Frozen(t)
    /\ \/ Database(t.gen) /\ Persist(t, "SUCCESS")
       \/ /\ ~Database(t.gen) /\ Raises(t)
          /\ UNCHANGED <<phase, gen, executor, db, row, recorded, calls, todo, pool, futures>>

Except(t) == t \in threads /\ t.pc = "raise" /\ Persist(t, "ERROR")

-----------------------------------------------------------------------------
(***************************************************************************)
(* The steps of destroy. phase names the step that comes next.             *)
(***************************************************************************)
Stop ==
    /\ phase \in {"up", "failed"} /\ gen < MaxLaunches
    /\ phase' = "wait"
    /\ UNCHANGED <<gen, executor, db, row, recorded, calls, todo, pool, threads, futures>>

\* Waiting ends when no workflow is active; the deadline is needed only for
\* those that cannot go on.
WaitOver ==
    /\ phase = "wait" /\ (Patient => \A t \in Active : Frozen(t))
    /\ phase' = "timers"
    /\ UNCHANGED <<gen, executor, db, row, recorded, calls, todo, pool, threads, futures>>

\* The timeout tasks are cancelled on their loop, directly if destroy runs
\* there. Waiting for that loop would block both.
CancelTimers ==
    /\ phase = "timers"
    /\ phase' = "loop"
    /\ UNCHANGED <<gen, executor, db, row, recorded, calls, todo, pool, threads, futures>>

\* Stopping the background loop cancels the coroutines on it; the threads that
\* wait for them get an exception.
StopLoop ==
    /\ phase = "loop" /\ phase' = "executor"
    /\ threads' = {IF t \in Active /\ t.wf \in Coroutines /\ Loop = "background"
                   THEN [t EXCEPT !.pc = "raise"] ELSE t : t \in threads}
    /\ UNCHANGED <<gen, executor, db, row, recorded, calls, todo, pool, futures>>

\* The executor takes no more work, what it has not begun is cancelled, and
\* what runs goes on. The recovery thread can submit nothing any more.
CloseExecutor ==
    /\ phase = "executor" /\ phase' = "db" /\ executor' = FALSE
    /\ pool' = {} /\ todo' = {}
    /\ futures' = futures \cup {[wf |-> w, gen |-> gen, ok |-> FALSE] : w \in pool}
    /\ UNCHANGED <<gen, db, row, recorded, calls, threads>>

\* The background threads are joined, for 10 seconds each at most; then the
\* database is closed and the instance forgotten.
CloseDatabase ==
    /\ phase = "db" /\ phase' = "off" /\ db' = FALSE
    /\ UNCHANGED <<gen, executor, row, recorded, calls, todo, pool, threads, futures>>

-----------------------------------------------------------------------------
Ended == {"SUCCESS", "ERROR"}

\* The last instance is up and has nothing to do.
Idle ==
    /\ phase = "up" /\ gen = MaxLaunches
    /\ calls = {} /\ todo = {} /\ pool = {} /\ Active = {}
    /\ UNCHANGED vars

Destroy == WaitOver \/ CancelTimers \/ StopLoop \/ CloseExecutor \/ CloseDatabase
Run(t) == StartChild(t) \/ SubmitChild(t) \/ Await(t) \/ Return(t) \/ Except(t)

Next ==
    \/ Launch \/ LaunchFails \/ Stop \/ Destroy \/ Idle
    \/ \E w \in Workflows : Recover(w) \/ Call(w) \/ Begin(w)
    \/ \E c \in calls : CallSubmits(c)
    \/ \E t \in threads : Run(t)

Spec == Init /\ [][Next]_vars

-----------------------------------------------------------------------------
(***************************************************************************)
(* Properties.                                                             *)
(***************************************************************************)

\* Type correctness: a workflow that was submitted has a row, only an instance
\* with an executor has work in its pool, and no more threads than allowed.
TypeOK ==
    /\ phase \in {"off", "up", "failed", "wait", "timers", "loop", "executor", "db"}
    /\ gen \in 0 .. MaxLaunches /\ executor \in BOOLEAN /\ db \in BOOLEAN
    /\ row \in [Workflows -> {None, "PENDING"} \cup Ended]
    /\ calls \subseteq [wf : Roots, gen : 1 .. MaxLaunches]
    /\ \A w \in recorded \cup todo \cup pool : row[w] # None
    /\ pool # {} => executor
    /\ \A t \in threads : t.pc \in {"start", "submit", "await", "end", "raise", "stuck"}
    /\ Cardinality(Active) <= Threads

\* Shutting DBOS down fails no workflow: one that destroy interrupts stays
\* PENDING and is resumed by the next launch (persist records ERROR for any
\* exception of the workflow's code, and the code here raises none).
NoSpuriousError == \A w \in Workflows : row[w] # "ERROR"

\* The outcome of a workflow is final: a thread of an instance that was
\* destroyed does not overwrite what a later execution recorded (persist uses
\* the database of its own instance).
OutcomeFinal == \A w \in Workflows : row[w] \in Ended => row'[w] = row[w]

Pending(w) == row[w] = "PENDING"
=============================================================================

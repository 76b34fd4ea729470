--------------------------- MODULE QueueRegistry ----------------------------
(***************************************************************************)
(* The registry of queues: in-memory queues declared by a process, and     *)
(* queues registered in the database, whose configuration processes and    *)
(* clients register, change and delete while they are in use. The queue    *)
(* manager thread of a process lists the queues and starts a worker thread *)
(* for each that has none; the worker of a queue in the database reads its *)
(* configuration again before every poll. A queue object that breaks       *)
(* worker_concurrency <= concurrency cannot be built, from a row either.   *)
(***************************************************************************)
EXTENDS Naturals, Sequences, FiniteSets

CONSTANTS
    Names,      \* of queues
    Internal,   \* the internal queue, always in memory
    Managers,   \* processes and clients that manage queues
    Version,    \* the application version of each, None for a client
    Policies,   \* the ways of resolving conflicts that are used
    Configs,    \* what queues are registered with
    Limits,     \* what a concurrency limit is set to: numbers or None
    MemConfig,  \* the configuration of in-memory queues
    LateMem,    \* in-memory queues may be declared after the launch
    Listening,  \* the queues the process listens to, None for all of them
    Setters,    \* limits are changed
    MaxOps,     \* how many operations the managers begin
    None

Valid(c) == None \notin {c.work, c.conc} => c.work <= c.conc

RegistryAssumption ==
    /\ Internal \in Names /\ DOMAIN Version = Managers
    /\ \A c \in Configs \cup {MemConfig} : Valid(c)
    /\ Listening = None \/ Listening \subseteq Names
    /\ None \notin Nat \cup Names /\ MaxOps \in Nat
    /\ LateMem \in BOOLEAN /\ Setters \in BOOLEAN

VARIABLES
    queues,     \* the queues table: a configuration or None, by name
    owner,      \* the version that wrote each row last
    versions,   \* the application versions, the latest last
    op,         \* what each manager has checked and is about to write
    mem,        \* queue_info_map, the in-memory queues
    worker,     \* queue_threads: None, or the queue object the thread has
    stop,       \* the stop event
    managing,   \* the queue manager thread is in its loop
    ops         \* operations begun

vars == <<queues, owner, versions, op, mem, worker, stop, managing, ops>>

Idle == [kind |-> "idle"]
Object(c, backed) == [config |-> c, backed |-> backed]

Init ==
    /\ queues = [n \in Names |-> None] /\ owner = [n \in Names |-> None]
    /\ versions = <<>> /\ op = [m \in Managers |-> Idle]
    /\ mem \in {{Internal}} \cup {{Internal, n} : n \in Names}
    /\ worker = [n \in Names |-> None] /\ stop = FALSE /\ managing = TRUE /\ ops = 0

-----------------------------------------------------------------------------
(***************************************************************************)
(* Managers.                                                               *)
(***************************************************************************)
Begin(m) == op[m] = Idle /\ ops < MaxOps /\ ops' = ops + 1
Range(s) == {s[i] : i \in DOMAIN s}

\* A process launches: its version is the latest if it is new.
Launch(m) ==
    /\ Version[m] # None /\ Version[m] \notin Range(versions)
    /\ versions' = Append(versions, Version[m])
    /\ UNCHANGED <<queues, owner, op, mem, worker, stop, managing, ops>>

\* on_conflict. By the latest version, that is, when it is read; a client has
\* none and is refused.
Updates(m, policy) ==
    CASE policy = "always_update" -> TRUE
      [] policy = "never_update" -> FALSE
      [] OTHER -> versions[Len(versions)] = Version[m]

Register(m, n, c, policy) ==
    /\ Begin(m)
    /\ IF Version[m] = None THEN policy # "update_if_latest_version"
       ELSE Version[m] \in Range(versions)
    /\ op' = [op EXCEPT ![m] = [kind |-> "upsert", name |-> n, config |-> c,
                                update |-> Updates(m, policy)]]
    /\ UNCHANGED <<queues, owner, versions, mem, worker, stop, managing>>

Upsert(m) ==
    LET o == op[m]
        writes == queues[o.name] = None \/ o.update
    IN  /\ o.kind = "upsert"
        /\ queues' = IF writes THEN [queues EXCEPT ![o.name] = o.config] ELSE queues
        /\ owner' = IF writes THEN [owner EXCEPT ![o.name] = Version[m]] ELSE owner
        /\ op' = [op EXCEPT ![m] = Idle]
        /\ UNCHANGED <<versions, mem, worker, stop, managing, ops>>

\* set_concurrency and set_worker_concurrency read the row, which fails if it
\* is gone or breaks the rule, and check the value against the other limit.
ReadFor(m, n, field, v) ==
    /\ Setters /\ Begin(m) /\ queues[n] # None /\ Valid(queues[n])
    /\ Valid([queues[n] EXCEPT ![field] = v])
    /\ op' = [op EXCEPT ![m] = [kind |-> "set", name |-> n, field |-> field, value |-> v]]
    /\ UNCHANGED <<queues, owner, versions, mem, worker, stop, managing>>

\* update_queue: one field, of a row that may be gone.
UpdateQueue(m) ==
    LET o == op[m]
    IN  /\ o.kind = "set"
        /\ queues' = IF queues[o.name] = None THEN queues
                     ELSE [queues EXCEPT ![o.name][o.field] = o.value]
        /\ op' = [op EXCEPT ![m] = Idle]
        /\ UNCHANGED <<owner, versions, mem, worker, stop, managing, ops>>

Delete(m, n) ==
    /\ Begin(m) /\ queues[n] # None
    /\ queues' = [queues EXCEPT ![n] = None] /\ owner' = [owner EXCEPT ![n] = None]
    /\ UNCHANGED <<versions, op, mem, worker, stop, managing>>

\* Queue(name): an in-memory queue, once.
Declare(n) ==
    /\ LateMem /\ n \notin mem /\ ~stop
    /\ mem' = mem \cup {n}
    /\ UNCHANGED <<queues, owner, versions, op, worker, stop, managing, ops>>

-----------------------------------------------------------------------------
(***************************************************************************)
(* The threads of one process.                                             *)
(***************************************************************************)
Heard(n) == Listening = None \/ n \in Listening

\* list_queues builds an object of every row: one it cannot build, and none
\* is listed.
Listed ==
    IF \E n \in Names : queues[n] # None /\ ~Valid(queues[n]) THEN {}
    ELSE {n \in Names : queues[n] # None /\ n \notin mem /\ Heard(n)}

\* One pass of the loop of queue_thread, and its end.
Check ==
    LET current == {n \in mem : Heard(n)} \cup {Internal} \cup Listed
    IN  /\ managing /\ ~stop
        /\ worker' = [n \in Names |->
                        IF worker[n] # None \/ n \notin current THEN worker[n]
                        ELSE IF n \in mem THEN Object(MemConfig, FALSE)
                        ELSE Object(queues[n], TRUE)]
        /\ UNCHANGED <<queues, owner, versions, op, mem, stop, managing, ops>>

\* Mutant: a worker takes settings that are not valid.
ReloadUnchecked(n) ==
    /\ worker[n] # None /\ ~stop /\ worker[n].backed
    /\ worker' = [worker EXCEPT ![n] = IF queues[n] = None THEN None ELSE Object(queues[n], TRUE)]
    /\ UNCHANGED <<queues, owner, versions, op, mem, stop, managing, ops>>

\* queue_worker_thread reads its row again; it ends when that is gone, and
\* goes on with the object it has when it cannot be built.
Reload(n) ==
    /\ worker[n] # None /\ ~stop /\ worker[n].backed
    /\ worker' = [worker EXCEPT ![n] =
                    IF queues[n] = None THEN None
                    ELSE IF Valid(queues[n]) THEN Object(queues[n], TRUE) ELSE @]
    /\ UNCHANGED <<queues, owner, versions, op, mem, stop, managing, ops>>

\* destroy sets the stop event.
Stop ==
    /\ ~stop /\ stop' = TRUE
    /\ UNCHANGED <<queues, owner, versions, op, mem, worker, managing, ops>>

WorkerEnds(n) ==
    /\ stop /\ worker[n] # None
    /\ worker' = [worker EXCEPT ![n] = None]
    /\ UNCHANGED <<queues, owner, versions, op, mem, stop, managing, ops>>

\* It joins the workers, each for ten seconds at most.
ManagerEnds ==
    /\ stop /\ managing /\ managing' = FALSE
    /\ UNCHANGED <<queues, owner, versions, op, mem, worker, stop, ops>>

-----------------------------------------------------------------------------
Next ==
    \/ \E m \in Managers :
          \/ Launch(m) \/ Upsert(m) \/ UpdateQueue(m)
          \/ \E n \in Names :
                \/ Delete(m, n)
                \/ \E c \in Configs, policy \in Policies : Register(m, n, c, policy)
                \/ \E f \in {"conc", "work"}, v \in Limits : ReadFor(m, n, f, v)
    \/ \E n \in Names : Declare(n) \/ Reload(n) \/ WorkerEnds(n)
    \/ Check \/ Stop \/ ManagerEnds
    \/ stop /\ ~managing /\ UNCHANGED vars

Spec == Init /\ [][Next]_vars

-----------------------------------------------------------------------------
(***************************************************************************)
(* Properties.                                                             *)
(***************************************************************************)
TypeOK ==
    /\ \A n \in Names : /\ queues[n] = None \/ DOMAIN queues[n] = {"conc", "work"}
                        /\ worker[n] # None => worker[n].backed \in BOOLEAN
                        /\ queues[n] = None => owner[n] = None
    /\ Range(versions) \subseteq Range(Version) \ {None}
    /\ Cardinality(Range(versions)) = Len(versions)
    /\ Internal \in mem /\ mem \subseteq Names /\ ops \in 0..MaxOps

\* No worker ever polls with limits that contradict each other, whatever the
\* rows say in between.
WorkersValid == \A n \in Names : worker[n] # None => Valid(worker[n].config)

\* A queue of the database whose name an in-memory queue has, declared before
\* the launch, is not used.
InMemoryUsed == \A n \in mem : worker[n] # None => ~worker[n].backed

\* The rows satisfy the rule that every operation checks. ("Refresh the local
\* cache so the cross-field check below validates against the latest")
RowsValid == \A n \in Names : queues[n] # None => Valid(queues[n])

\* A queue of the database that this process should serve, and whose worker
\* has the configuration it has.
ToServe(n) == queues[n] # None /\ RowsValid /\ n \notin mem /\ Heard(n) /\ ~stop
Served(n) == worker[n] # None /\ worker[n].config = queues[n]

\* A queue that is not registered, and one without a worker.
Unregistered(n) == queues[n] = None /\ n \notin mem
Unserved(n) == worker[n] = None

\* The stop event is set, and a thread of the queues still runs.
Ending == stop /\ (managing \/ \E n \in Names : worker[n] # None)
=============================================================================

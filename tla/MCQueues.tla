------------------------------ MODULE MCQueues ------------------------------
(***************************************************************************)
(* QueueDispatch, and instances of it and of QueueRegistry, for the model  *)
(* checker. Every behaviour is one of the scenarios below, from the start  *)
(* to the end; the variables the scenario does not use are None, or what   *)
(* they are at first. The constants of the configuration are those of the  *)
(* scenario "mixed": executors of two versions, a workflow that needs the  *)
(* older one and goes first, delays and a crash.                           *)
(***************************************************************************)
EXTENDS QueueDispatch

VARIABLES
    scenario,
    queues, owner, versions, op, mem, worker, stop, managing, ops         \* of QueueRegistry

Two == {"w1", "w2"}
Three == Two \cup {"w3"}
Anyone(S) == [w \in S |-> None]
Equal(S) == [w \in S |-> 0]

\* A global concurrency below the number of workflows.
Limited == INSTANCE QueueDispatch WITH
    Executors <- {"e1", "e2"}, Workflows <- Three, Partition <- Anyone(Three),
    Priority <- Equal(Three), WfVersion <- Anyone(Three),
    ExecVersion <- [e \in {"e1", "e2"} |-> "v1"], LatestVersion <- "v1", Delays <- {0},
    Concurrency <- 2, WorkerConcurrency <- None, Limit <- None, Period <- None,
    PromptThreads <- FALSE, MaxTime <- 0, MaxCancels <- 0, MaxCrashes <- 0

\* A global concurrency of one, while workflows are cancelled and an executor
\* crashes.
Single == INSTANCE QueueDispatch WITH
    Executors <- {"e1", "e2"}, Workflows <- Two, Partition <- Anyone(Two),
    Priority <- Equal(Two), WfVersion <- Anyone(Two),
    ExecVersion <- [e \in {"e1", "e2"} |-> "v1"], LatestVersion <- "v1", Delays <- {0},
    Concurrency <- 1, WorkerConcurrency <- None, Limit <- None, Period <- None,
    PromptThreads <- FALSE, MaxTime <- 0, MaxCancels <- 1, MaxCrashes <- 1

\* A rate limit of one start in two ticks, and delays.
Rated == INSTANCE QueueDispatch WITH
    Executors <- {"e1"}, Workflows <- Two, Partition <- Anyone(Two),
    Priority <- Equal(Two), WfVersion <- Anyone(Two),
    ExecVersion <- [e \in {"e1"} |-> "v1"], LatestVersion <- "v1", Delays <- {0, 1},
    Concurrency <- None, WorkerConcurrency <- None, Limit <- 1, Period <- 2,
    PromptThreads <- TRUE, MaxTime <- 3, MaxCancels <- 0, MaxCrashes <- 0

\* One workflow per process and partition; w3 is alone in its partition.
PerProcess == INSTANCE QueueDispatch WITH
    Executors <- {"e1", "e2"}, Workflows <- Three,
    Partition <- [w \in Three |-> IF w = "w3" THEN 2 ELSE 1],
    Priority <- Equal(Three), WfVersion <- Anyone(Three),
    ExecVersion <- [e \in {"e1", "e2"} |-> "v1"], LatestVersion <- "v1", Delays <- {0},
    Concurrency <- None, WorkerConcurrency <- 1, Limit <- None, Period <- None,
    PromptThreads <- TRUE, MaxTime <- 0, MaxCancels <- 0, MaxCrashes <- 0

\* Of the scenario "mixed".
MixedPartition == Anyone(Two)
MixedPriority == [w \in Two |-> IF w = "w1" THEN 0 ELSE 1]
MixedVersion == [w \in Two |-> IF w = "w1" THEN "v1" ELSE None]
MixedExecutors == [e \in {"e1", "e2"} |-> IF e = "e1" THEN "v1" ELSE "v2"]

Unlimited == [conc |-> None, work |-> None]
Wide == [conc |-> 2, work |-> None]

\* A process and a client register, change and delete queues.
Managed == INSTANCE QueueRegistry WITH
    Names <- {"i", "q"}, Internal <- "i", Managers <- {"m1", "m2"},
    Version <- [m \in {"m1", "m2"} |-> IF m = "m1" THEN "v1" ELSE None],
    Policies <- {"always_update", "never_update", "update_if_latest_version"},
    Configs <- {Unlimited, Wide}, Limits <- {1, 2}, MemConfig <- Unlimited,
    LateMem <- FALSE, Listening <- None, Setters <- TRUE, MaxOps <- 3

\* One process, which listens to two queues.
Listener == INSTANCE QueueRegistry WITH
    Names <- {"i", "q", "r"}, Internal <- "i", Managers <- {"m1"},
    Version <- [m \in {"m1"} |-> "v1"], Policies <- {"always_update"},
    Configs <- {Unlimited, Wide}, Limits <- {1, 2}, MemConfig <- Unlimited,
    LateMem <- FALSE, Listening <- {"q", "r"}, Setters <- TRUE, MaxOps <- 3

\* Two processes of a rolling deploy; in-memory queues are declared late.
Rolling == INSTANCE QueueRegistry WITH
    Names <- {"i", "q"}, Internal <- "i", Managers <- {"m1", "m2"},
    Version <- [m \in {"m1", "m2"} |-> IF m = "m1" THEN "v1" ELSE "v2"],
    Policies <- {"update_if_latest_version"},
    Configs <- {Wide}, Limits <- {1}, MemConfig <- Unlimited,
    LateMem <- TRUE, Listening <- None, Setters <- TRUE, MaxOps <- 3

ASSUME ScenarioAssumption ==
    /\ Limited!QueueAssumption /\ Single!QueueAssumption /\ Rated!QueueAssumption
    /\ PerProcess!QueueAssumption /\ QueueAssumption
    /\ Managed!RegistryAssumption /\ Listener!RegistryAssumption
    /\ Rolling!RegistryAssumption

registryVars == <<queues, owner, versions, op, mem, worker, stop, managing, ops>>
allVars == <<scenario, vars, registryVars>>

NoRegistry ==
    /\ queues = None /\ owner = None /\ versions = None /\ op = None /\ mem = None
    /\ worker = None /\ stop = None /\ managing = None /\ ops = None

MCInit ==
    \/ scenario = "limited" /\ Limited!Init /\ NoRegistry
    \/ scenario = "single" /\ Single!Init /\ NoRegistry
    \/ scenario = "rated" /\ Rated!Init /\ NoRegistry
    \/ scenario = "per_process" /\ PerProcess!Init /\ NoRegistry
    \/ scenario = "mixed" /\ Init /\ NoRegistry
    \/ scenario = "managed" /\ Managed!Init /\ Init
    \/ scenario = "listening" /\ Listener!Init /\ Init
    \/ scenario = "rolling" /\ Rolling!Init /\ Init

MCNext ==
    /\ \/ scenario = "limited" /\ Limited!Next /\ UNCHANGED registryVars
       \/ scenario = "single" /\ Single!Next /\ UNCHANGED registryVars
       \/ scenario = "rated" /\ Rated!Next /\ UNCHANGED registryVars
       \/ scenario = "per_process" /\ PerProcess!Next /\ UNCHANGED registryVars
       \/ scenario = "mixed" /\ Next /\ UNCHANGED registryVars
       \/ scenario = "managed" /\ Managed!Next /\ UNCHANGED vars
       \/ scenario = "listening" /\ Listener!Next /\ UNCHANGED vars
       \/ scenario = "rolling" /\ Rolling!Next /\ UNCHANGED vars
    /\ UNCHANGED scenario

\* Worker and manager threads keep polling, pool threads are scheduled, dead
\* processes are started again, time passes, and the writes managers began
\* end.
Fairness ==
    /\ WF_vars(scenario = "mixed" /\ Tick)
    /\ \A e \in {"e1", "e2"} :
          /\ WF_vars(scenario = "mixed" /\ Worker(e))
          /\ WF_vars(scenario = "mixed" /\ Restart(e))
          /\ WF_vars(scenario = "mixed" /\ TransitionDelayed(e))
          /\ \A w \in Two : WF_vars(scenario = "mixed" /\ Thread(e, w))
    /\ WF_(Listener!vars)(scenario = "listening" /\ Listener!Check)
    /\ WF_(Listener!vars)(scenario = "listening" /\ Listener!ManagerEnds)
    /\ \A n \in {"i", "q", "r"} :
          /\ WF_(Listener!vars)(scenario = "listening" /\ Listener!Reload(n))
          /\ WF_(Listener!vars)(scenario = "listening" /\ Listener!WorkerEnds(n))
    /\ WF_(Listener!vars)(scenario = "listening" /\ Listener!Upsert("m1"))
    /\ WF_(Listener!vars)(scenario = "listening" /\ Listener!UpdateQueue("m1"))

MCSpec == MCInit /\ [][MCNext]_allVars /\ Fairness

-----------------------------------------------------------------------------
(* Properties, stated in the modules and here for their scenarios.         *)

\* The type invariants of both modules: a dequeue transaction goes on only
\* with the rows it has locked, and a version is registered once.
TypesOK ==
    CASE scenario = "limited" -> Limited!TypeOK
      [] scenario = "single" -> Single!TypeOK
      [] scenario = "rated" -> Rated!TypeOK
      [] scenario = "per_process" -> PerProcess!TypeOK
      [] scenario = "mixed" -> TypeOK
      [] scenario = "managed" -> Managed!TypeOK
      [] scenario = "listening" -> Listener!TypeOK
      [] scenario = "rolling" -> Rolling!TypeOK

\* Never more workflows of a queue are PENDING than its global concurrency,
\* however the dequeue transactions of the workers interleave
\* (start_queued_workflows).
GlobalLimit ==
    /\ scenario = "limited" => Limited!ConcurrencyLimit
    /\ scenario = "single" => Single!ConcurrencyLimit

\* Never more workflows of a partition run in a process than its worker
\* concurrency, if dispatched workflows get their threads before the next
\* poll (start_queued_workflows, ActiveWorkflowById).
ProcessLimit == scenario = "per_process" => PerProcess!WorkerLimit

\* No window of the period holds more starts than the limit, with one worker
\* (start_queued_workflows, QueueRateLimit).
StartRate == scenario = "rated" => Rated!RateLimit

\* A workflow runs only on executors of one version, also after a crash put
\* it back into the queue (start_queued_workflows, clear_queue_assignment).
OneVersion == scenario = "mixed" => VersionKept

\* Every enqueued workflow is finished or cancelled in the end, through
\* contention of workers, limits and crashes (queue_worker_thread).
Drains ==
    \A w \in Two :
        LET unfinished == scenario = "mixed" /\ Unfinished(w)
        IN  unfinished ~> ~unfinished

\* No worker polls with limits that contradict each other, whatever the rows
\* say in between (queue_worker_thread, Queue.__init__).
WorkersValid ==
    /\ scenario = "managed" => Managed!WorkersValid
    /\ scenario = "listening" => Listener!WorkersValid
    /\ scenario = "rolling" => Rolling!WorkersValid

\* A queue of the database that has the name of an in-memory queue declared
\* before the launch is not used (queue_thread).
InMemoryUsed ==
    /\ scenario = "managed" => Managed!InMemoryUsed
    /\ scenario = "listening" => Listener!InMemoryUsed

\* The rows satisfy worker_concurrency <= concurrency as long as one process
\* changes them (Queue.set_concurrency, Queue.set_worker_concurrency).
RowsValid == scenario = "listening" => Listener!RowsValid

\* While every row can be read, a queue that stays registered gets a worker
\* with the configuration it has, unless the process is stopped
\* (queue_thread, queue_worker_thread).
Served ==
    \A n \in {"i", "q", "r"} :
        <>[](scenario = "listening" /\ Listener!ToServe(n)) =>
            <>[](scenario = "listening" /\ Listener!Served(n))

\* A queue that is deleted for good loses its worker, and stopping ends the
\* workers and the manager (queue_worker_thread, queue_thread).
WorkersEnd ==
    /\ \A n \in {"i", "q", "r"} :
          <>[](scenario = "listening" /\ Listener!Unregistered(n)) =>
              <>[](scenario = "listening" /\ Listener!Unserved(n))
    /\ LET ending == scenario = "listening" /\ Listener!Ending
       IN  ending ~> ~ending
-----------------------------------------------------------------------------
(* What the run checks.                                                    *)

\* However the dequeue transactions of the workers interleave, a queue stays
\* within its concurrency, its worker concurrency and its rate, and a workflow
\* goes to executors of its version (start_queued_workflows).
LimitsKept == TypesOK /\ GlobalLimit /\ ProcessLimit /\ StartRate /\ OneVersion

\* No worker polls with limits that contradict each other or in the place of an
\* in-memory queue, whoever changes the rows meanwhile (queue_thread,
\* queue_worker_thread).
RegistrySound == WorkersValid /\ InMemoryUsed /\ RowsValid

\* What is enqueued ends, what is registered is served with the configuration
\* it has, and what is deleted or stopped is not (queue_worker_thread).
QueuesServed == Drains /\ Served /\ WorkersEnd
=============================================================================

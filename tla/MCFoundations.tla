---------------------------- MODULE MCFoundations ---------------------------
(***************************************************************************)
(* KafkaConsumer, and instances of Migrations, Cron and WorkflowContext,   *)
(* for the model checker. Every behaviour is one of the scenarios below,   *)
(* from the start to the end; the variables the scenario does not use are  *)
(* None, or what they are at first.                                        *)
(***************************************************************************)
EXTENDS Integers, Sequences, KafkaConsumer

CONSTANT None

VARIABLES
    scenario,
    objects, invalid, rows, holder, pc, last, done, seen, crashes,      \* of Migrations
    req, fields, cur, leg, dst, since, first, got, phase,               \* of Cron
    heap, local, stack, pend, probe, started, taken, marks, free        \* of WorkflowContext

-----------------------------------------------------------------------------
(* Migrations.                                                             *)

\* A database at version v; one that an early version one was built in; one
\* whose version was set back.
At(v) == [version |-> v, built |-> v, legacy |-> FALSE]
Legacy(v) == [version |-> v, built |-> v, legacy |-> TRUE]
Rewound(v, b) == [version |-> v, built |-> b, legacy |-> FALSE]

\* Two processes launch, and crash, under the advisory lock.
Locked == INSTANCE Migrations WITH
    Processes <- {"a", "b"}, Backend <- "postgres", ListenNotify <- TRUE, Patient <- TRUE,
    Databases <- {At(0), Legacy(9), Rewound(21, 42), At(41), At(42)}, MaxCrashes <- 2,
    Nobody <- None

\* They do not wait for the lock.
Unlocked == INSTANCE Migrations WITH
    Processes <- {"a", "b"}, Backend <- "postgres", ListenNotify <- FALSE, Patient <- FALSE,
    Databases <- {At(35)}, MaxCrashes <- 1, Nobody <- None

\* CockroachDB, from the beginning.
Cockroach == INSTANCE Migrations WITH
    Processes <- {"a"}, Backend <- "cockroach", ListenNotify <- FALSE, Patient <- TRUE,
    Databases <- {At(0)}, MaxCrashes <- 2, Nobody <- None

\* SQLite, two processes.
Sqlite == INSTANCE Migrations WITH
    Processes <- {"a", "b"}, Backend <- "sqlite", ListenNotify <- FALSE, Patient <- TRUE,
    Databases <- {At(0), At(19), At(28)}, MaxCrashes <- 1, Nobody <- None

-----------------------------------------------------------------------------
(* Cron expressions.                                                       *)

Star == <<[t |-> "star"]>>
Any == <<[t |-> "any"]>>
LastDay == <<[t |-> "last"]>>
V(v) == <<[t |-> "at", v |-> v]>>
R(lo, hi, step) == <<[t |-> "range", lo |-> lo, hi |-> hi, step |-> step]>>
E(step) == <<[t |-> "every", step |-> step]>>
F(lo, step) == <<[t |-> "from", lo |-> lo, step |-> step]>>
Nth(lo, hi, n) == <<[t |-> "nth", lo |-> lo, hi |-> hi, n |-> n]>>
LastOf(v) == <<[t |-> "lastof", v |-> v]>>
X(lo, hi) == <<[t |-> "random", lo |-> lo, hi |-> hi]>>
XS(lo, hi, step) == <<[t |-> "randomstep", lo |-> lo, hi |-> hi, step |-> step]>>

\* Daily; weekdays; the 29th of February; the 31st; the last day; a day of the
\* month or of the week; Sunday as 7; Friday to Sunday; the first Tuesday;
\* the last Friday; the fifth Monday or Tuesday; steps; seconds; years; a date
\* that never comes; days of the week that mean all.
Exprs == {
    <<V(0), V(0), Star, Star, Star>>, <<V(30), V(9), Star, Star, R(1, 5, 1)>>,
    <<V(0), V(0), V(29), V(2), Star>>, <<V(0), V(0), V(31), Star, Star>>,
    <<V(0), V(0), LastDay, Star, Star>>, <<V(0), V(12), V(1) \o V(15), Star, V(1)>>,
    <<V(0), V(0), Any, Star, V(7)>>, <<V(0), V(0), Star, Star, R(5, 0, 1)>>,
    <<V(0), V(0), Star, Star, Nth(2, 2, 1)>>, <<V(0), V(0), Star, Star, LastOf(5)>>,
    <<V(0), V(0), Star, Star, Nth(1, 2, 5)>>, <<E(25), E(7), Star, V(2) \o V(4), Star>>,
    <<F(10, 20), V(22), V(30), F(6, 5), Star>>,
    <<V(15) \o V(45), V(0), V(0), V(1), V(1), Star>>,
    <<E(20), V(59), V(23), Star, Star, V(6)>>, <<V(0), V(0), V(0), V(0), Star, Star>>,
    <<V(0), V(0), V(0), V(1), V(1), Star, R(2027, 2029, 2)>>,
    <<V(0), V(0), V(30), V(2), Star>>, <<V(0), V(0), Star, Star, R(0, 6, 1)>>,
    <<V(0), V(0), V(15), Star, R(0, 6, 1)>>, <<V(0), V(0), R(28, 31, 1), Star, Star>>,
    <<V(5), V(4), R(20, 31, 5), R(1, 12, 4), R(1, 3, 2)>>,
    <<V(0), V(0), V(15) \o LastDay, Star, Star>>}

Randoms == {
    <<X(-1, 0), V(0), Star, Star, Star>>, <<X(10, 20), V(0), Star, Star, Star>>,
    <<XS(-1, 0, 15), V(0), Star, Star, Star>>, <<XS(0, 30, 20), V(0), Star, Star, Star>>}

\* Expressions that are refused.
Bads == {
    <<V(60), V(0), Star, Star, Star>>, <<V(0), V(0), Star, Star, V(1) \o Nth(2, 2, 1)>>,
    <<Any, V(0), Star, Star, Star>>, <<R(5, 1, 1), V(0), Star, Star, Star>>,
    <<R(1, 5, 0), V(0), Star, Star, Star>>, <<V(0), V(0), V(0), Star, Star>>,
    <<V(0), V(0), Star, Star>>, <<V(0), LastDay, Star, Star, Star>>,
    <<X(5, 5), Star, Star, Star, Star>>, <<V(0), V(0), Star, Star, Nth(2, 2, 6)>>,
    <<V(0), V(0), Any \o V(3), Star, V(1)>>, <<X(-1, 0) \o V(3), V(0), Star, Star, Star>>}

\* 2023-12-31 23:59:30, 2024-02-28, 2024-02-29, 2024-03-01, 2024-03-02 00:00:30
\* and 2026-07-15 12:34:56.
NewYear == [day |-> 19722, sec |-> 86370]
BeforeLeap == [day |-> 19781, sec |-> 0]
LeapDay == [day |-> 19782, sec |-> 0]
AfterLeap == [day |-> 19783, sec |-> 0]
HalfMinute == [day |-> 19784, sec |-> 30]
Summer == [day |-> 20649, sec |-> 45296]

Asks(e, op, a, b) == [expr |-> e, op |-> op, start |-> a, stop |-> b]
Queries ==
    {Asks(e, op, a, a) :
        e \in Exprs, op \in {"next", "prev"}, a \in {NewYear, BeforeLeap, AfterLeap, Summer}}
    \cup {Asks(e, "match", a, a) :
        e \in Exprs, a \in {BeforeLeap, AfterLeap, LeapDay, HalfMinute, Summer}}
    \cup {Asks(e, "range", a, [a EXCEPT !.day = @ + d]) :
        e \in Exprs, a \in {BeforeLeap, AfterLeap}, d \in {-35, 35}}
    \cup {Asks(e, "next", NewYear, NewYear) : e \in Randoms \cup Bads}

Clock == INSTANCE Cron WITH
    Requests <- Queries, Draws <- {0, 123456789}, MaxYears <- 8, MaxCalls <- 2

-----------------------------------------------------------------------------
(* The context.                                                            *)

Block(kind, given, v) == [kind |-> kind, given |-> given, v |-> v]
OptionBlocks == {
    Block("timeout", {}, 1), Block("timeout", {}, None), Block("attributes", {}, 1),
    Block("enqueue", {"dedup", "key"}, 1), Block("debounce", {}, 3)}

\* One thread nests blocks, calls and enqueues.
Nested == INSTANCE WorkflowContext WITH
    Main <- "main", Siblings <- {}, Pool <- {}, Ops <- {"set", "call", "start"},
    Blocks <- OptionBlocks, Ids <- {}, Users <- {}, Histories <- {{}},
    MaxDepth <- 3, MaxContexts <- 4, MaxRows <- 2, MaxTaken <- 4

\* Users and roles.
Identified == INSTANCE WorkflowContext WITH
    Main <- "main", Siblings <- {}, Pool <- {}, Ops <- {"auth", "role", "handler", "call", "step"},
    Blocks <- {}, Ids <- {}, Users <- {"u", "w"}, Histories <- {{}},
    MaxDepth <- 4, MaxContexts <- 4, MaxRows <- 2, MaxTaken <- 2

\* Workflows in a thread of the executor.
Pooled == INSTANCE WorkflowContext WITH
    Main <- "main", Siblings <- {}, Pool <- {"pool"}, Ops <- {"set", "id", "start"},
    Blocks <- {Block("timeout", {}, 1), Block("attributes", {}, 1)}, Ids <- {"x"}, Users <- {},
    Histories <- {{}}, MaxDepth <- 2, MaxContexts <- 4, MaxRows <- 2, MaxTaken <- 2

\* Steps, transactions and patches of one thread.
Ordered == INSTANCE WorkflowContext WITH
    Main <- "main", Siblings <- {}, Pool <- {}, Ops <- {"id", "call", "step", "plain", "tx", "patch"},
    Blocks <- {}, Ids <- {"x"}, Users <- {},
    Histories <- {{}, {<<<<"x">>, 1, "patch">>}, {<<<<"x">>, 2, "step">>}},
    MaxDepth <- 4, MaxContexts <- 4, MaxRows <- 1, MaxTaken <- 3

\* An asynchronous workflow and a task it creates.
Sharing == INSTANCE WorkflowContext WITH
    Main <- "main", Siblings <- {"a"}, Pool <- {},
    Ops <- {"id", "call", "step", "recv", "probe"}, Blocks <- {}, Ids <- {"x"}, Users <- {},
    Histories <- {{}, {<<<<"x">>, 1, "patch">>}, {<<<<"x">>, 1, "step">>}},
    MaxDepth <- 3, MaxContexts <- 4, MaxRows <- 1, MaxTaken <- 3

\* The same with transactions, in threads.
Transacting == INSTANCE WorkflowContext WITH
    Main <- "main", Siblings <- {"a"}, Pool <- {}, Ops <- {"call", "step", "plain", "tx"},
    Blocks <- {}, Ids <- {}, Users <- {}, Histories <- {{}},
    MaxDepth <- 2, MaxContexts <- 4, MaxRows <- 1, MaxTaken <- 3

ASSUME ScenarioAssumption ==
    /\ Locked!MigrationsAssumption /\ Unlocked!MigrationsAssumption
    /\ Cockroach!MigrationsAssumption /\ Sqlite!MigrationsAssumption
    /\ Clock!CronAssumption /\ KafkaAssumption
    /\ Nested!ContextAssumption /\ Identified!ContextAssumption /\ Pooled!ContextAssumption
    /\ Ordered!ContextAssumption /\ Sharing!ContextAssumption /\ Transacting!ContextAssumption

-----------------------------------------------------------------------------
schemaVars == <<objects, invalid, rows, holder, pc, last, done, seen, crashes>>
cronVars == <<req, fields, cur, leg, dst, since, first, got, phase>>
contextVars == <<heap, local, stack, pend, probe, started, taken, marks, free>>
vars == <<scenario, schemaVars, cronVars, kafkaVars, contextVars>>

NoSchema ==
    /\ objects = None /\ invalid = None /\ rows = None /\ holder = None /\ pc = None
    /\ last = None /\ done = None /\ seen = None /\ crashes = None
NoCron ==
    /\ req = None /\ fields = None /\ cur = None /\ leg = None /\ dst = None
    /\ since = None /\ first = None /\ got = None /\ phase = None
NoContext ==
    /\ heap = None /\ local = None /\ stack = None /\ pend = None /\ probe = None
    /\ started = None /\ taken = None /\ marks = None /\ free = None

Init ==
    \/ /\ NoCron /\ KafkaInit /\ NoContext
       /\ \/ scenario = "locked" /\ Locked!Init
          \/ scenario = "unlocked" /\ Unlocked!Init
          \/ scenario = "cockroach" /\ Cockroach!Init
          \/ scenario = "sqlite" /\ Sqlite!Init
    \/ NoSchema /\ KafkaInit /\ NoContext /\ scenario = "cron" /\ Clock!CronInit
    \/ NoSchema /\ NoCron /\ NoContext /\ scenario = "kafka" /\ KafkaInit
    \/ /\ NoSchema /\ NoCron /\ KafkaInit
       /\ \/ scenario = "nested" /\ Nested!Init
          \/ scenario = "identified" /\ Identified!Init
          \/ scenario = "pooled" /\ Pooled!Init
          \/ scenario = "ordered" /\ Ordered!Init
          \/ scenario = "sharing" /\ Sharing!Init

Next ==
    /\ UNCHANGED scenario
    /\ \/ /\ \/ scenario = "locked" /\ Locked!Next
             \/ scenario = "unlocked" /\ Unlocked!Next
             \/ scenario = "cockroach" /\ Cockroach!Next
             \/ scenario = "sqlite" /\ Sqlite!Next
          /\ UNCHANGED <<cronVars, kafkaVars, contextVars>>
       \/ /\ scenario = "cron" /\ Clock!CronNext
          /\ UNCHANGED <<schemaVars, kafkaVars, contextVars>>
       \/ /\ scenario = "kafka" /\ KafkaNext
          /\ UNCHANGED <<schemaVars, cronVars, contextVars>>
       \/ /\ \/ scenario = "nested" /\ Nested!Next
             \/ scenario = "identified" /\ Identified!Next
             \/ scenario = "pooled" /\ Pooled!Next
             \/ scenario = "ordered" /\ Ordered!Next
             \/ scenario = "sharing" /\ Sharing!Next
          /\ UNCHANGED <<schemaVars, cronVars, kafkaVars>>

\* A process that launches goes on, and so does the loop of a consumer; Kafka
\* assigns the partition.
Fairness ==
    /\ \A p \in {"a", "b"} :
          \/ []<>(scenario # "locked" \/ ~Locked!CanLaunch(p))
          \/ []<><<scenario = "locked" /\ Locked!Launched(p)>>_vars
    /\ \A c \in {"a", "b"} :
          WF_(kafkaVars)(scenario = "kafka" /\ Loop(c))

Spec == Init /\ [][Next]_vars /\ Fairness

\* The asynchronous workflow whose tasks run transactions, on its own.
TransactingSpec ==
    /\ NoSchema /\ NoCron /\ KafkaInit /\ scenario = "transacting" /\ Transacting!Init
    /\ [][Transacting!Next /\ UNCHANGED <<scenario, schemaVars, cronVars, kafkaVars>>]_vars

-----------------------------------------------------------------------------
(* Properties, stated in the modules and here for their scenarios.         *)

\* The type invariants of the modules: the migration lock is held between
\* lock and unlock, an expanded field of a cron expression is in its range,
\* the partition has a consumer that runs, and a task has a context that
\* exists.
TypeOK ==
    CASE scenario = "locked" -> Locked!TypeOK
      [] scenario = "unlocked" -> Unlocked!TypeOK
      [] scenario = "cockroach" -> Cockroach!TypeOK
      [] scenario = "sqlite" -> Sqlite!TypeOK
      [] scenario = "cron" -> Clock!CronTypeOK
      [] scenario = "kafka" -> KafkaTypeOK
      [] scenario = "nested" -> Nested!CtxTypeOK
      [] scenario = "identified" -> Identified!CtxTypeOK
      [] scenario = "pooled" -> Pooled!CtxTypeOK
      [] scenario = "ordered" -> Ordered!CtxTypeOK
      [] scenario = "sharing" -> Sharing!CtxTypeOK

\* A process that has launched finds every table, column, key and valid index
\* the code uses, whatever crashed before (run_migrations).
SchemaComplete ==
    /\ scenario = "locked" => Locked!SchemaComplete
    /\ scenario = "cockroach" => Cockroach!SchemaComplete
    /\ scenario = "sqlite" => Sqlite!SchemaComplete

\* The same of the tables and their columns, when processes migrate at the
\* same time because the lock was not to be had.
ColumnsComplete == scenario = "unlocked" => Unlocked!ColumnsComplete

\* No launch fails under the lock: a crash at any point leaves a database that
\* the next launch can migrate (run_dbos_migrations).
NoFailure ==
    /\ scenario = "locked" => Locked!NoFailure
    /\ scenario = "cockroach" => Cockroach!NoFailure

\* When the version is the latest, the database is what the migrations build
\* one after the other: no invalid index is left (_cleanup_invalid_indexes).
VersionTrue ==
    /\ scenario = "locked" => Locked!VersionTrue
    /\ scenario = "cockroach" => Cockroach!VersionTrue

\* dbos_migrations has one row, also when processes migrate at the same time
\* (_bump_migration_version).
OneVersion ==
    /\ scenario = "locked" => Locked!OneVersion
    /\ scenario = "unlocked" => Unlocked!OneVersion
    /\ scenario = "cockroach" => Cockroach!OneVersion
    /\ scenario = "sqlite" => Sqlite!OneVersion

\* A process that launches is done, or fails, however many crash: the lock does
\* not stay with one that has ended (run_migrations).
Launches ==
    \A p \in {"a", "b"} :
        LET launching == scenario = "locked" /\ Locked!Launching(p) IN launching ~> ~launching

\* Every time an iterator returns matches its expression (_calc).
Sound == scenario = "cron" => Clock!Sound

\* An iterator skips no time that matches, in either direction (_get_next).
NoneSkipped == scenario = "cron" => Clock!NoneSkipped

\* CroniterBadDateError is raised only when nothing matches within
\* max_years_between_matches (_calc).
GivesUpRightly == scenario = "cron" => Clock!GivesUpRightly

\* match tells whether the expression matches the time (match_range).
MatchAgrees == scenario = "cron" => Clock!MatchAgrees

\* croniter_range yields the times from one end to the other, the ends
\* included, in either direction.
RangeComplete == scenario = "cron" => Clock!RangeComplete

\* The search never turns back, so that it is over when the years are, also
\* for an expression that never matches (_calc).
SearchProgresses == [][scenario = "cron" => Clock!SearchProgresses]_vars

\* Every message gets its workflow, unless the consumers are closed for good
\* (_kafka_consumer_loop).
MessagesEnqueued ==
    LET waiting == scenario = "kafka" /\ Waiting IN waiting ~> ~waiting

\* Every operation of a workflow has a function ID of its own, and they are
\* consecutive, whichever task takes them (create_start_workflow_child,
\* snapshot_step_ctx, patch_async).
PositionsDistinct ==
    /\ scenario = "nested" => Nested!PositionsDistinct
    /\ scenario = "identified" => Identified!PositionsDistinct
    /\ scenario = "pooled" => Pooled!PositionsDistinct
    /\ scenario = "ordered" => Ordered!PositionsDistinct
    /\ scenario = "sharing" => Sharing!PositionsDistinct

\* No two workflows are started with the same ID (assign_workflow_id).
IdsDistinct ==
    /\ scenario = "nested" => Nested!IdsDistinct
    /\ scenario = "identified" => Identified!IdsDistinct
    /\ scenario = "pooled" => Pooled!IdsDistinct

\* The block a task is in finds the context it left: what the assertions of
\* the __exit__ methods say.
ExitsFind ==
    /\ scenario = "nested" => Nested!ExitsFind
    /\ scenario = "identified" => Identified!ExitsFind
    /\ scenario = "pooled" => Pooled!ExitsFind
    /\ scenario = "ordered" => Ordered!ExitsFind
    /\ scenario = "sharing" => Sharing!ExitsFind

\* A step that runs as a plain function was called from a step or from a
\* transaction (the wrapper of decorate_step).
StepsRunAsSteps ==
    /\ scenario = "ordered" => Ordered!StepsRunAsSteps
    /\ scenario = "sharing" => Sharing!StepsRunAsSteps

\* The position patch_async has reserved is still without a checkpoint when
\* its marker is written.
MarkerHeld == scenario = "sharing" => Sharing!MarkerHeld

\* A block that ends leaves the context it found, with the options, user,
\* role, workflow and step of before (the __exit__ methods).
BlocksRestore ==
    [][ /\ scenario = "nested" => Nested!BlocksRestore
        /\ scenario = "identified" => Identified!BlocksRestore
        /\ scenario = "pooled" => Pooled!BlocksRestore
        /\ scenario = "ordered" => Ordered!BlocksRestore
        /\ scenario = "sharing" => Sharing!BlocksRestore ]_vars

\* A workflow is started with the options, the user and the role of the blocks
\* around the call, and inherits only the deadline, the user and the role of
\* the workflow that starts it (start_workflow, EnterDBOSWorkflow).
StartedAsMeant ==
    [][ /\ scenario = "nested" => Nested!StartedAsMeant
        /\ scenario = "identified" => Identified!StartedAsMeant
        /\ scenario = "pooled" => Pooled!StartedAsMeant ]_vars

\* "If the step is called from a workflow, run it as a step" (_core.py,
\* the wrapper of decorate_step), while another task of the workflow is in a
\* transaction.
StepsOfTasksRunAsSteps == scenario = "transacting" => Transacting!StepsRunAsSteps
-----------------------------------------------------------------------------
(* What the runs check.                                                    *)

\* However processes that migrate at once interleave and crash, a launch does
\* not fail under the lock and finds the schema complete, at one version that
\* says what the database is (run_migrations, run_dbos_migrations).
SchemaRight ==
    TypeOK /\ SchemaComplete /\ ColumnsComplete /\ NoFailure /\ VersionTrue /\ OneVersion

\* The iterator of a cron expression yields exactly the times that match it,
\* in both directions, and gives up only when there are none (_calc,
\* match_range, croniter_range).
CronExact ==
    /\ [](Sound /\ NoneSkipped /\ GivesUpRightly /\ MatchAgrees /\ RangeComplete)
    /\ SearchProgresses

\* Every operation and every workflow has an ID of its own, the one its patch
\* marker or its checkpoint was looked up under, and a step of a workflow is
\* one (DBOSContext, patch_async, decorate_step).
IdsKept == PositionsDistinct /\ IdsDistinct /\ MarkerHeld /\ StepsRunAsSteps

\* A workflow is started with the options, user and role of the blocks around
\* it, and every block finds the context it entered and leaves the one it found
\* (the __enter__ and __exit__ methods, start_workflow).
ContextsKept == []ExitsFind /\ BlocksRestore /\ StartedAsMeant

\* Launches end although others crash in the middle of theirs, and messages get
\* their workflows as long as there are consumers (run_migrations,
\* _kafka_consumer_loop).
FoundationsProgress == Launches /\ MessagesEnqueued
=============================================================================

---------------------------- MODULE SystemSchema ----------------------------
(***************************************************************************)
(* The schema of the system database: what the code reads and writes       *)
(* (_schemas/system_database.py), and the migrations that build it         *)
(* (_migration.py), as data.                                               *)
(*                                                                         *)
(* A database is the set of the objects it holds. An object is a pair: a   *)
(* column is <<table, column>>, everything else is its kind and its name.  *)
(* A migration is a sequence of statements. Types, defaults, foreign keys  *)
(* and the bodies of the functions are left out.                           *)
(***************************************************************************)
EXTENDS Naturals, Sequences, SequencesExt

Columns(t, cs) == {<<t, c>> : c \in cs}
Table(t, cs) == {<<"table", t>>} \cup Columns(t, cs)
Index(n) == {<<"index", n>>}
Partial(n) == {<<"index", n>>, <<"partial", n>>}
Function(f) == {<<"function", f>>}
SearchPath(f) == {<<"search_path", f>>}

\* CREATE fails when the object exists, CREATE ... IF NOT EXISTS does nothing
\* then, CREATE OR REPLACE replaces it, DROP ... IF EXISTS removes it.
Create(os, needs) == [kind |-> "create", objects |-> os, needs |-> needs]
Ensure(os, needs) == [kind |-> "ensure", objects |-> os, needs |-> needs]
Replace(os, needs) == [kind |-> "replace", objects |-> os, needs |-> needs]
Drop(os) == [kind |-> "drop", objects |-> os, needs |-> {}]

CreateTable(t, cs) == Create(Table(t, cs), {})
AddColumns(t, cs) == Create(Columns(t, cs), {<<"table", t>>})
EnsureColumn(t, c) == Ensure(Columns(t, {c}), {<<"table", t>>})
CreateIndex(n, t, cs) == Create(Index(n), Columns(t, cs))

\* The index of the online migrations: of workflow_status, and partial.
EnsurePartial(n, cs) == Ensure(Partial(n), Columns("workflow_status", cs))
DropIndex(n) == Drop(Partial(n))

Exists(s, db) == s.objects \cap db # {}
Fails(s, db) ==
    /\ ~(s.kind = "ensure" /\ Exists(s, db))
    /\ s.needs \subseteq db => s.kind = "create" /\ Exists(s, db)
Effect(s, db) ==
    CASE s.kind = "drop" -> db \ s.objects
      [] s.kind = "ensure" /\ Exists(s, db) -> db
      [] OTHER -> db \cup s.objects

\* The statements of a transaction, up to the first that fails.
Execute(statements, database) ==
    LET run[i \in 0..Len(statements)] ==
            IF i = 0 THEN [ok |-> TRUE, db |-> database]
            ELSE LET r == run[i - 1] IN
                 IF ~r.ok \/ Fails(statements[i], r.db) THEN [r EXCEPT !.ok = FALSE]
                 ELSE [r EXCEPT !.db = Effect(statements[i], @)]
    IN  run[Len(statements)]

-----------------------------------------------------------------------------
(* The tables and indexes the code uses.                                   *)

WorkflowStatusTable ==
    Table("workflow_status",
          {"workflow_uuid", "status", "name", "authenticated_user", "assumed_role",
           "authenticated_roles", "output", "error", "executor_id", "created_at", "updated_at",
           "application_version", "application_id", "class_name", "config_name",
           "recovery_attempts", "queue_name", "workflow_timeout_ms",
           "workflow_deadline_epoch_ms", "started_at_epoch_ms", "deduplication_id", "inputs",
           "priority", "queue_partition_key", "forked_from", "was_forked_from", "owner_xid",
           "parent_workflow_id", "serialization", "delay_until_epoch_ms", "rate_limited",
           "completed_at", "attributes", "schedule_name", "debounce_deadline_epoch_ms",
           "is_debounced"})

WorkflowStatusIndexes ==
    Index("workflow_status_created_at_index") \cup
    UNION {Partial(n) : n \in
        {"idx_workflow_status_delayed", "idx_workflow_status_pending",
         "idx_workflow_status_failed", "idx_workflow_status_in_flight",
         "idx_workflow_status_rate_limited", "idx_workflow_status_completed_at",
         "idx_workflow_status_started_at", "idx_workflow_status_schedule_name",
         "uq_workflow_status_dedup_id"}}

\* Postgres only.
AttributesIndex == Partial("idx_workflow_status_attributes")

MessageTables ==
    Table("operation_outputs",
          {"workflow_uuid", "function_id", "function_name", "output", "error",
           "child_workflow_id", "started_at_epoch_ms", "completed_at_epoch_ms",
           "serialization"})
    \cup Index("idx_operation_outputs_completed_at_function_name")
    \cup Table("notifications",
               {"destination_uuid", "topic", "message", "created_at_epoch_ms", "message_uuid",
                "serialization", "consumed"})
    \cup {<<"key", "notifications">>}
    \cup Index("idx_workflow_topic")
    \cup Table("workflow_events", {"workflow_uuid", "key", "value", "serialization"})
    \cup Table("workflow_events_history",
               {"workflow_uuid", "key", "value", "function_id", "serialization"})
    \cup Table("streams",
               {"workflow_uuid", "key", "value", "offset", "function_id", "serialization"})

RegistryTables ==
    Table("workflow_schedules",
          {"schedule_id", "schedule_name", "workflow_name", "workflow_class_name", "schedule",
           "status", "context", "last_fired_at", "automatic_backfill", "cron_timezone",
           "queue_name"})
    \cup Table("application_versions",
               {"version_id", "version_name", "version_timestamp", "created_at"})
    \cup Table("queues",
               {"queue_id", "name", "concurrency", "worker_concurrency", "rate_limit_max",
                "rate_limit_period_sec", "priority_enabled", "partition_queue",
                "polling_interval_sec", "created_at", "updated_at"})

UsedTables == WorkflowStatusTable \cup MessageTables \cup RegistryTables \cup WorkflowStatusIndexes
UsedColumns == {o \in UsedTables : o[1] \notin {"index", "partial", "key"}}

-----------------------------------------------------------------------------
(* The migrations of SQLite, in the order of sqlite_migrations.            *)

SqliteMigrationOne ==
    << CreateTable("workflow_status",
           {"workflow_uuid", "status", "name", "authenticated_user", "assumed_role",
            "authenticated_roles", "request", "output", "error", "executor_id", "created_at",
            "updated_at", "application_version", "application_id", "class_name", "config_name",
            "recovery_attempts", "queue_name", "workflow_timeout_ms",
            "workflow_deadline_epoch_ms", "inputs", "started_at_epoch_ms", "deduplication_id",
            "priority"}),
       CreateIndex("workflow_status_created_at_index", "workflow_status", {"created_at"}),
       CreateIndex("workflow_status_executor_id_index", "workflow_status", {"executor_id"}),
       CreateIndex("workflow_status_status_index", "workflow_status", {"status"}),
       CreateIndex("uq_workflow_status_queue_name_dedup_id", "workflow_status",
                   {"queue_name", "deduplication_id"}),
       CreateTable("operation_outputs",
           {"workflow_uuid", "function_id", "function_name", "output", "error",
            "child_workflow_id"}),
       Create(Table("notifications",
                    {"message_uuid", "destination_uuid", "topic", "message",
                     "created_at_epoch_ms"})
              \cup {<<"key", "notifications">>}, {}),
       CreateIndex("idx_workflow_topic", "notifications", {"destination_uuid", "topic"}),
       CreateTable("workflow_events", {"workflow_uuid", "key", "value"}),
       CreateTable("streams", {"workflow_uuid", "key", "value", "offset"}) >>

Serialized ==
    <<"workflow_status", "notifications", "workflow_events", "workflow_events_history",
      "operation_outputs", "streams">>

\* Two to nine, which Postgres has as well.
MigrationsTwoToNine ==
    << <<AddColumns("workflow_status", {"queue_partition_key"})>>,
       <<CreateIndex("idx_workflow_status_queue_status_started", "workflow_status",
                     {"queue_name", "status", "started_at_epoch_ms"})>>,
       <<AddColumns("workflow_status", {"forked_from"}),
         CreateIndex("idx_workflow_status_forked_from", "workflow_status", {"forked_from"})>>,
       <<AddColumns("operation_outputs", {"started_at_epoch_ms", "completed_at_epoch_ms"})>>,
       <<CreateTable("workflow_events_history", {"workflow_uuid", "function_id", "key", "value"}),
         AddColumns("streams", {"function_id"})>>,
       <<AddColumns("workflow_status", {"owner_xid"})>>,
       <<AddColumns("workflow_status", {"parent_workflow_id"}),
         CreateIndex("idx_workflow_status_parent_workflow_id", "workflow_status",
                     {"parent_workflow_id"})>>,
       <<CreateTable("workflow_schedules",
             {"schedule_id", "schedule_name", "workflow_name", "workflow_class_name",
              "schedule", "status", "context"})>> >>

\* Eleven to thirteen.
MigrationsElevenOn ==
    << [i \in 1..Len(Serialized) |-> AddColumns(Serialized[i], {"serialization"})],
       <<AddColumns("notifications", {"consumed"}),
         CreateIndex("idx_notifications", "notifications", {"destination_uuid", "topic"})>>,
       <<CreateTable("application_versions",
             {"version_id", "version_name", "version_timestamp", "created_at"})>> >>

\* Fifteen to nineteen.
MigrationsFifteenOn ==
    << <<AddColumns("workflow_schedules", {"last_fired_at"}),
         AddColumns("workflow_schedules", {"automatic_backfill"}),
         AddColumns("workflow_schedules", {"cron_timezone"})>>,
       <<AddColumns("workflow_status", {"delay_until_epoch_ms"}),
         Create(Partial("idx_workflow_status_delayed"),
                Columns("workflow_status", {"delay_until_epoch_ms", "status"}))>>,
       <<AddColumns("workflow_schedules", {"queue_name"})>>,
       <<AddColumns("workflow_status", {"was_forked_from"})>>,
       <<CreateIndex("idx_operation_outputs_completed_at_function_name", "operation_outputs",
                     {"completed_at_epoch_ms", "function_name"})>> >>

\* Twenty-one: the table of the queues.
MigrationTwentyOne ==
    <<CreateTable("queues",
          {"queue_id", "name", "concurrency", "worker_concurrency", "rate_limit_max",
           "rate_limit_period_sec", "priority_enabled", "partition_queue",
           "polling_interval_sec", "created_at", "updated_at"})>>

\* Twenty-two to thirty-two rework the indexes of workflow_status.
MigrationsTwentyTwoOn ==
    << <<DropIndex("idx_workflow_status_forked_from")>>,
       <<EnsurePartial("idx_workflow_status_forked_from", {"forked_from"})>>,
       <<DropIndex("idx_workflow_status_parent_workflow_id")>>,
       <<EnsurePartial("idx_workflow_status_parent_workflow_id", {"parent_workflow_id"})>>,
       <<DropIndex("workflow_status_executor_id_index")>>,
       <<EnsurePartial("uq_workflow_status_dedup_id", {"queue_name", "deduplication_id"})>>,
       <<DropIndex("uq_workflow_status_queue_name_dedup_id")>>,
       <<EnsurePartial("idx_workflow_status_pending", {"created_at", "status"})>>,
       <<EnsurePartial("idx_workflow_status_failed", {"status", "created_at"})>>,
       <<DropIndex("workflow_status_status_index")>>,
       <<EnsurePartial("idx_workflow_status_in_flight",
                       {"queue_name", "status", "priority", "created_at"})>> >>

\* Thirty-four and thirty-five, and thirty-seven.
MigrationsThirtyFourOn ==
    << <<EnsurePartial("idx_workflow_status_rate_limited",
                       {"queue_name", "started_at_epoch_ms", "rate_limited"})>>,
       <<DropIndex("idx_workflow_status_queue_status_started")>> >>
MigrationThirtySeven ==
    <<EnsurePartial("idx_workflow_status_started_at", {"started_at_epoch_ms"})>>

\* The rest, with ADD COLUMN for ADD COLUMN IF NOT EXISTS.
SqliteMigrationThirtyThree == <<AddColumns("workflow_status", {"rate_limited"})>>
SqliteMigrationThirtySix ==
    <<AddColumns("workflow_status", {"completed_at"}),
      EnsurePartial("idx_workflow_status_completed_at", {"completed_at"})>>
SqliteMigrationsFortyOn ==
    << <<AddColumns("workflow_status", {"attributes"})>>,
       <<AddColumns("workflow_status", {"schedule_name"}),
         EnsurePartial("idx_workflow_status_schedule_name", {"schedule_name"})>>,
       <<AddColumns("workflow_status", {"debounce_deadline_epoch_ms"}),
         AddColumns("workflow_status", {"is_debounced"})>> >>

\* These have the same statements in both databases. Ten, fourteen, twenty,
\* thirty-eight and thirty-nine have no SQLite version.
SqliteMigrationsTwoOn == MigrationsTwoToNine \o MigrationsElevenOn
SqliteMigrationsFifteenOn == MigrationsFifteenOn \o <<MigrationTwentyOne>>
SqliteMigrationsTwentyTwoOn == MigrationsTwentyTwoOn

SqliteMigrations ==
    <<SqliteMigrationOne>> \o SqliteMigrationsTwoOn \o SqliteMigrationsFifteenOn
    \o SqliteMigrationsTwentyTwoOn \o <<SqliteMigrationThirtyThree>>
    \o MigrationsThirtyFourOn \o <<SqliteMigrationThirtySix, MigrationThirtySeven>>
    \o SqliteMigrationsFortyOn

-----------------------------------------------------------------------------
(* The migrations of Postgres and CockroachDB.                             *)

Trigger(f, t, n) ==
    << Replace(Function(f), {}),
       Create({<<"trigger", n>>}, {<<"table", t>>, <<"function", f>>}) >>

\* The unique key of the deduplication IDs is a constraint here.
MigrationOne(listen) ==
    SqliteMigrationOne
    \o <<CreateTable("event_dispatch_kv",
             {"service_name", "workflow_fn_name", "key", "value", "update_seq", "update_time"})>>
    \o (IF listen THEN Trigger("notifications_function", "notifications",
                               "dbos_notifications_trigger")
                       \o Trigger("workflow_events_function", "workflow_events",
                                  "dbos_workflow_events_trigger")
        ELSE <<>>)

MigrationTen ==
    <<Create({<<"key", "notifications">>}, Columns("notifications", {"message_uuid"}))>>

\* enqueue_workflow with its thirteen parameters, and send_message.
MigrationFourteen ==
    << Create(Function("enqueue_workflow/13"), {}), Create(Function("send_message"), {}) >>

MigrationTwenty(listen, cockroach) ==
    IF cockroach THEN <<>>
    ELSE << Replace(SearchPath("enqueue_workflow/13"), Function("enqueue_workflow/13")),
            Replace(SearchPath("send_message"), Function("send_message")) >>
         \o (IF listen
             THEN << Replace(SearchPath("notifications_function"),
                             Function("notifications_function")),
                     Replace(SearchPath("workflow_events_function"),
                             Function("workflow_events_function")) >>
             ELSE <<>>)

MigrationThirtyThree == <<EnsureColumn("workflow_status", "rate_limited")>>
MigrationThirtySix ==
    <<EnsureColumn("workflow_status", "completed_at"),
      EnsurePartial("idx_workflow_status_completed_at", {"completed_at"})>>

\* enqueue_workflow with its sixteen parameters.
MigrationThirtyEight(cockroach) ==
    << Drop(Function("enqueue_workflow/13") \cup SearchPath("enqueue_workflow/13")),
       Replace(Function("enqueue_workflow/16"), {}) >>
    \o (IF cockroach THEN <<>>
        ELSE <<Replace(SearchPath("enqueue_workflow/16"), Function("enqueue_workflow/16"))>>)

MigrationThirtyNine(listen) ==
    IF ~listen THEN <<>>
    ELSE << Replace(Function("streams_function"), {}),
            Replace(SearchPath("streams_function"), Function("streams_function")),
            Drop({<<"trigger", "dbos_streams_trigger">>}),
            Create({<<"trigger", "dbos_streams_trigger">>},
                   {<<"table", "streams">>, <<"function", "streams_function">>}) >>

MigrationsFortyOn ==
    << <<EnsureColumn("workflow_status", "attributes"),
         EnsurePartial("idx_workflow_status_attributes", {"attributes"})>>,
       <<EnsureColumn("workflow_status", "schedule_name"),
         EnsurePartial("idx_workflow_status_schedule_name", {"schedule_name"})>>,
       <<EnsureColumn("workflow_status", "debounce_deadline_epoch_ms"),
         EnsureColumn("workflow_status", "is_debounced")>> >>

PostgresMigrations(listen, cockroach) ==
    <<MigrationOne(listen)>> \o MigrationsTwoToNine \o <<MigrationTen>> \o MigrationsElevenOn
    \o <<MigrationFourteen>> \o MigrationsFifteenOn
    \o <<MigrationTwenty(listen, cockroach), MigrationTwentyOne>> \o MigrationsTwentyTwoOn
    \o <<MigrationThirtyThree>> \o MigrationsThirtyFourOn
    \o <<MigrationThirtySix, MigrationThirtySeven, MigrationThirtyEight(cockroach),
         MigrationThirtyNine(listen)>>
    \o MigrationsFortyOn

\* The migrations with CONCURRENTLY, one statement each, which run outside of
\* a transaction.
OnlineMigrations == {22, 23, 24, 25, 26, 27, 29, 30, 31, 32, 34, 35, 37}

\* The objects after the first n migrations, run one after the other: what they
\* created and did not drop after that.
Built(list, n) ==
    LET all == FlattenSeq(SubSeq(list, 1, n))
        dropped(o, i) == \E j \in i + 1..Len(all) : all[j].kind = "drop" /\ o \in all[j].objects
    IN  UNION {{o \in all[i].objects : ~dropped(o, i)} :
                    i \in {k \in 1..Len(all) : all[k].kind # "drop"}}
=============================================================================

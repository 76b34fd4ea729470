----------------------------- MODULE Migrations -----------------------------
(***************************************************************************)
(* Launching processes migrate the system database (run_migrations). On    *)
(* Postgres they take an advisory lock first, but go on without it after   *)
(* half a minute; each migration is a transaction that also writes the     *)
(* version, except the online ones: their index statement takes effect in  *)
(* two steps, outside of a transaction, and the version is written after   *)
(* it. On SQLite every statement takes effect at once until the version is *)
(* written for the first time, which opens the transaction the remaining   *)
(* migrations run in.                                                      *)
(*                                                                         *)
(* A process that crashes, or whose connection does, launches again.       *)
(***************************************************************************)
EXTENDS SystemSchema, FiniteSets

CONSTANTS
    Processes,      \* the processes that launch
    Backend,        \* "postgres", "cockroach" or "sqlite"
    ListenNotify,   \* use_listen_notify
    Patient,        \* nobody holds the lock for MIGRATION_LOCK_TIMEOUT_SEC
    Databases,      \* how far the database was migrated: [version, built, legacy]
    MaxCrashes,     \* bound on the crashes
    Nobody

List == IF Backend = "sqlite" THEN SqliteMigrations
        ELSE PostgresMigrations(ListenNotify, Backend = "cockroach")
Latest == Len(List)

\* The table of the versions, and its schema.
VersionTable == {<<"schema", "dbos">>, <<"table", "dbos_migrations">>}

MigrationsAssumption ==
    /\ Backend \in {"postgres", "cockroach", "sqlite"}
    /\ ListenNotify \in BOOLEAN /\ Patient \in BOOLEAN /\ MaxCrashes \in Nat
    /\ Nobody \notin Processes
    /\ \A d \in Databases : d.version \in 0..Latest /\ d.built \in d.version..Latest

VARIABLES
    objects,    \* what the database holds, the invalid indexes included
    invalid,    \* the names of the indexes that are not valid
    rows,       \* the rows of dbos_migrations
    holder,     \* who holds the advisory lock, or the write lock of SQLite
    pc,         \* where each process is
    last,       \* last_applied of each process
    done,       \* SQLite: the statements of the first migration it has run
    seen,       \* what each process read and acts on later, or has not committed
    crashes

vars == <<objects, invalid, rows, holder, pc, last, done, seen, crashes>>

Valid == {o \in objects : o[2] \notin invalid}

\* The key of notifications, which an early version of migration one forgot.
Key == {<<"key", "notifications">>}

\* A database that DBOS has not seen, or that an earlier version left behind;
\* one whose version was set back has more than its version says.
Init ==
    /\ \E d \in Databases :
          /\ objects = IF d.built = 0 THEN {}
                       ELSE VersionTable \cup (Built(List, d.built)
                                               \ (IF d.legacy THEN Key ELSE {}))
          /\ rows = IF d.version = 0 THEN {} ELSE {d.version}
    /\ invalid = {}
    /\ holder = Nobody
    /\ pc = [p \in Processes |-> IF Backend = "sqlite" THEN "look" ELSE "check"]
    /\ last = [p \in Processes |-> 0]
    /\ done = [p \in Processes |-> 0]
    /\ seen = [p \in Processes |-> {}]
    /\ crashes = 0

Goto(p, l) == pc' = [pc EXCEPT ![p] = l]
Unlock(p) == holder' = IF holder = p THEN Nobody ELSE holder

\* fetchone on dbos_migrations, 0 when it has no row.
Version == IF rows = {} THEN {0} ELSE rows

\* The exception leaves run_migrations, which releases the lock.
Fail(p) ==
    /\ Goto(p, "failed")
    /\ Unlock(p)
    /\ seen' = [seen EXCEPT ![p] = {}]
    /\ UNCHANGED <<objects, invalid, rows, last, done, crashes>>

-----------------------------------------------------------------------------
(* Postgres and CockroachDB.                                               *)

\* should_migrate.
Behind == \E v \in Version : v < Latest

Check(p) ==
    /\ pc[p] = "check"
    /\ Goto(p, IF ~(VersionTable \subseteq objects) \/ Behind THEN "lock" ELSE "done")
    /\ UNCHANGED <<objects, invalid, rows, holder, last, done, seen, crashes>>

TryLock(p) ==
    /\ pc[p] = "lock"
    /\ \/ holder = Nobody /\ holder' = p
       \/ ~Patient /\ UNCHANGED holder
    /\ Goto(p, "ensure")
    /\ UNCHANGED <<objects, invalid, rows, last, done, seen, crashes>>

\* The lock is tried again after a second.
RetryLock(p) ==
    /\ pc[p] = "lock" /\ holder # Nobody
    /\ UNCHANGED vars

\* ensure_dbos_schema: what is missing, and then its creation. A process that
\* has created it since makes the statement fail.
Look(p) ==
    /\ pc[p] = "ensure"
    /\ Goto(p, "create")
    /\ seen' = [seen EXCEPT ![p] = VersionTable \ objects]
    /\ UNCHANGED <<objects, invalid, rows, holder, last, done, crashes>>

EnsureSchema(p) ==
    /\ pc[p] = "create"
    /\ IF seen[p] \cap objects # {} THEN Fail(p)
       ELSE /\ objects' = objects \cup seen[p]
            /\ seen' = [seen EXCEPT ![p] = {}]
            /\ Goto(p, "read")
            /\ UNCHANGED <<invalid, rows, holder, last, done, crashes>>

ReadVersion(p) ==
    /\ pc[p] = "read"
    /\ \E v \in Version : last' = [last EXCEPT ![p] = v]
    /\ Goto(p, "apply")
    /\ UNCHANGED <<objects, invalid, rows, holder, done, seen, crashes>>

Number(p) == last[p] + 1
Online(p) == Number(p) \in OnlineMigrations /\ Backend = "postgres"

\* An index statement that is under way keeps the table from being altered.
Altering == \E p \in Processes : pc[p] \in {"building", "dropping"}

\* INSERT the first version, UPDATE it from then on. The version is the key of
\* the table.
WriteVersion(p) ==
    rows' = IF last[p] = 0 THEN rows \cup {Number(p)}
            ELSE IF rows = {} THEN {} ELSE {Number(p)}
VersionClashes(p) ==
    IF last[p] = 0 THEN Number(p) \in rows ELSE Cardinality(rows) > 1

\* A migration that needs no transaction of its own writes its version.
Bump(p) ==
    /\ \/ pc[p] = "bump"
       \/ pc[p] = "apply" /\ Number(p) <= Latest /\ List[Number(p)] = <<>>
    /\ IF VersionClashes(p) THEN Fail(p)
       ELSE /\ WriteVersion(p)
            /\ last' = [last EXCEPT ![p] = Number(p)]
            /\ Goto(p, "apply")
            /\ UNCHANGED <<objects, invalid, holder, done, seen, crashes>>

\* Ten is skipped where the table has its key already.
Statements(p, db) == IF Number(p) = 10 /\ Key \subseteq db THEN <<>> ELSE List[Number(p)]

\* Mutant: the migration commits before its version is written.
TransactionApart(p) ==
    /\ pc[p] = "apply" /\ Number(p) <= Latest /\ List[Number(p)] # <<>> /\ ~Online(p)
    /\ ~Altering
    /\ LET r == Execute(Statements(p, objects), objects)
       IN  IF ~r.ok THEN Fail(p)
           ELSE /\ objects' = r.db
                /\ Goto(p, "bump")
                /\ UNCHANGED <<invalid, rows, holder, last, done, seen, crashes>>

Transaction(p) ==
    /\ pc[p] = "apply" /\ Number(p) <= Latest /\ List[Number(p)] # <<>> /\ ~Online(p)
    /\ ~Altering
    /\ LET r == Execute(Statements(p, objects), objects)
       IN  IF ~r.ok \/ VersionClashes(p) THEN Fail(p)
           ELSE /\ objects' = r.db
                /\ WriteVersion(p)
                /\ last' = [last EXCEPT ![p] = Number(p)]
                /\ UNCHANGED <<invalid, holder, pc, done, seen, crashes>>

\* _cleanup_invalid_indexes lists them, and drops them one after the other.
ListInvalid(p) ==
    /\ pc[p] = "apply" /\ Number(p) <= Latest /\ Online(p)
    /\ seen' = [seen EXCEPT ![p] = invalid]
    /\ Goto(p, "cleanup")
    /\ UNCHANGED <<objects, invalid, rows, holder, last, done, crashes>>

DropInvalid(p) ==
    /\ pc[p] = "cleanup" /\ ~Altering
    /\ \E n \in seen[p] :
          /\ objects' = objects \ Partial(n)
          /\ invalid' = invalid \ {n}
          /\ seen' = [seen EXCEPT ![p] = @ \ {n}]
    /\ UNCHANGED <<rows, holder, pc, last, done, crashes>>

\* The index is there, but not valid, until the statement has finished.
Statement(p) == List[Number(p)][1]
IndexName(p) == (CHOOSE o \in Statement(p).objects : o[1] = "index")[2]

StartOnline(p) ==
    /\ pc[p] = "cleanup" /\ seen[p] = {} /\ ~Altering
    /\ IF Fails(Statement(p), objects) THEN Fail(p)
       ELSE /\ \/ /\ Statement(p).kind = "ensure" /\ ~Exists(Statement(p), objects)
                  /\ objects' = objects \cup Statement(p).objects
                  /\ invalid' = invalid \cup {IndexName(p)}
                  /\ Goto(p, "building")
               \/ /\ Statement(p).kind = "drop" /\ Exists(Statement(p), objects)
                  /\ invalid' = invalid \cup {IndexName(p)}
                  /\ Goto(p, "dropping")
                  /\ UNCHANGED objects
               \/ /\ (Statement(p).kind = "drop") = ~Exists(Statement(p), objects)
                  /\ Goto(p, "bump")
                  /\ UNCHANGED <<objects, invalid>>
            /\ UNCHANGED <<rows, holder, last, done, seen, crashes>>

FinishOnline(p) ==
    /\ pc[p] \in {"building", "dropping"}
    /\ objects' = IF pc[p] = "dropping" THEN objects \ Statement(p).objects ELSE objects
    /\ invalid' = invalid \ {IndexName(p)}
    /\ Goto(p, "bump")
    /\ UNCHANGED <<rows, holder, last, done, seen, crashes>>

\* Mutant: the lock is not released.
KeepLock(p) ==
    /\ pc[p] = "apply" /\ Number(p) > Latest
    /\ Goto(p, "done")
    /\ UNCHANGED <<objects, invalid, rows, holder, last, done, seen, crashes>>

\* The migrations are done, and the lock is released.
Finish(p) ==
    /\ pc[p] = "apply" /\ Number(p) > Latest
    /\ Unlock(p)
    /\ Goto(p, "done")
    /\ UNCHANGED <<objects, invalid, rows, last, done, seen, crashes>>

-----------------------------------------------------------------------------
(* SQLite.                                                                 *)

SqliteLook(p) ==
    /\ pc[p] = "look"
    /\ IF VersionTable \subseteq objects
       THEN /\ \E v \in Version : last' = [last EXCEPT ![p] = v]
            /\ Goto(p, "statement")
       ELSE /\ last' = [last EXCEPT ![p] = 0]
            /\ Goto(p, "table")
    /\ UNCHANGED <<objects, invalid, rows, holder, done, seen, crashes>>

SqliteTable(p) ==
    /\ pc[p] = "table" /\ holder = Nobody
    /\ IF VersionTable \subseteq objects THEN Fail(p)
       ELSE /\ objects' = objects \cup VersionTable
            /\ Goto(p, "statement")
            /\ UNCHANGED <<invalid, rows, holder, last, done, seen, crashes>>

\* A statement of the first pending migration, before there is a transaction.
SqliteStatement(p) ==
    /\ pc[p] = "statement" /\ Number(p) <= Latest /\ done[p] < Len(List[Number(p)])
    /\ holder = Nobody
    /\ LET s == List[Number(p)][done[p] + 1]
       IN  IF Fails(s, objects) THEN Fail(p)
           ELSE /\ objects' = Effect(s, objects)
                /\ done' = [done EXCEPT ![p] = @ + 1]
                /\ UNCHANGED <<invalid, rows, holder, pc, last, seen, crashes>>

\* Its version opens the transaction, which keeps the other writers out, and
\* the other migrations follow in it.
SqliteVersion(p) ==
    /\ pc[p] = "statement" /\ Number(p) <= Latest /\ done[p] = Len(List[Number(p)])
    /\ holder = Nobody
    /\ IF VersionClashes(p) THEN Fail(p)
       ELSE /\ holder' = p
            /\ last' = [last EXCEPT ![p] = Number(p)]
            /\ seen' = [seen EXCEPT ![p] = objects]
            /\ Goto(p, "transaction")
            /\ UNCHANGED <<objects, invalid, rows, done, crashes>>

SqliteMigrate(p) ==
    /\ pc[p] = "transaction" /\ Number(p) <= Latest
    /\ LET r == Execute(List[Number(p)], seen[p])
       IN  IF ~r.ok THEN Fail(p)
           ELSE /\ seen' = [seen EXCEPT ![p] = r.db]
                /\ last' = [last EXCEPT ![p] = Number(p)]
                /\ UNCHANGED <<objects, invalid, rows, holder, pc, done, crashes>>

SqliteCommit(p) ==
    /\ pc[p] = "transaction" /\ Number(p) > Latest
    /\ objects' = seen[p]
    /\ rows' = {Latest}
    /\ seen' = [seen EXCEPT ![p] = {}]
    /\ Unlock(p)
    /\ Goto(p, "done")
    /\ UNCHANGED <<invalid, last, done, crashes>>

SqliteNothing(p) ==
    /\ pc[p] = "statement" /\ Number(p) > Latest
    /\ Goto(p, "done")
    /\ UNCHANGED <<objects, invalid, rows, holder, last, done, seen, crashes>>

-----------------------------------------------------------------------------
Ended(p) == pc[p] \in {"done", "failed"}

\* The connection of the lock is gone with the process.
Crash(p) ==
    /\ ~Ended(p) /\ crashes < MaxCrashes
    /\ Goto(p, IF Backend = "sqlite" THEN "look" ELSE "check")
    /\ Unlock(p)
    /\ last' = [last EXCEPT ![p] = 0]
    /\ done' = [done EXCEPT ![p] = 0]
    /\ seen' = [seen EXCEPT ![p] = {}]
    /\ crashes' = crashes + 1
    /\ UNCHANGED <<objects, invalid, rows>>

Launch(p) ==
    \/ Check(p) \/ TryLock(p) \/ Look(p) \/ EnsureSchema(p) \/ ReadVersion(p)
    \/ Bump(p) \/ Transaction(p) \/ ListInvalid(p) \/ DropInvalid(p)
    \/ StartOnline(p) \/ FinishOnline(p) \/ Finish(p)
    \/ SqliteLook(p) \/ SqliteTable(p) \/ SqliteStatement(p)
    \/ SqliteVersion(p) \/ SqliteMigrate(p) \/ SqliteCommit(p) \/ SqliteNothing(p)

AllEnded == (\A p \in Processes : Ended(p)) /\ UNCHANGED vars

Next == (\E p \in Processes : Launch(p) \/ RetryLock(p) \/ Crash(p)) \/ AllEnded

Spec == Init /\ [][Next]_vars

\* Fairness of Launch(p) under the lock, for the model checker: when Launch(p) is
\* enabled, and that a step is one.
CanLaunch(p) == ~Ended(p) /\ (pc[p] = "lock" => holder = Nobody)
Launched(p) ==
    /\ <<pc'[p], last'[p], seen'[p]>> # <<pc[p], last[p], seen[p]>>
    /\ crashes' = crashes
-----------------------------------------------------------------------------
(* Properties.                                                             *)

\* The type invariant: the lock is held by a process between lock and unlock.
TypeOK ==
    /\ rows \subseteq 1..Latest
    /\ invalid \subseteq {o[2] : o \in {x \in objects : x[1] = "index"}}
    /\ holder \in Processes \cup {Nobody}
    /\ \A p \in Processes :
          /\ last[p] \in 0..Latest
          /\ holder = p => ~Ended(p) /\ pc[p] \notin {"check", "lock", "look"}

\* A process that has launched finds every table, column, key and valid index
\* the code uses, whatever crashed before (run_migrations).
SchemaComplete ==
    (\E p \in Processes : pc[p] = "done") =>
        UsedTables \cup (IF Backend = "sqlite" THEN {} ELSE AttributesIndex) \subseteq Valid

\* The same of the tables and their columns, when processes migrate at the
\* same time.
ColumnsComplete == (\E p \in Processes : pc[p] = "done") => UsedColumns \subseteq objects

\* No launch fails: a crash at any point leaves a database that the next
\* launch can migrate (_cleanup_invalid_indexes, run_dbos_migrations).
NoFailure == \A p \in Processes : pc[p] # "failed"

\* The version is the database's: when it is the latest, the database is what
\* the migrations build one after the other (_bump_migration_version).
VersionTrue ==
    rows = {Latest} /\ (\A p \in Processes : pc[p] \in {"check", "lock", "done"})
        => Valid = VersionTable \cup Built(List, Latest)

\* dbos_migrations has one row (WriteVersion).
OneVersion == Cardinality(rows) <= 1

\* A process that launches; it ends, unless it crashes.
Launching(p) == ~Ended(p)
=============================================================================

--------------------------- MODULE WorkflowExport ---------------------------
(***************************************************************************)
(* A workflow and its descendants are exported from one system database    *)
(* and imported into another, where recovery may go on executing them. The *)
(* descendants are listed first, one transaction per level; then one       *)
(* transaction reads the tables of each workflow, one statement per table. *)
(* The workflows may be running meanwhile. Under READ COMMITTED every      *)
(* statement sees what is committed when it begins; the immediate          *)
(* transactions of SQLite keep other writers out.                          *)
(***************************************************************************)
EXTENDS Naturals, Sequences, FiniteSets, FiniteSetsExt, Relation

CONSTANTS
    Workflows,
    Root,           \* the workflow that is exported
    Program,        \* what the operations of each do: "step", "event",
                    \* "stream", or the workflow they start and await
    WhenComplete,   \* only a workflow that is complete is exported
    Collects,       \* complete workflows may be garbage collected
    Exclusive,      \* transactions exclude each other (SQLite)
    None

ExportAssumption ==
    /\ Root \in Workflows /\ DOMAIN Program = Workflows
    /\ None \notin Nat /\ {WhenComplete, Collects, Exclusive} \subseteq BOOLEAN

VARIABLES
    source, target, \* the two databases: the rows of each workflow
    pc,             \* what export_workflow is doing
    ids, frontier,  \* the workflows still to read, the last level listed
    pkg             \* what was exported, by workflow

vars == <<source, target, pc, ids, frontier, pkg>>

Absent == [status |-> "none", ops |-> {}, hist |-> {}, event |-> None, stream |-> {}]
Fresh == [Absent EXCEPT !.status = "PENDING"]

Ops(w) == DOMAIN Program[w]
Started(w, i) == {c \in Workflows : Program[w][i] = c}
Present(db) == {w \in Workflows : db[w] # Absent}

Init ==
    /\ source = [w \in Workflows |-> IF w = Root THEN Fresh ELSE Absent]
    /\ target = [w \in Workflows |-> Absent]
    /\ pc = "idle" /\ ids = {} /\ frontier = {} /\ pkg = [w \in Workflows |-> Absent]

-----------------------------------------------------------------------------
(***************************************************************************)
(* Execution, on either database: operations in order, each one transaction*)
(* with its checkpoint, but that the row of a child is inserted before it  *)
(* is recorded. What follows a child awaits it.                            *)
(***************************************************************************)

Recorded(rows, w, i) ==
    LET what == Program[w][i]
    IN  [rows EXCEPT
            !.ops = @ \cup {i},
            !.hist = IF what = "event" THEN @ \cup {i} ELSE @,
            !.event = IF what = "event" THEN i ELSE @,
            !.stream = IF what = "stream"
                       THEN @ \cup {[fid |-> i, offset |-> IF @ = {} THEN 0
                                     ELSE Max({e.offset : e \in @}) + 1]}
                       ELSE @]

Runnable(db, w) ==
    /\ db[w].status = "PENDING"
    /\ \A i \in db[w].ops : \A c \in Started(w, i) : db[c].status = "SUCCESS"

After(db, w) ==
    LET todo == Ops(w) \ db[w].ops
        i == Min(todo)
        new == {c \in Started(w, i) : db[c] = Absent}
    IN  IF todo = {} THEN [db EXCEPT ![w].status = "SUCCESS"]
        ELSE IF new # {} THEN [c \in Workflows |-> IF c \in new THEN Fresh ELSE db[c]]
        ELSE [db EXCEPT ![w] = Recorded(@, w, i)]

Reading ==
    \/ pc \in {"ops", "events", "history", "streams"}
    \/ pc = "status" /\ Present(pkg) # {}

SourceRuns(w) ==
    /\ Runnable(source, w) /\ (Exclusive => ~Reading)
    /\ source' = After(source, w)
    /\ UNCHANGED <<target, pc, ids, frontier, pkg>>

TargetRuns(w) ==
    /\ Runnable(target, w)
    /\ target' = After(target, w)
    /\ UNCHANGED <<source, pc, ids, frontier, pkg>>

\* (WorkflowTree has what becomes of a parent whose child is collected.)
Collect(w) ==
    /\ Collects /\ source[Root].status # "PENDING" /\ source[w].status = "SUCCESS"
    /\ (Exclusive => ~Reading)
    /\ source' = [source EXCEPT ![w] = Absent]
    /\ UNCHANGED <<target, pc, ids, frontier, pkg>>

-----------------------------------------------------------------------------
(***************************************************************************)
(* export_workflow.                                                        *)
(***************************************************************************)
Export ==
    /\ pc = "idle" /\ (WhenComplete => source[Root].status # "PENDING")
    /\ pc' = "list" /\ ids' = {Root} /\ frontier' = {Root}
    /\ UNCHANGED <<source, target, pkg>>

\* By parent_workflow_id: a workflow is started by its parent only.
ChildrenIn(db, S) == {c \in Present(db) : \E w \in S : \E i \in Ops(w) : c \in Started(w, i)}

\* One level of descendants.
ListLevel ==
    LET found == ChildrenIn(source, frontier) \ ids
    IN  /\ pc = "list"
        /\ ids' = ids \cup found /\ frontier' = found
        /\ pc' = IF found = {} THEN "status" ELSE "list"
        /\ UNCHANGED <<source, target, pkg>>

\* The workflow read next: the one exported, then the others in any order.
Turn(w) == w \in ids /\ (Root \in ids => w = Root)

ReadStatus(w) ==
    /\ pc = "status" /\ Turn(w)
    /\ IF source[w] = Absent THEN pc' = "failed" /\ UNCHANGED pkg
       ELSE pc' = "ops" /\ pkg' = [pkg EXCEPT ![w].status = source[w].status]
    /\ UNCHANGED <<source, target, ids, frontier>>

ReadOps(w) ==
    /\ pc = "ops" /\ Turn(w) /\ pkg[w].status # "none" /\ pc' = "events"
    /\ pkg' = [pkg EXCEPT ![w].ops = source[w].ops]
    /\ UNCHANGED <<source, target, ids, frontier>>

ReadEvents(w) ==
    /\ pc = "events" /\ Turn(w) /\ pkg[w].status # "none" /\ pc' = "history"
    /\ pkg' = [pkg EXCEPT ![w].event = source[w].event]
    /\ UNCHANGED <<source, target, ids, frontier>>

ReadHistory(w) ==
    /\ pc = "history" /\ Turn(w) /\ pkg[w].status # "none" /\ pc' = "streams"
    /\ pkg' = [pkg EXCEPT ![w].hist = source[w].hist]
    /\ UNCHANGED <<source, target, ids, frontier>>

ReadStreams(w) ==
    /\ pc = "streams" /\ Turn(w) /\ pkg[w].status # "none"
    /\ pkg' = [pkg EXCEPT ![w].stream = source[w].stream]
    /\ ids' = ids \ {w} /\ pc' = IF ids = {w} THEN "exported" ELSE "status"
    /\ UNCHANGED <<source, target, frontier>>

\* import_workflow is one transaction. Rows that exist conflict with those
\* it inserts: then it changes nothing.
Import ==
    /\ pc = "exported"
    /\ target' = IF Present(pkg) \cap Present(target) # {} THEN target
                 ELSE [w \in Workflows |-> IF pkg[w] # Absent THEN pkg[w] ELSE target[w]]
    /\ UNCHANGED <<source, pc, ids, frontier, pkg>>

Failed == pc = "failed" /\ UNCHANGED vars

-----------------------------------------------------------------------------
Next ==
    \/ \E w \in Workflows :
          \/ SourceRuns(w) \/ TargetRuns(w) \/ Collect(w)
          \/ ReadStatus(w) \/ ReadOps(w) \/ ReadEvents(w) \/ ReadHistory(w) \/ ReadStreams(w)
    \/ Export \/ ListLevel \/ Import \/ Failed

Spec == Init /\ [][Next]_vars

-----------------------------------------------------------------------------
(***************************************************************************)
(* Properties.                                                             *)
(***************************************************************************)
TypeOK ==
    /\ \A db \in {source, target, pkg}, w \in Workflows :
          /\ db[w].status \in {"none", "PENDING", "SUCCESS"}
          /\ db[w].ops \subseteq Ops(w) /\ db[w].hist \subseteq Ops(w)
          /\ db[w].event \in Ops(w) \cup {None}
          /\ \A e \in db[w].stream : e.fid \in Ops(w) /\ e.offset \in Nat
    /\ pc \in {"idle", "list", "status", "exported", "failed"} \/ Reading
    /\ ids \subseteq Workflows /\ frontier \subseteq Workflows

\* A complete workflow is imported as it was, with all of its descendants
\* that were not collected, nor cut off from it because one between them was.
\* (Every persisted field round-trips faithfully.)
RoundTrip ==
    LET child == [u, v \in Workflows |-> u \in Present(source) /\ v \in ChildrenIn(source, {u})]
        descends == ReflexiveTransitiveClosure(child, Workflows)
    IN  target[Root] # Absent /\ source[Root] # Absent =>
            \A w \in Workflows : descends[Root, w] => target[w] = source[w]

\* The streams of an imported workflow have one entry for each recorded
\* write, in order: execution that goes on there repeats and skips none.
StreamAsExecuted ==
    \A w \in Workflows :
        LET writes == {i \in target[w].ops : Program[w][i] = "stream"}
        IN  /\ {e.fid : e \in target[w].stream} = writes
            /\ \A e \in target[w].stream : e.offset = Cardinality({i \in writes : i < e.fid})

\* The event of an imported workflow is the one its last recorded set_event
\* set, and its history has those recorded.
EventAsExecuted ==
    \A w \in Workflows :
        LET sets == {i \in target[w].ops : Program[w][i] = "event"}
        IN  /\ target[w].event = (IF sets = {} THEN None ELSE Max(sets))
            /\ target[w].hist = sets

\* What the target database has recorded is never lost: importing again
\* conflicts and changes nothing.
ProgressKept ==
    \A w \in Workflows : /\ target[w].ops \subseteq target'[w].ops
                         /\ target[w].status = "SUCCESS" => target'[w].status = "SUCCESS"

\* The exported workflow is in the target database and not complete there.
Incomplete == target[Root].status = "PENDING"
=============================================================================

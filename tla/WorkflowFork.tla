---------------------------- MODULE WorkflowFork ----------------------------
(***************************************************************************)
(* A workflow is forked from a step: its checkpoints, the history of its   *)
(* events, the events and the entries of its streams that come from        *)
(* earlier steps are copied, and the fork is executed, replaying what was  *)
(* copied. The copying is one transaction of several statements, and the   *)
(* original may be running meanwhile. Under READ COMMITTED (PostgreSQL)    *)
(* every statement sees what is committed when it begins; the immediate    *)
(* transactions of SQLite keep other writers out.                          *)
(***************************************************************************)
EXTENDS Naturals, Sequences, FiniteSets, FiniteSetsExt

CONSTANTS
    Program,        \* what the steps do: "step", "event" or "stream"
    Failing,        \* the steps that are recorded with an error
    Starts,         \* the steps that callers of fork_workflow may name
    Modes,          \* how the step may be chosen: "named", "failure", "last"
    Concurrent,     \* the original runs its steps concurrently
    Exclusive,      \* transactions exclude each other (SQLite)
    None

Steps == DOMAIN Program
Events == {i \in Steps : Program[i] = "event"}
Streams == {i \in Steps : Program[i] = "stream"}

ForkAssumption ==
    /\ \A i \in Steps : Program[i] \in {"step", "event", "stream"}
    /\ Failing \subseteq Steps /\ Starts \subseteq Nat
    /\ Modes \subseteq {"named", "failure", "last"}
    /\ Concurrent \in BOOLEAN /\ Exclusive \in BOOLEAN /\ None \notin Steps

VARIABLES
    orig, fork,     \* the rows of each: the recorded steps, the history of
                    \* the event, its value (the step that set it), and the
                    \* entries of the stream with their offsets
    pc,             \* what fork_workflow is doing, then the fork's execution
    start,          \* the step to start from
    at              \* the step the fork is at

vars == <<orig, fork, pc, start, at>>

NoRows == [ops |-> {}, hist |-> {}, event |-> None, stream |-> {}]

Init ==
    /\ orig = NoRows /\ fork = NoRows
    /\ pc = "idle" /\ start = None /\ at = 1

Copying == pc \in {"copy ops", "copy history", "copy event", "copy stream"}

\* The rows after step i: what it did and its checkpoint are one transaction.
Done(rows, i) ==
    [ops |-> rows.ops \cup {i},
     hist |-> IF i \in Events THEN rows.hist \cup {i} ELSE rows.hist,
     event |-> IF i \in Events THEN i ELSE rows.event,
     stream |-> IF i \in Streams
                THEN rows.stream \cup {[fid |-> i, offset |->
                        IF rows.stream = {} THEN 0
                        ELSE Max({e.offset : e \in rows.stream}) + 1]}
                ELSE rows.stream]

OriginalStep(i) ==
    /\ i \notin orig.ops
    /\ Concurrent \/ 1..(i - 1) \subseteq orig.ops
    /\ Exclusive => ~Copying
    /\ orig' = Done(orig, i)
    /\ UNCHANGED <<fork, pc, start, at>>

\* fork_from_failure reads the step to start from in a transaction of its
\* own: the last one that failed, or else the last one.
LastFailure ==
    IF orig.ops \cap Failing # {} THEN Max(orig.ops \cap Failing) ELSE Max(orig.ops)

ChooseStep ==
    /\ pc = "idle"
    /\ \/ "named" \in Modes /\ \E k \in Starts : start' = k
       \/ "failure" \in Modes /\ orig.ops # {} /\ start' = LastFailure
       \/ "last" \in Modes /\ orig.ops # {} /\ start' = Max(orig.ops)
    /\ pc' = "insert"
    /\ UNCHANGED <<orig, fork, at>>

\* The fork's row is inserted. There is nothing to copy before step 1.
InsertFork ==
    /\ pc = "insert"
    /\ pc' = IF start > 1 THEN "copy ops" ELSE "run"
    /\ UNCHANGED <<orig, fork, start, at>>

Copy(from, rows, to) ==
    /\ pc = from /\ pc' = to
    /\ fork' = rows
    /\ UNCHANGED <<orig, start, at>>

CopyOps ==
    Copy("copy ops", [fork EXCEPT !.ops = {i \in orig.ops : i < start}], "copy history")

CopyHistory ==
    Copy("copy history", [fork EXCEPT !.hist = {i \in orig.hist : i < start}], "copy event")

\* Mutant: the event as it is now, not as it was at the step.
EventOfOriginal ==
    Copy("copy event", [fork EXCEPT !.event = orig.event], "copy stream")

\* The latest version by function ID, of the history of the original.
CopyEvent ==
    LET old == {i \in orig.hist : i < start}
    IN  Copy("copy event", [fork EXCEPT !.event = IF old = {} THEN None ELSE Max(old)],
             "copy stream")

CopyStream ==
    Copy("copy stream", [fork EXCEPT !.stream = {e \in orig.stream : e.fid < start}], "run")

\* The fork is executed: a recorded step is replayed, any other is run.
ForkStep ==
    /\ pc = "run"
    /\ fork' = IF at \in fork.ops THEN fork ELSE Done(fork, at)
    /\ at' = at + 1
    /\ pc' = IF at = Len(Program) THEN "end" ELSE "run"
    /\ UNCHANGED <<orig, start>>

Finished == pc = "end" /\ orig.ops = Steps /\ UNCHANGED vars

Next ==
    \/ \E i \in Steps : OriginalStep(i)
    \/ ChooseStep \/ InsertFork
    \/ CopyOps \/ CopyHistory \/ CopyEvent \/ CopyStream
    \/ ForkStep \/ Finished

Spec == Init /\ [][Next]_vars

-----------------------------------------------------------------------------

\* Type invariant. Only steps that set events or write streams leave them.
TypeOK ==
    /\ \A rows \in {orig, fork} :
          /\ rows.ops \subseteq Steps /\ rows.hist \subseteq Events
          /\ rows.event \in Events \cup {None}
          /\ \A e \in rows.stream : e.fid \in Streams /\ e.offset \in Nat
    /\ pc \in {"idle", "insert", "run", "end"} \/ Copying
    /\ start \in Nat \cup {None} /\ at \in 1..Len(Program) + 1

\* A fork executes the step it starts from and all later ones: none of them
\* is replayed. (fork_workflow)
StartsAtStep == pc = "run" /\ at <= start => \A i \in fork.ops : i < start

\* The event of a fork is the one set by the last of the steps it has
\* checkpoints of, as if it had executed them all itself. (fork_workflow and
\* the replay of set_event)
EventAsExecuted ==
    pc \in {"run", "end"} =>
        LET set == fork.ops \cap Events
        IN  fork.event = (IF set = {} THEN None ELSE Max(set)) /\ fork.hist = set

\* The stream of a fork has one entry for every step it has checkpoints of
\* that wrote one, in their order and without a gap, as if it had executed
\* them all itself. (fork_workflow and the replay of write_stream)
StreamAsExecuted ==
    pc \in {"run", "end"} =>
        /\ {e.fid : e \in fork.stream} = fork.ops \cap Streams
        /\ \A e \in fork.stream :
              e.offset = Cardinality({i \in fork.ops \cap Streams : i < e.fid})
=============================================================================

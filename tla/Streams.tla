------------------------------- MODULE Streams -------------------------------
(***************************************************************************)
(* One stream of a workflow: the executions of the workflow that write to  *)
(* it, from workflow code or from inside steps, and the readers that       *)
(* follow it to its end. The workflow may be executed again after a crash  *)
(* or twice at once, and it may be cancelled while it writes.              *)
(***************************************************************************)
EXTENDS Naturals, Sequences, FiniteSets, SequencesExt

CONSTANTS
    Executions,
    Program,        \* what the workflow does: "write", "step" (which writes) or "close"
    Readers,
    MayCancel,      \* the workflow may be cancelled
    MaxCrashes,     \* bound: crashes of an execution
    MaxLost,        \* bound: lost answers to commits
    None

Ops == DOMAIN Program

StreamsAssumption ==
    /\ \A i \in Ops : Program[i] \in {"write", "step", "close"}
    /\ MayCancel \in BOOLEAN /\ MaxCrashes \in Nat /\ MaxLost \in Nat

VARIABLES
    status,     \* of the workflow
    stream,     \* the rows of the stream: the operation that wrote each offset
    recorded,   \* operations with a recorded output
    exec,       \* execution -> where it is
    reader,     \* reader -> where it is
    crashes, lost

vars == <<status, stream, recorded, exec, reader, crashes, lost>>

Start == [op |-> 1, pc |-> "next", off |-> None]
NewReader == [pc |-> "read", off |-> 1, got |-> <<>>, final |-> FALSE]

Init ==
    /\ status = "PENDING" /\ stream = <<>> /\ recorded = {}
    /\ exec = [x \in Executions |-> Start]
    /\ reader = [r \in Readers |-> NewReader]
    /\ crashes = 0 /\ lost = 0

Active(s) == s = "PENDING"

Goto(x, pc) == exec' = [exec EXCEPT ![x].pc = pc]
Advance(x) == exec' = [exec EXCEPT ![x] = [Start EXCEPT !.op = exec[x].op + 1]]
Kind(x) == Program[exec[x].op]
Running(x) == exec[x].op \in Ops

(***************************************************************************)
(* write_stream and close_stream from the workflow: one transaction checks *)
(* that the operation is not recorded and the workflow not cancelled,      *)
(* inserts at the first unused offset and records the operation.           *)
(***************************************************************************)
\* check_operation_execution, of a write in its transaction and of a step
\* before its body.
Check(x) ==
    /\ Running(x) /\ exec[x].pc = "next"
    /\ \/ status = "CANCELLED" /\ Goto(x, "stopped")
       \/ status # "CANCELLED" /\ exec[x].op \in recorded /\ Advance(x)
       \/ /\ status # "CANCELLED" /\ exec[x].op \notin recorded
          /\ Goto(x, IF Kind(x) = "step" THEN "body" ELSE "insert")
    /\ UNCHANGED <<status, stream, recorded, reader, crashes, lost>>

\* INSERT ... SELECT max(offset) + 1.
NextOffset == Len(stream) + 1

Insert(x) ==
    /\ exec[x].pc \in {"insert", "body"}
    /\ exec' = [exec EXCEPT ![x].off = NextOffset,
                            ![x].pc = IF @ = "body" THEN "stepcommit" ELSE "commit"]
    /\ UNCHANGED <<status, stream, recorded, reader, crashes, lost>>

\* The offset was taken by a commit since: an integrity error, and the write
\* is tried again from the start of its loop.
OffsetTaken(x) == Len(stream) >= exec[x].off

Appended(x) == [n \in 1..(IF exec[x].off > Len(stream) THEN exec[x].off ELSE Len(stream)) |->
                   IF n = exec[x].off THEN exec[x].op ELSE stream[n]]

Commit(x) ==
    /\ exec[x].pc = "commit"
    /\ \/ /\ OffsetTaken(x)
          /\ Goto(x, "next")
          /\ UNCHANGED <<stream, recorded, lost>>
       \/ /\ ~OffsetTaken(x) /\ exec[x].op \notin recorded
          /\ stream' = Appended(x)
          /\ recorded' = recorded \cup {exec[x].op}
          /\ \/ Advance(x) /\ UNCHANGED lost
             \/ lost < MaxLost /\ lost' = lost + 1 /\ Goto(x, "next")
       \/ /\ ~OffsetTaken(x) /\ exec[x].op \in recorded
          /\ Goto(x, "stopped")
          /\ UNCHANGED <<stream, recorded, lost>>
    /\ UNCHANGED <<status, reader, crashes>>

(***************************************************************************)
(* write_stream from a step: a transaction of its own, without a check;    *)
(* the step is recorded when its body has returned.                        *)
(***************************************************************************)
StepCommit(x) ==
    /\ exec[x].pc = "stepcommit"
    /\ IF OffsetTaken(x)
       THEN Goto(x, "body") /\ UNCHANGED stream
       ELSE stream' = Appended(x) /\ Goto(x, "record")
    /\ UNCHANGED <<status, recorded, reader, crashes, lost>>

RecordStep(x) ==
    /\ exec[x].pc = "record"
    /\ IF exec[x].op \in recorded
       THEN Goto(x, "stopped") /\ UNCHANGED recorded
       ELSE recorded' = recorded \cup {exec[x].op} /\ Advance(x)
    /\ UNCHANGED <<status, stream, reader, crashes, lost>>

\* The workflow function returns; update_workflow_outcome spares a cancelled one.
Return(x) ==
    /\ exec[x].op = Len(Program) + 1 /\ exec[x].pc = "next"
    /\ status' = IF status = "PENDING" THEN "SUCCESS" ELSE status
    /\ Goto(x, "stopped")
    /\ UNCHANGED <<stream, recorded, reader, crashes, lost>>

Cancel ==
    /\ MayCancel /\ status = "PENDING" /\ status' = "CANCELLED"
    /\ UNCHANGED <<stream, recorded, exec, reader, crashes, lost>>

\* An execution dies; a pending workflow is executed again.
Crash(x) ==
    /\ status = "PENDING" /\ crashes < MaxCrashes /\ crashes' = crashes + 1
    /\ exec' = [exec EXCEPT ![x] = Start]
    /\ UNCHANGED <<status, stream, recorded, reader, lost>>

Write(x) ==
    \/ Check(x) \/ Insert(x) \/ Commit(x) \/ StepCommit(x) \/ RecordStep(x) \/ Return(x)

(***************************************************************************)
(* read_stream. Its wait is bounded by the polling interval, so that it    *)
(* may end at any time, with a notification or without.                    *)
(***************************************************************************)
Read(r) ==
    LET me == reader[r] IN
    /\ me.pc = "read"
    /\ reader' = [reader EXCEPT ![r] =
           IF me.off <= Len(stream)
           THEN IF Program[stream[me.off]] = "close"
                THEN [me EXCEPT !.pc = "done"]
                ELSE [me EXCEPT !.got = Append(@, stream[me.off]), !.off = @ + 1]
           ELSE [me EXCEPT !.pc = IF me.final THEN "done" ELSE "status"]]
    /\ UNCHANGED <<status, stream, recorded, exec, crashes, lost>>

\* Mutant: the reader does not read once more after the workflow has ended.
StatusNoFinal(r) ==
    /\ reader[r].pc = "status"
    /\ reader' = [reader EXCEPT ![r].pc = IF Active(status) THEN "wait" ELSE "done"]
    /\ UNCHANGED <<status, stream, recorded, exec, crashes, lost>>

\* A workflow that is done has written everything: one last read to the end.
Status(r) ==
    /\ reader[r].pc = "status"
    /\ reader' = [reader EXCEPT ![r].pc = IF Active(status) THEN "wait" ELSE "read",
                                ![r].final = ~Active(status)]
    /\ UNCHANGED <<status, stream, recorded, exec, crashes, lost>>

Wait(r) ==
    /\ reader[r].pc = "wait"
    /\ reader' = [reader EXCEPT ![r].pc = "read"]
    /\ UNCHANGED <<status, stream, recorded, exec, crashes, lost>>

Follow(r) == Read(r) \/ Status(r) \/ Wait(r)

Finished ==
    /\ \A x \in Executions : exec[x].pc = "stopped"
    /\ \A r \in Readers : reader[r].pc = "done"
    /\ UNCHANGED vars

Next ==
    \/ \E x \in Executions : Write(x) \/ Crash(x)
    \/ \E r \in Readers : Follow(r)
    \/ Cancel \/ Finished

Spec == Init /\ [][Next]_vars

(***************************************************************************)
(* Properties                                                              *)
(***************************************************************************)
TypeOK ==
    /\ status \in {"PENDING", "SUCCESS", "CANCELLED"}
    /\ stream \in Seq(Ops) /\ recorded \subseteq Ops
    /\ \A x \in Executions : exec[x].op \in 1..(Len(Program) + 1)
    /\ \A r \in Readers : reader[r].got \in Seq(Ops)

\* What the workflow itself writes is in the stream exactly once, when and
\* only when its operation is recorded: crashes, retried transactions and
\* concurrent executions included.
WrittenOnce ==
    \A i \in Ops :
        Program[i] # "step" =>
            Cardinality({n \in DOMAIN stream : stream[n] = i}) =
                IF i \in recorded THEN 1 ELSE 0

\* The stream keeps the order of the workflow's own writes.
KeepsOrder ==
    \A m, n \in DOMAIN stream :
        m < n /\ Program[stream[m]] # "step" /\ Program[stream[n]] # "step"
        => stream[m] < stream[n]

\* The stream up to its end mark.
Contents ==
    IF \E n \in DOMAIN stream : Program[stream[n]] = "close"
    THEN SubSeq(stream, 1, SelectInSeq(stream, LAMBDA i : Program[i] = "close") - 1)
    ELSE stream

\* A reader that has stopped has yielded the whole stream, and the stream
\* does not grow behind it: when read_stream sees that the workflow is done
\* all its writes are committed.
ReadsAll ==
    \A r \in Readers : reader[r].pc = "done" => reader[r].got = Contents

Reading(r) == reader[r].pc # "done"
=============================================================================

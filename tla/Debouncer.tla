----------------------------- MODULE Debouncer -----------------------------
(***************************************************************************)
(* Debounced workflows: calls with the same key, within a period of each   *)
(* other, share one delayed workflow that runs with the input of the last  *)
(* of them. Callers run at once, some of them inside workflows that crash  *)
(* and are executed again from their recorded steps.                       *)
(***************************************************************************)
EXTENDS Integers, Sequences, FiniteSets

CONSTANTS
    Callers,        \* calls of debounce with one debounce key; a call is its input
    Inside,         \* the calls made inside a workflow
    Clients,        \* the calls made with a DebouncerClient
    Name,           \* caller -> the workflow it debounces
    Id,             \* caller -> the id a workflow it enqueues has
    Plain,          \* a workflow enqueued, not debounced, with the same key
    Period, Timeout,    \* of the debouncer; no timeout if 0
    MaxTime,        \* bound: the clock
    MaxCrashes,     \* bound: crashes of calling workflows
    MaxLost,        \* bound: lost answers to commits
    MaxOps,         \* bound: cancellations, resumptions and changes of a delay
    None

Ids == {Id[c] : c \in Callers} \cup {Plain}

DebouncerAssumption ==
    /\ Inside \subseteq Callers /\ Clients \subseteq Callers \ Inside
    /\ DOMAIN Name = Callers /\ DOMAIN Id = Callers
    /\ Plain \notin {Id[c] : c \in Callers}
    /\ Period \in Nat /\ Timeout \in Nat /\ MaxTime \in Nat
    /\ MaxCrashes \in Nat /\ MaxLost \in Nat /\ MaxOps \in Nat

VARIABLES
    wf,         \* the rows of workflow_status
    call,       \* caller -> where it is in debounce
    rec,        \* caller in a workflow -> the results of its recorded steps
    now,
    applied,    \* history: caller and workflow, when the workflow took its input
    crashes, lost, ops

vars == <<wf, call, rec, now, applied, crashes, lost, ops>>

Absent == [st |-> "ABSENT", name |-> None, debounced |-> FALSE, key |-> FALSE,
           delay |-> 0, deadline |-> None, input |-> None, at |-> 0]

Start == [pc |-> "ready", t |-> 0, pos |-> 0, res |-> None]

Init ==
    /\ wf = [w \in Ids |-> Absent]
    /\ call = [c \in Callers |-> Start]
    /\ rec = [c \in Callers |-> <<>>]
    /\ now = 0 /\ applied = {} /\ crashes = 0 /\ lost = 0 /\ ops = 0

Cap(deadline, t) == IF deadline # None /\ deadline < t THEN deadline ELSE t

Held == {w \in Ids : wf[w].key}

Recorded(c) == c \in Inside /\ call[c].pos < Len(rec[c])

\* What debounce does with the result of a bounce.
Classify(c, r) ==
    LET k == [call[c] EXCEPT !.pos = IF c \in Inside THEN @ + 1 ELSE @] IN
    CASE r = "unheld" -> [k EXCEPT !.pc = "enqueue", !.t = now]
      [] r = "raise"  -> [k EXCEPT !.pc = "raised"]
      [] r = "retry"  -> [k EXCEPT !.pc = "ready"]
      [] OTHER        -> [k EXCEPT !.pc = "done", !.res = r]

\* The top of the loop: the result of a recorded bounce, or a new one.
Loop(c) ==
    /\ call[c].pc = "ready"
    /\ call' = [call EXCEPT ![c] =
           IF Recorded(c) THEN Classify(c, rec[c][call[c].pos + 1])
                          ELSE [@ EXCEPT !.pc = "update", !.t = now]]
    /\ UNCHANGED <<wf, rec, now, applied, crashes, lost, ops>>

\* The bounce commits with result r, in a workflow together with the record of
\* its step. An answer that is lost is a retry of the whole transaction.
BounceCommit(c, r) ==
    /\ rec' = IF c \in Inside THEN [rec EXCEPT ![c] = Append(@, r)] ELSE rec
    /\ \/ call' = [call EXCEPT ![c] = Classify(c, r)] /\ UNCHANGED lost
       \/ /\ lost < MaxLost /\ lost' = lost + 1
          /\ call' = [call EXCEPT ![c].pc = IF c \in Inside THEN "ready" ELSE "update"]

Matches(c) ==
    {w \in Held : wf[w].st = "DELAYED" /\ wf[w].debounced /\ wf[w].name = Name[c]}

\* The row that a bounce extends.
Bounced(c, row) ==
    [row EXCEPT !.delay = Cap(row.deadline, call[c].t + Period), !.input = c, !.at = call[c].t]

\* Mutant: the bounce commits before the step is recorded.
UpdateApart(c) ==
    /\ call[c].pc = "update"
    /\ \/ \E w \in Matches(c) :
              /\ wf' = [wf EXCEPT ![w] = Bounced(c, @)]
              /\ applied' = applied \cup {<<c, w>>}
              /\ call' = [call EXCEPT ![c].pc = "done", ![c].res = w]
       \/ /\ Matches(c) = {}
          /\ call' = [call EXCEPT ![c].pc = "holder"]
          /\ UNCHANGED <<wf, applied>>
    /\ UNCHANGED <<rec, now, crashes, lost, ops>>

\* The UPDATE of debounce_delayed_workflow.
Update(c) ==
    /\ call[c].pc = "update"
    /\ \/ \E w \in Matches(c) :
              /\ wf' = [wf EXCEPT ![w] = Bounced(c, @)]
              /\ applied' = applied \cup {<<c, w>>}
              /\ BounceCommit(c, w)
       \/ /\ Matches(c) = {}
          /\ call' = [call EXCEPT ![c].pc = "holder"]
          /\ UNCHANGED <<wf, applied, rec, lost>>
    /\ UNCHANGED <<now, crashes, ops>>

\* Its SELECT of the row that holds the key, if nothing matched.
Holder(c) ==
    /\ call[c].pc = "holder"
    /\ IF Held = {} THEN BounceCommit(c, "unheld")
       ELSE \E w \in Held :
              BounceCommit(c, IF wf[w].debounced /\ wf[w].name = Name[c] THEN "retry" ELSE "raise")
    /\ UNCHANGED <<wf, now, applied, crashes, ops>>

\* The row of a fresh debounced workflow. A client counts the delay, and not
\* the deadline, from a second reading of the clock.
Fresh(c) ==
    LET t        == call[c].t
        deadline == IF Timeout = 0 THEN None ELSE t + Timeout IN
    [st |-> "DELAYED", name |-> Name[c], debounced |-> TRUE, key |-> TRUE,
     delay |-> IF c \in Clients THEN now + (Cap(deadline, t + Period) - t)
                                ELSE Cap(deadline, t + Period),
     deadline |-> deadline, input |-> c, at |-> t]

KeyTaken == Held # {}

\* queue.enqueue: a recorded result is replayed; a row with the same id is
\* left as it is; a row with the same key is an error, recorded in a workflow.
Enqueue(c) ==
    /\ call[c].pc = "enqueue"
    /\ LET over == IF c \in Inside THEN "child" ELSE "done" IN
       \/ /\ Recorded(c)
          /\ call' = [call EXCEPT ![c] =
                 IF rec[c][@.pos + 1] = "dup"
                 THEN [@ EXCEPT !.pc = "ready", !.pos = @ + 1]
                 ELSE [@ EXCEPT !.pc = "done", !.pos = @ + 1, !.res = Id[c]]]
          /\ UNCHANGED <<wf, rec, applied, lost>>
       \/ /\ ~Recorded(c) /\ wf[Id[c]].st # "ABSENT"
          /\ call' = [call EXCEPT ![c].pc = over, ![c].res = Id[c]]
          /\ UNCHANGED <<wf, rec, applied, lost>>
       \/ /\ ~Recorded(c) /\ wf[Id[c]].st = "ABSENT" /\ KeyTaken
          /\ rec' = IF c \in Inside THEN [rec EXCEPT ![c] = Append(@, "dup")] ELSE rec
          /\ call' = [call EXCEPT ![c].pc = "ready", ![c].pos = IF c \in Inside THEN @ + 1 ELSE @]
          /\ UNCHANGED <<wf, applied, lost>>
       \/ /\ ~Recorded(c) /\ wf[Id[c]].st = "ABSENT" /\ ~KeyTaken
          /\ wf' = [wf EXCEPT ![Id[c]] = Fresh(c)]
          /\ applied' = applied \cup {<<c, Id[c]>>}
          /\ \/ call' = [call EXCEPT ![c].pc = over, ![c].res = Id[c]] /\ UNCHANGED lost
             \/ lost < MaxLost /\ lost' = lost + 1 /\ UNCHANGED call
          /\ UNCHANGED rec
    /\ UNCHANGED <<now, crashes, ops>>

\* record_child_workflow.
RecordChild(c) ==
    /\ call[c].pc = "child"
    /\ rec' = [rec EXCEPT ![c] = Append(@, "child")]
    /\ call' = [call EXCEPT ![c].pc = "done", ![c].pos = @ + 1]
    /\ UNCHANGED <<wf, now, applied, crashes, lost, ops>>

Debounce(c) == Loop(c) \/ Update(c) \/ Holder(c) \/ Enqueue(c) \/ RecordChild(c)

\* The process of a calling workflow dies and the workflow is recovered.
Crash(c) ==
    /\ c \in Inside /\ crashes < MaxCrashes /\ crashes' = crashes + 1
    /\ call' = [call EXCEPT ![c] = Start]
    /\ UNCHANGED <<wf, rec, now, applied, lost, ops>>

Due(w) == wf[w].st = "DELAYED" /\ wf[w].delay <= now

\* transition_delayed_workflows: the key goes with the delay.
Transition ==
    /\ \E w \in Ids : Due(w)
    /\ wf' = [w \in Ids |->
           IF Due(w) THEN [wf[w] EXCEPT !.st = "ENQUEUED", !.key = @ /\ ~wf[w].debounced] ELSE wf[w]]
    /\ UNCHANGED <<call, rec, now, applied, crashes, lost, ops>>

\* A workflow is cancelled or resumed, or its delay set, from outside.
Manage(w) ==
    /\ ops < MaxOps /\ ops' = ops + 1
    /\ \/ /\ wf[w].st \in {"DELAYED", "ENQUEUED", "CANCELLED"}
          /\ \E st \in {"CANCELLED", "ENQUEUED"} :
                 wf' = [wf EXCEPT ![w].st = st, ![w].key = FALSE]
       \/ /\ wf[w].st = "DELAYED"
          /\ \E t \in 0..MaxTime : wf' = [wf EXCEPT ![w].delay = t]
    /\ UNCHANGED <<call, rec, now, applied, crashes, lost>>

\* A workflow is enqueued by hand with the debounce key, and completes.
PlainEnqueue ==
    /\ wf[Plain].st = "ABSENT" /\ ~KeyTaken
    /\ wf' = [wf EXCEPT ![Plain].st = "ENQUEUED", ![Plain].key = TRUE]
    /\ UNCHANGED <<call, rec, now, applied, crashes, lost, ops>>

PlainDone ==
    /\ wf[Plain].st = "ENQUEUED"
    /\ wf' = [wf EXCEPT ![Plain].st = "SUCCESS", ![Plain].key = FALSE]
    /\ UNCHANGED <<call, rec, now, applied, crashes, lost, ops>>

Tick == now < MaxTime /\ now' = now + 1 /\ UNCHANGED <<wf, call, rec, applied, crashes, lost, ops>>

Over(c) == call[c].pc \in {"done", "raised"}

Finished == (\A c \in Callers : Over(c)) /\ UNCHANGED vars

Next ==
    \/ \E c \in Callers : Debounce(c) \/ Crash(c)
    \/ \E w \in Ids : Manage(w)
    \/ Transition \/ PlainEnqueue \/ PlainDone \/ Tick \/ Finished

Spec == Init /\ [][Next]_vars

(***************************************************************************)
(* Properties                                                              *)
(***************************************************************************)
TypeOK ==
    /\ \A w \in Ids :
           /\ wf[w].st \in {"ABSENT", "DELAYED", "ENQUEUED", "CANCELLED", "SUCCESS"}
           /\ wf[w].key => wf[w].st \in {"DELAYED", "ENQUEUED"}
           /\ wf[w].input \in Callers \cup {None}
    /\ \A c \in Callers :
           /\ call[c].pc \in {"ready", "update", "holder", "enqueue", "child", "done", "raised"}
           /\ call[c].pos \in 0..Len(rec[c]) /\ (c \notin Inside => rec[c] = <<>>)
    /\ now \in 0..MaxTime

\* A call gives its input to one workflow, the one whose handle it returns,
\* through crashes of the calling workflow and lost answers.
CallsOnce ==
    \A c \in Callers :
        LET taken == {p \in applied : p[1] = c} IN
        Cardinality(taken) <= 1 /\ (call[c].pc = "done" => taken = {<<c, call[c].res>>})

\* A call that returns has given its input to the workflow that it returns.
NotDropped == \A c \in Callers : call[c].pc = "done" => <<c, call[c].res>> \in applied

\* Two workflows never wait with the same key: calls coalesce.
OneWaiting ==
    \A v, w \in Ids :
        wf[v].st = "DELAYED" /\ wf[v].debounced /\ wf[w].st = "DELAYED" /\ wf[w].debounced => v = w

\* A call never gives its input to a different workflow whose key collides.
OwnName == \A p \in applied : wf[p[2]].name = Name[p[1]]

\* However often it is bounced, a workflow is due by the deadline that it got
\* with the first call.
DueByDeadline ==
    \A w \in Ids : wf[w].st = "DELAYED" /\ wf[w].deadline # None => wf[w].delay <= wf[w].deadline

\* A workflow leaves its delay by itself only when a period has passed since
\* the call whose input it has, or at its deadline.
QuietPeriod ==
    \A w \in Ids :
        wf[w].st = "DELAYED" /\ wf'[w].st = "ENQUEUED" /\ ops' = ops
        => \/ now >= wf[w].at + Period
           \/ wf[w].deadline # None /\ now >= wf[w].deadline
=============================================================================

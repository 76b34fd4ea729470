---------------------------- MODULE Notifications ----------------------------
(***************************************************************************)
(* Messages sent to one workflow and the recv calls that consume them:     *)
(* the notifications table, the in-process map of waiting recv calls, the  *)
(* listener that signals them, the durable timeout, and the transaction    *)
(* that consumes a message and records it. The workflow may be executed    *)
(* several times, in one process or in several, after a crash or not; an   *)
(* execution is a sequence of recv calls, or several at once.              *)
(***************************************************************************)
EXTENDS Naturals, FiniteSets, Sequences

CONSTANTS
    Processes, Executions,
    ProcOf,         \* execution -> the process it runs in
    RecvTopics,     \* the topic of each recv of the workflow, in order
    Sends,          \* calls of send or send_bulk
    Batch,          \* send -> the messages of its transaction
    TopicOf,        \* message -> topic
    Key,            \* message -> idempotency key, or None
    InWorkflow,     \* the sends that are steps of a workflow
    Timeout,        \* timeout_seconds of every recv
    ListenNotify,   \* LISTEN/NOTIFY listener, else the polling listener
    Gathered,       \* the workflow awaits its recv calls together
    MaxCancels,     \* bound: cancellations of recv_async calls
    SameInstant,    \* two records may carry the same completed_at_epoch_ms
    MaxTime, MaxCrashes, MaxLost, MaxDrops,  \* bounds
    None

Recvs == 1..Len(RecvTopics)
Topics == {RecvTopics[i] : i \in Recvs} \cup {TopicOf[m] : m \in DOMAIN TopicOf}

NotificationsAssumption ==
    /\ ProcOf \in [Executions -> Processes]
    /\ InWorkflow \subseteq Sends
    /\ RecvTopics \in Seq(Topics)
    /\ \A s \in Sends : Batch[s] \subseteq DOMAIN TopicOf /\ IsFiniteSet(Batch[s])
    /\ DOMAIN Key = DOMAIN TopicOf /\ None \notin Nat
    /\ Timeout \in Nat /\ MaxTime \in Nat
    /\ MaxCancels \in Nat /\ MaxCrashes \in Nat /\ MaxLost \in Nat /\ MaxDrops \in Nat
    /\ {ListenNotify, Gathered, SameInstant} \subseteq BOOLEAN

VARIABLES
    now,        \* the clock
    table,      \* rows of notifications, in the order they were inserted
    sending,    \* sends that have not returned
    sendStep,   \* sends whose step is recorded
    ops,        \* recv -> its recorded output: a row number, 0 for null, or None
    sleeps,     \* recv -> the end time recorded for its timeout, or None
    call,       \* execution -> recv -> the state of that call
    parked,     \* executions that met DBOSWorkflowConflictIDError
    entry,      \* process -> topic -> entry of notifications_map
    notifies,   \* process -> topic -> NOTIFYs on their way to the listener
    listening,  \* processes whose listener is connected
    cancels, crashes, lost, drops,
    tied        \* history: two records carried the same time

vars == <<now, table, sending, sendStep, ops, sleeps, call, parked, entry,
          notifies, listening, cancels, crashes, lost, drops, tied>>
messages == <<table, sending, sendStep, tied>>
signals == <<notifies, listening>>
bounds == <<cancels, crashes, lost, drops>>

NoCall == [pc |-> "idle", res |-> None, until |-> None, held |-> FALSE, cancelled |-> 0]
NoEntry == [count |-> 0, set |-> FALSE]

Init ==
    /\ now = 0 /\ table = <<>> /\ sending = Sends /\ sendStep = {}
    /\ ops = [i \in Recvs |-> None] /\ sleeps = [i \in Recvs |-> None]
    /\ call = [x \in Executions |-> [i \in Recvs |-> NoCall]]
    /\ parked = {}
    /\ entry = [p \in Processes |-> [t \in Topics |-> NoEntry]]
    /\ notifies = [p \in Processes |-> [t \in Topics |-> 0]]
    /\ listening = IF ListenNotify THEN Processes ELSE {}
    /\ cancels = 0 /\ crashes = 0 /\ lost = 0 /\ drops = 0 /\ tied = FALSE

(***************************************************************************)
(* send and send_bulk: one transaction inserts the messages, those whose   *)
(* idempotency key is already in the table excepted, and records the step  *)
(* when the caller is a workflow. db_retry repeats the transaction when    *)
(* the answer to its commit is lost.                                       *)
(***************************************************************************)

Inserted(s) ==
    {m \in Batch[s] : Key[m] = None \/ \A n \in DOMAIN table : Key[table[n].msg] # Key[m]}

Orders(S) == {q \in [1..Cardinality(S) -> S] : \A i, j \in DOMAIN q : i # j => q[i] # q[j]}

Insert(q) ==
    /\ table' = table \o [n \in DOMAIN q |->
                    [msg |-> q[n], topic |-> TopicOf[q[n]], at |-> now, consumed |-> FALSE]]
    /\ notifies' = [p \in Processes |-> [t \in Topics |->
           IF p \in listening /\ \E n \in DOMAIN q : TopicOf[q[n]] = t
           THEN notifies[p][t] + 1 ELSE notifies[p][t]]]

Replayed(s) == s \in sendStep

Send(s) ==
    /\ s \in sending
    /\ IF Replayed(s)
       THEN UNCHANGED <<table, notifies>>
       ELSE \E q \in Orders(Inserted(s)) : Insert(q)
    /\ sendStep' = IF s \in InWorkflow THEN sendStep \cup {s} ELSE sendStep
    /\ \/ sending' = sending \ {s} /\ UNCHANGED lost
       \/ lost < MaxLost /\ lost' = lost + 1 /\ UNCHANGED sending
    /\ UNCHANGED <<now, ops, sleeps, call, parked, entry, listening, cancels, crashes, drops,
                   tied>>

(***************************************************************************)
(* recv                                                                    *)
(***************************************************************************)
Topic(i) == RecvTopics[i]
Waiting(t) == {n \in DOMAIN table : table[n].topic = t /\ ~table[n].consumed}
Oldest(t) == {n \in Waiting(t) : \A k \in Waiting(t) : table[n].at <= table[k].at}

Set(x, i, c) == call' = [call EXCEPT ![x][i] = c]
Pc(x, i) == call[x][i].pc

\* ThreadSafeEventDict.pop, of a count of one entry.
Pop(p, t) ==
    [entry EXCEPT ![p][t] = IF @.count <= 1 THEN NoEntry ELSE [@ EXCEPT !.count = @ - 1]]

\* The coroutine of a cancelled recv_async returns at once when it was
\* cancelled while consuming, or a second time while setting up.
Returned(x, i) ==
    \/ Pc(x, i) = "done"
    \/ call[x][i].cancelled = 2
    \/ call[x][i].cancelled = 1 /\ Pc(x, i) \in {"consume", "commit"}

MayCall(x, i) ==
    /\ x \notin parked /\ Pc(x, i) = "idle"
    /\ Gathered \/ \A j \in 1..(i - 1) : Returned(x, j)

\* recv_setup: a recorded output is returned.
SetupCheck(x, i) ==
    /\ MayCall(x, i)
    /\ Set(x, i, IF ops[i] # None
                 THEN [call[x][i] EXCEPT !.pc = "done", !.res = ops[i]]
                 ELSE [call[x][i] EXCEPT !.pc = "register"])
    /\ UNCHANGED <<now, messages, ops, sleeps, parked, entry, signals, bounds>>

\* The entry of the map counts its users; only the first of them may wait.
Register(x, i) ==
    LET p == ProcOf[x]  t == Topic(i) IN
    /\ Pc(x, i) = "register"
    /\ Set(x, i, [call[x][i] EXCEPT !.held = TRUE,
                    !.pc = IF entry[p][t].count = 0 THEN "check" ELSE "clash"])
    /\ entry' = [entry EXCEPT ![p][t].count = @ + 1]
    /\ UNCHANGED <<now, messages, ops, sleeps, parked, signals, bounds>>

\* DBOSWorkflowConflictIDError: the execution goes on to await the result of
\* the workflow. A cancelled setup ignores its error.
Clash(x, i) ==
    /\ Pc(x, i) = "clash"
    /\ entry' = Pop(ProcOf[x], Topic(i))
    /\ Set(x, i, [call[x][i] EXCEPT !.pc = "done", !.held = FALSE])
    /\ parked' = IF call[x][i].cancelled = 0 THEN parked \cup {x} ELSE parked
    /\ UNCHANGED <<now, messages, ops, sleeps, signals, bounds>>

\* recv_check: the event is set when a message is waiting.
Checked(p, t) == [entry EXCEPT ![p][t].set = @ \/ Waiting(t) # {}]

SetupPoll(x, i) ==
    /\ Pc(x, i) = "check"
    /\ entry' = Checked(ProcOf[x], Topic(i))
    /\ Set(x, i, [call[x][i] EXCEPT !.pc = "sleep"])
    /\ UNCHANGED <<now, messages, ops, sleeps, parked, signals, bounds>>

\* Times past the bound of the clock count as its last one.
After(d) == IF now + d < MaxTime THEN now + d ELSE MaxTime

\* record_sleep: the recorded end time, or one of its own to record.
SleepCheck(x, i) ==
    /\ Pc(x, i) = "sleep"
    /\ Set(x, i, IF sleeps[i] # None
                 THEN [call[x][i] EXCEPT !.pc = "ready", !.until = sleeps[i]]
                 ELSE [call[x][i] EXCEPT !.pc = "record", !.until = After(Timeout)])
    /\ UNCHANGED <<now, messages, ops, sleeps, parked, entry, signals, bounds>>

SleepRecord(x, i) ==
    /\ Pc(x, i) = "record"
    /\ sleeps' = [sleeps EXCEPT ![i] = IF @ = None THEN call[x][i].until ELSE @]
    /\ Set(x, i, [call[x][i] EXCEPT !.pc = "ready"])
    /\ UNCHANGED <<now, messages, ops, parked, entry, signals, bounds>>

\* Mutant: a cancelled call keeps its entry.
SetupDoneLeaky(x, i) ==
    /\ Pc(x, i) = "ready"
    /\ Set(x, i, [call[x][i] EXCEPT !.pc = IF call[x][i].cancelled = 0 THEN "wait" ELSE "done"])
    /\ UNCHANGED <<now, messages, ops, sleeps, parked, entry, signals, bounds>>

\* The setup has finished; that of a cancelled call is undone.
SetupDone(x, i) ==
    /\ Pc(x, i) = "ready"
    /\ IF call[x][i].cancelled = 0
       THEN Set(x, i, [call[x][i] EXCEPT !.pc = "wait"]) /\ UNCHANGED entry
       ELSE /\ Set(x, i, [call[x][i] EXCEPT !.pc = "done", !.held = FALSE])
            /\ entry' = Pop(ProcOf[x], Topic(i))
    /\ UNCHANGED <<now, messages, ops, sleeps, parked, signals, bounds>>

\* Mutant: there is no fallback poll.
RecheckNever(x, i) == FALSE /\ UNCHANGED vars

\* The fallback poll of the waiting loop.
Recheck(x, i) ==
    /\ Pc(x, i) = "wait" /\ ~entry[ProcOf[x]][Topic(i)].set /\ now < call[x][i].until
    /\ Waiting(Topic(i)) # {}
    /\ entry' = Checked(ProcOf[x], Topic(i))
    /\ UNCHANGED <<now, messages, ops, sleeps, call, parked, signals, bounds>>

\* The loop ends with the event set or the deadline passed.
Awake(x, i) == entry[ProcOf[x]][Topic(i)].set \/ now >= call[x][i].until

Wake(x, i) ==
    /\ Pc(x, i) = "wait" /\ Awake(x, i)
    /\ Set(x, i, [call[x][i] EXCEPT !.pc = "consume"])
    /\ UNCHANGED <<now, messages, ops, sleeps, parked, entry, signals, bounds>>

\* The end of a call: its result, and its entry of the map given up.
Finish(x, i, res) ==
    /\ Set(x, i, [call[x][i] EXCEPT !.pc = "done", !.held = FALSE,
                    !.res = IF call[x][i].cancelled = 0 THEN res ELSE None])
    /\ entry' = IF call[x][i].held THEN Pop(ProcOf[x], Topic(i)) ELSE entry

\* recv_consume: an output recorded by an earlier attempt is returned.
ConsumeCheck(x, i) ==
    /\ Pc(x, i) = "consume"
    /\ IF ops[i] # None
       THEN Finish(x, i, ops[i])
       ELSE Set(x, i, [call[x][i] EXCEPT !.pc = "commit"]) /\ UNCHANGED entry
    /\ UNCHANGED <<now, messages, ops, sleeps, parked, signals, bounds>>

Take(n) == table' = IF n = 0 THEN table ELSE [table EXCEPT ![n].consumed = TRUE]

\* Mutant: the record of another execution is overwritten.
ConsumeUnrecorded(x, i) ==
    /\ Pc(x, i) = "commit"
    /\ \E n \in IF Waiting(Topic(i)) = {} THEN {0} ELSE Oldest(Topic(i)) :
           /\ Take(n)
           /\ ops' = [ops EXCEPT ![i] = n]
           /\ Finish(x, i, n)
    /\ UNCHANGED <<now, sending, sendStep, tied, sleeps, parked, signals, bounds>>

\* The rest of its transaction: the oldest message is consumed and recorded,
\* or null is. The record of another execution aborts it, unless the two
\* carry the same time: then the record is taken for its own.
ConsumeCommit(x, i) ==
    /\ Pc(x, i) = "commit"
    /\ \E n \in IF Waiting(Topic(i)) = {} THEN {0} ELSE Oldest(Topic(i)) :
           \/ /\ ops[i] = None
              /\ Take(n)
              /\ ops' = [ops EXCEPT ![i] = n]
              /\ \/ Finish(x, i, n) /\ UNCHANGED lost
                 \/ /\ lost < MaxLost /\ lost' = lost + 1
                    /\ Set(x, i, [call[x][i] EXCEPT !.pc = "consume"])
                    /\ UNCHANGED entry
              /\ UNCHANGED <<parked, tied>>
           \/ /\ ops[i] # None /\ SameInstant /\ tied' = TRUE
              /\ Take(n)
              /\ Finish(x, i, n)
              /\ UNCHANGED <<ops, parked, lost>>
           \/ /\ ops[i] # None
              /\ Finish(x, i, None)
              /\ parked' = IF call[x][i].cancelled = 0 THEN parked \cup {x} ELSE parked
              /\ UNCHANGED <<table, ops, lost, tied>>
    /\ UNCHANGED <<now, sending, sendStep, sleeps, signals, cancels, crashes, drops>>

\* Cancellation of a recv_async: a waiting call gives up its entry; the
\* worker thread of one that sets up or consumes runs on.
CancelRecv(x, i) ==
    LET c == call[x][i] IN
    /\ cancels < MaxCancels /\ cancels' = cancels + 1
    /\ \/ /\ c.pc = "wait"
          /\ Finish(x, i, None)
       \/ /\ c.pc \in {"register", "clash", "check", "sleep", "record", "ready"}
          /\ c.cancelled < 2
          /\ Set(x, i, [c EXCEPT !.cancelled = @ + 1]) /\ UNCHANGED entry
       \/ /\ c.pc \in {"consume", "commit"} /\ c.cancelled = 0
          /\ Set(x, i, [c EXCEPT !.cancelled = 1, !.held = FALSE])
          /\ entry' = Pop(ProcOf[x], Topic(i))
    /\ UNCHANGED <<now, messages, ops, sleeps, parked, signals, crashes, lost, drops>>

(***************************************************************************)
(* The listener thread, the clock and crashes                              *)
(***************************************************************************)
\* A NOTIFY signals whichever event is registered when it arrives.
Notify(p, t) ==
    /\ notifies[p][t] > 0
    /\ notifies' = [notifies EXCEPT ![p][t] = @ - 1]
    /\ entry' = [entry EXCEPT ![p][t].set = @ \/ entry[p][t].count > 0]
    /\ UNCHANGED <<now, messages, ops, sleeps, call, parked, listening, bounds>>

\* The polling listener signals the event of an entry with a message waiting.
PollEntry(p, t) ==
    /\ ~ListenNotify
    /\ entry[p][t].count > 0 /\ ~entry[p][t].set /\ Waiting(t) # {}
    /\ entry' = Checked(p, t)
    /\ UNCHANGED <<now, messages, ops, sleeps, call, parked, signals, bounds>>

\* The connection of the listener breaks; what was on its way is lost.
Disconnect(p) ==
    /\ p \in listening /\ drops < MaxDrops
    /\ listening' = listening \ {p}
    /\ notifies' = [notifies EXCEPT ![p] = [t \in Topics |-> 0]]
    /\ drops' = drops + 1
    /\ UNCHANGED <<now, messages, ops, sleeps, call, parked, entry, cancels, crashes, lost>>

Reconnect(p) ==
    /\ ListenNotify /\ p \notin listening
    /\ listening' = listening \cup {p}
    /\ UNCHANGED <<now, messages, ops, sleeps, call, parked, entry, notifies, bounds>>

Tick ==
    /\ now < MaxTime /\ now' = now + 1
    /\ UNCHANGED <<messages, ops, sleeps, call, parked, entry, signals, bounds>>

\* A process dies and is restarted; recovery executes its workflows again.
Crash(p) ==
    /\ crashes < MaxCrashes /\ crashes' = crashes + 1
    /\ call' = [x \in Executions |->
                   IF ProcOf[x] = p THEN [i \in Recvs |-> NoCall] ELSE call[x]]
    /\ parked' = {x \in parked : ProcOf[x] # p}
    /\ entry' = [entry EXCEPT ![p] = [t \in Topics |-> NoEntry]]
    /\ notifies' = [notifies EXCEPT ![p] = [t \in Topics |-> 0]]
    /\ UNCHANGED <<now, messages, ops, sleeps, listening, cancels, lost, drops>>

Recv(x, i) ==
    \/ SetupCheck(x, i) \/ Register(x, i) \/ Clash(x, i) \/ SetupPoll(x, i)
    \/ SleepCheck(x, i) \/ SleepRecord(x, i) \/ SetupDone(x, i) \/ Recheck(x, i)
    \/ Wake(x, i) \/ ConsumeCheck(x, i) \/ ConsumeCommit(x, i)

\* Every recv was made and every message received; time may have run out.
Finished ==
    /\ \A x \in Executions : x \in parked \/ \A i \in Recvs : Returned(x, i)
    /\ UNCHANGED vars

Next ==
    \/ \E s \in Sends : Send(s)
    \/ \E x \in Executions, i \in Recvs : Recv(x, i) \/ CancelRecv(x, i)
    \/ \E p \in Processes, t \in Topics : Notify(p, t) \/ PollEntry(p, t)
    \/ \E p \in Processes : Disconnect(p) \/ Reconnect(p) \/ Crash(p)
    \/ Tick \/ Finished

Spec == Init /\ [][Next]_vars

(***************************************************************************)
(* Properties                                                              *)
(***************************************************************************)
TypeOK ==
    /\ now \in 0..MaxTime /\ sending \subseteq Sends /\ sendStep \subseteq InWorkflow
    /\ \A n \in DOMAIN table :
           table[n] \in [msg : DOMAIN TopicOf, topic : Topics, at : 0..now, consumed : BOOLEAN]
    /\ ops \in [Recvs -> {None} \cup {0} \cup DOMAIN table]
    /\ \A i \in Recvs : ops[i] \in DOMAIN table => table[ops[i]].topic = Topic(i)
    /\ \A i \in Recvs : sleeps[i] = None \/ sleeps[i] \in 0..(MaxTime + Timeout)
    /\ parked \subseteq Executions /\ listening \subseteq Processes
    /\ \A p \in Processes, t \in Topics :
           /\ entry[p][t].set => entry[p][t].count > 0
           /\ notifies[p][t] <= Len(table)

\* A message is marked consumed exactly when one recv has it as its recorded
\* output: whatever crashes, retries and concurrent executions happen, no
\* message is dropped and none is received twice (recv_consume marks it and
\* records it in one transaction).
ConsumedOnce ==
    /\ \A n \in DOMAIN table : table[n].consumed <=> \E i \in DOMAIN ops : ops[i] = n
    /\ \A i, j \in DOMAIN ops : ops[i] \in DOMAIN table /\ ops[i] = ops[j] => i = j

\* Every execution that comes back from a recv has what is recorded for it.
SameMessage ==
    \A x \in DOMAIN call : \A i \in DOMAIN ops : call[x][i].res \in {None, ops[i]}

\* A send with an idempotency key, or from a workflow, delivers each of its
\* messages to at most one recv however often its transaction is repeated.
SentOnce ==
    \A i, j \in DOMAIN ops :
        /\ i # j /\ ops[i] \in DOMAIN table /\ ops[j] \in DOMAIN table
        => table[ops[i]].msg # table[ops[j]].msg

\* recv calls made one after the other receive the messages of one topic in
\* sending order, unless one of them is cancelled.
InOrder ==
    \A i, j \in DOMAIN ops :
        /\ cancels = 0 /\ i < j /\ ops[i] \in DOMAIN table /\ ops[j] \in DOMAIN table
        /\ table[ops[i]].topic = table[ops[j]].topic
        => table[ops[i]].at <= table[ops[j]].at

\* A message is delivered to one recv, in order, and every execution of that
\* recv gets it, through crashes, repeated transactions and concurrent
\* executions, as long as no two records carry the same time (send,
\* recv_consume).
DeliveredOnce == ~tied => ConsumedOnce /\ SameMessage /\ SentOnce /\ InOrder

\* What SentOnce needs: every message is sent with a key or in one step of a
\* workflow.
Idempotent ==
    \A s \in Sends : \A m \in Batch[s] :
        \/ Key[m] # None
        \/ s \in InWorkflow /\ \A r \in Sends : m \in Batch[r] => r = s

\* A recv gives up (records null) only once its recorded timeout has passed:
\* until then it waits.
GivesUpLate ==
    \A i \in Recvs : ops[i] = None /\ ops'[i] = 0 => now >= sleeps[i]

\* The timeout of a recv is durable: an execution after a crash waits until
\* the end time the first one recorded, and no longer.
TimeoutKept ==
    \A x \in Executions, i \in Recvs :
        Pc(x, i) \in {"wait", "consume", "commit"} => call[x][i].until = sleeps[i]

\* An entry of the map is there because of calls in progress, and no call
\* that has returned leaves one behind, however it was cancelled (a second
\* cancellation during setup, which leaves the cleanup to a callback, aside).
NoStaleEntry ==
    /\ \A p \in Processes, t \in Topics :
           entry[p][t].count =
             Cardinality({c \in Executions \X Recvs :
                 ProcOf[c[1]] = p /\ Topic(c[2]) = t /\ call[c[1]][c[2]].held})
    /\ \A x \in Executions, i \in Recvs :
           Returned(x, i) /\ call[x][i].cancelled < 2 => ~call[x][i].held

\* Executions park only because another one goes on: one of them is not
\* parked as long as a recv has no recorded output.
SomeoneProceeds ==
    parked = Executions => \A i \in Recvs : ops[i] # None

\* A recv waits while a message is there for it.
Starved(x, i) == Pc(x, i) = "wait" /\ Waiting(Topic(i)) # {}
=============================================================================

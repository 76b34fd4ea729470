------------------------ MODULE NotificationsProofs ------------------------
(***************************************************************************)
(* Proofs about messages and the recv calls that consume them, for any     *)
(* number of processes, executions, sends and recvs. A step sends, moves   *)
(* one call, consumes for one call, kills a process, or touches none of    *)
(* these (Effects); from that each conjunct of the invariant is kept.      *)
(*                                                                         *)
(* Of all rows of a topic those consumed are no later than those waiting   *)
(* (OldestInv), and a recv is recorded only after the recvs before it      *)
(* (SequenceInv): together they give the order in which messages arrive.   *)
(***************************************************************************)
EXTENDS Notifications, FiniteSetTheorems, TLAPS

Busy == {"register", "clash", "check", "sleep", "record", "ready", "wait", "consume", "commit"}
Rows == [msg : DOMAIN TopicOf, topic : Topics, at : Nat, consumed : BOOLEAN]
CallRecords ==
    [pc : Busy \cup {"idle", "done"}, res : Nat \cup {None}, until : Nat \cup {None},
     held : BOOLEAN, cancelled : Nat]

\* The variables have their types, and rows are inserted in the order of time.
Types ==
    /\ now \in Nat /\ table \in Seq(Rows)
    /\ sending \subseteq Sends /\ sendStep \subseteq InWorkflow
    /\ ops \in [Recvs -> Nat \cup {None}] /\ sleeps \in [Recvs -> Nat \cup {None}]
    /\ call \in [Executions -> [Recvs -> CallRecords]]
    /\ tied \in BOOLEAN /\ cancels \in Nat /\ lost \in Nat
    /\ \A n \in DOMAIN table : table[n].at <= now
    /\ \A i \in Recvs : ops[i] \in DOMAIN table \cup {0, None}

\* A row is marked when it is recorded, for a recv of its topic.
ConsumedInv ==
    /\ \A n \in DOMAIN table : table[n].consumed <=> \E i \in Recvs : ops[i] = n
    /\ \A i, j \in Recvs : ops[i] \in DOMAIN table /\ ops[i] = ops[j] => i = j
    /\ \A i \in Recvs : ops[i] \in DOMAIN table => table[ops[i]].topic = Topic(i)

\* What an execution has received is what is recorded.
ResultInv == \A x \in Executions, i \in Recvs : call[x][i].res \in {None, ops[i]}

\* What is consumed of a topic is no later than what waits.
OldestInv ==
    \A m, n \in DOMAIN table :
        table[m].consumed /\ ~table[n].consumed /\ table[m].topic = table[n].topic
        => table[m].at <= table[n].at

\* No message is inserted twice, and one without a key is inserted with its step.
InsertedInv ==
    /\ \A m, n \in DOMAIN table : table[m].msg = table[n].msg => m = n
    /\ \A n \in DOMAIN table : Key[table[n].msg] = None =>
          \A s \in Sends : table[n].msg \in Batch[s] => s \in sendStep

\* The recv calls of an execution follow each other, and one that has returned
\* has its record, unless its execution is parked.
SequenceInv ==
    /\ \A x \in Executions, i \in Recvs :
          /\ call[x][i].cancelled = 0
          /\ call[x][i].pc = "done" => ops[i] # None \/ x \in parked
          /\ x \in parked => call[x][i].pc \in {"idle", "done"}
    /\ \A x \in Executions, i, j \in Recvs :
          i < j /\ call[x][j].pc # "idle" => call[x][i].pc = "done"
    /\ \A i, j \in Recvs : i < j /\ ops[j] # None => ops[i] # None

OrderInv ==
    \A i, j \in Recvs :
        /\ i < j /\ ops[i] \in DOMAIN table /\ ops[j] \in DOMAIN table
        /\ table[ops[i]].topic = table[ops[j]].topic
        => table[ops[i]].at <= table[ops[j]].at

-----------------------------------------------------------------------------

(* Types, and what single operators do.                                    *)

LEMMA RecvsType ==
  ASSUME NotificationsAssumption
  PROVE  Recvs \subseteq Nat /\ 0 \notin Recvs
<1>1. Len(RecvTopics) \in Nat
  BY DEF NotificationsAssumption
<1> QED
  BY <1>1 DEF Recvs

LEMMA NoCallType ==
  ASSUME NotificationsAssumption
  PROVE  NoCall \in CallRecords /\ NoCall.pc = "idle" /\ NoCall.res = None /\ NoCall.cancelled = 0
  BY DEF NoCall, CallRecords, Busy

\* An action sets one call.
LEMMA SetEffect ==
  ASSUME Types, NEW x \in Executions, NEW i \in Recvs, NEW c \in CallRecords, Set(x, i, c)
  PROVE  /\ call' \in [Executions -> [Recvs -> CallRecords]]
         /\ call'[x][i] = c
         /\ \A y \in Executions, j \in Recvs : y # x \/ j # i => call'[y][j] = call[y][j]
<1>1. call' = [call EXCEPT ![x] = [call[x] EXCEPT ![i] = c]]
  BY DEF Set
<1>2. call \in [Executions -> [Recvs -> CallRecords]]
  BY DEF Types
<1>3. [call[x] EXCEPT ![i] = c] \in [Recvs -> CallRecords]
  BY <1>2
<1>4. call' \in [Executions -> [Recvs -> CallRecords]] /\ call'[x] = [call[x] EXCEPT ![i] = c]
      /\ \A y \in Executions : y # x => call'[y] = call[y]
  BY <1>1, <1>2, <1>3
<1> QED
  BY <1>2, <1>4

\* What a send inserts, if it does.
Added(s) ==
    /\ Len(table) <= Len(table')
    /\ \A n \in 1..Len(table) : table'[n] = table[n]
    /\ \A n \in (Len(table) + 1)..Len(table') :
          /\ table'[n].msg \in Inserted(s) /\ table'[n].at = now /\ ~table'[n].consumed
    /\ \A m, n \in (Len(table) + 1)..Len(table') : table'[m].msg = table'[n].msg => m = n

LEMMA InsertEffect ==
  ASSUME NotificationsAssumption, Types, NEW s \in Sends, NEW q \in Orders(Inserted(s)), Insert(q)
  PROVE  table' \in Seq(Rows) /\ Added(s)
<1>1. /\ Inserted(s) \subseteq Batch[s] /\ Inserted(s) \subseteq DOMAIN TopicOf
      /\ IsFiniteSet(Inserted(s))
  BY FS_Subset DEF Inserted, NotificationsAssumption
<1> DEFINE k == Cardinality(Inserted(s))
           r == [n \in 1..k |->
                    [msg |-> q[n], topic |-> TopicOf[q[n]], at |-> now, consumed |-> FALSE]]
<1>2. k \in Nat
  BY <1>1, FS_CardinalityType
<1>3. /\ q \in [1..k -> Inserted(s)] /\ DOMAIN q = 1..k
      /\ \A i, j \in 1..k : q[i] = q[j] => i = j
  BY DEF Orders
<1>4. table' = table \o r
  BY <1>3 DEF Insert
<1> HIDE DEF k
<1>5. \A m \in DOMAIN TopicOf : TopicOf[m] \in Topics
  BY DEF Topics
<1>6. now \in Nat /\ table \in Seq(Rows)
  BY DEF Types
<1>7. \A n \in 1..k : r[n] \in Rows
  BY <1>1, <1>3, <1>5, <1>6 DEF Rows
<1>8. r \in Seq(Rows) /\ Len(r) = k
  BY <1>2, <1>7
<1>9. /\ table' \in Seq(Rows) /\ Len(table') = Len(table) + k /\ Len(table) \in Nat
      /\ \A n \in 1..Len(table) : table'[n] = table[n]
      /\ \A n \in (Len(table) + 1)..(Len(table) + k) : table'[n] = r[n - Len(table)]
  BY <1>2, <1>4, <1>6, <1>8
<1>10. ASSUME NEW n \in (Len(table) + 1)..Len(table')
       PROVE  n - Len(table) \in 1..k /\ table'[n] = r[n - Len(table)]
  BY <1>2, <1>9, <1>10
<1>11. ASSUME NEW n \in 1..k
       PROVE  r[n].msg = q[n] /\ r[n].msg \in Inserted(s) /\ r[n].at = now /\ ~r[n].consumed
  BY <1>3, <1>11
<1> HIDE DEF r
<1>12. Len(table) <= Len(table')
  BY <1>2, <1>9
<1>13. \A n \in (Len(table) + 1)..Len(table') :
          table'[n].msg \in Inserted(s) /\ table'[n].at = now /\ ~table'[n].consumed
  BY <1>10, <1>11
<1>14. ASSUME NEW m \in (Len(table) + 1)..Len(table'), NEW n \in (Len(table) + 1)..Len(table'),
              table'[m].msg = table'[n].msg
       PROVE  m = n
  <2>1. q[m - Len(table)] = q[n - Len(table)]
    BY <1>10, <1>11, <1>14
  <2>2. m - Len(table) = n - Len(table)
    BY <1>3, <1>10, <2>1
  <2> QED
    BY <1>9, <2>2
<1> QED
  BY <1>9, <1>12, <1>13, <1>14 DEF Added

-----------------------------------------------------------------------------
(* What a step does to messages, records and calls.                        *)

\* One call goes on, or returns, because of its record or as a duplicate.
Moved(x, i, c) ==
    /\ Set(x, i, c)
    /\ call[x][i].pc \in Busy \/ MayCall(x, i)
    /\ \/ c.pc \in Busy /\ c.res = call[x][i].res /\ UNCHANGED parked
       \/ /\ c.pc = "done" /\ c.res \in {None, ops[i], call[x][i].res}
          /\ parked' \in {parked, parked \cup {x}}
          /\ \/ ops[i] # None \/ x \in parked'
             \/ call[x][i].cancelled # 0 \/ cancels' # 0
    /\ c.cancelled = call[x][i].cancelled \/ cancels' # 0

\* A call consumes the oldest message, or none, and records it.
Consumes(x, i, c, n) ==
    /\ Set(x, i, c) /\ call[x][i].pc = "commit" /\ ops[i] = None
    /\ IF Waiting(Topic(i)) = {} THEN n = 0 ELSE n \in Oldest(Topic(i))
    /\ Take(n) /\ ops' = [ops EXCEPT ![i] = n]
    /\ \/ c.pc = "done" /\ c.res \in {None, n}
       \/ c.pc \in Busy /\ c.res = call[x][i].res
    /\ c.cancelled = call[x][i].cancelled
    /\ UNCHANGED <<parked, cancels, sendStep>>

Kept == UNCHANGED <<table, ops, sendStep>>

\* A process dies.
Died ==
    /\ \A x \in Executions : \A i \in Recvs : call'[x][i] \in {NoCall, call[x][i]}
    /\ \A x \in Executions :
          \/ call'[x] = call[x] /\ (x \in parked <=> x \in parked')
          \/ x \notin parked' /\ \A i \in Recvs : call'[x][i] = NoCall

SendEffect ==
    \E s \in Sends : /\ Send(s) /\ UNCHANGED <<ops, call, parked, cancels>>
                     /\ table' = table \/ (s \notin sendStep /\ Added(s))
MoveEffect ==
    \E x \in Executions, i \in Recvs, c \in CallRecords : Kept /\ Moved(x, i, c)
ConsumeEffect ==
    \E x \in Executions, i \in Recvs, c \in CallRecords, n \in Nat : Consumes(x, i, c, n)
DeathEffect == Kept /\ Died /\ UNCHANGED cancels
NoEffect == Kept /\ UNCHANGED <<call, parked, cancels>>

Effect == SendEffect \/ MoveEffect \/ ConsumeEffect \/ tied' = TRUE \/ DeathEffect \/ NoEffect

\* A row is marked, or none.
LEMMA TakeEffect ==
  ASSUME Types, NEW n, n = 0 \/ n \in DOMAIN table, Take(n)
  PROVE  /\ table' \in Seq(Rows) /\ DOMAIN table' = DOMAIN table
         /\ \A m \in DOMAIN table :
               /\ table'[m].msg = table[m].msg /\ table'[m].topic = table[m].topic
               /\ table'[m].at = table[m].at
               /\ table'[m].consumed <=> table[m].consumed \/ m = n
<1>1. table \in Seq(Rows) /\ DOMAIN table = 1..Len(table) /\ 0 \notin DOMAIN table
  BY DEF Types
<1>2. CASE n = 0
  BY <1>1, <1>2 DEF Take
<1>3. CASE n # 0
  <2> DEFINE row == [table[n] EXCEPT !.consumed = TRUE]
  <2>1. n \in 1..Len(table) /\ table[n] \in Rows
    BY <1>1, <1>3
  <2>2. /\ row \in Rows /\ row.msg = table[n].msg /\ row.topic = table[n].topic
        /\ row.at = table[n].at /\ row.consumed
    BY <2>1 DEF Rows
  <2>3. table' = [table EXCEPT ![n] = row]
    BY <1>3 DEF Take
  <2> HIDE DEF row
  <2>4. table' \in Seq(Rows) /\ DOMAIN table' = DOMAIN table
    BY <1>1, <2>1, <2>2, <2>3
  <2>5. \A m \in DOMAIN table : table'[m] = IF m = n THEN row ELSE table[m]
    BY <1>1, <2>1, <2>3
  <2> QED
    BY <2>2, <2>4, <2>5
<1> QED
  BY <1>2, <1>3

LEMMA SendStep ==
  ASSUME NotificationsAssumption, Types, NEW s \in Sends, Send(s)
  PROVE  Types' /\ Effect
<1>1. CASE s \in sendStep /\ UNCHANGED <<table, notifies>>
  <2>1. /\ UNCHANGED <<now, table, ops, sleeps, call, parked, cancels, tied>>
        /\ sending' \subseteq Sends /\ sendStep' \subseteq InWorkflow /\ lost' \in Nat
    BY <1>1 DEF Send, Types
  <2>2. Types'
    BY <2>1 DEF Types
  <2> QED
    BY <2>1, <2>2 DEF Effect, SendEffect
<1>2. CASE s \notin sendStep /\ \E q \in Orders(Inserted(s)) : Insert(q)
  <2>1. table' \in Seq(Rows) /\ Added(s)
    BY <1>2, InsertEffect
  <2>2. UNCHANGED <<now, ops, sleeps, call, parked, cancels, tied>>
    BY DEF Send
  <2>3. sending' \subseteq Sends /\ sendStep' \subseteq InWorkflow /\ lost' \in Nat
    BY DEF Send, Types
  <2>4. Len(table) \in Nat /\ Len(table') \in Nat /\ DOMAIN table = 1..Len(table)
        /\ DOMAIN table' = 1..Len(table') /\ now \in Nat
    BY <2>1 DEF Types
  <2>5. \A n \in DOMAIN table' : table'[n].at <= now'
    <3> TAKE n \in DOMAIN table'
    <3>1. CASE n \in 1..Len(table)
      BY <2>1, <2>2, <2>4, <3>1 DEF Types, Added
    <3>2. CASE n \in (Len(table) + 1)..Len(table')
      BY <2>1, <2>2, <2>4, <3>2 DEF Added
    <3> QED
      BY <2>4, <3>1, <3>2
  <2>6. DOMAIN table \subseteq DOMAIN table'
    BY <2>1, <2>4 DEF Added
  <2>7. Types'
    BY <2>1, <2>2, <2>3, <2>5, <2>6 DEF Types
  <2> QED
    BY <1>2, <2>1, <2>2, <2>7 DEF Effect, SendEffect
<1> QED
  BY <1>1, <1>2 DEF Send, Replayed

\* The actions that set one call and neither consume nor record a message.
LEMMA CallStep ==
  ASSUME NotificationsAssumption, Types,
         NEW x \in Executions, NEW i \in Recvs, NEW c \in CallRecords,
         Kept, Moved(x, i, c), UNCHANGED <<now, sending, tied>>, cancels' \in Nat, lost' \in Nat,
         sleeps' \in [Recvs -> Nat \cup {None}]
  PROVE  Types' /\ Effect
<1>1. call' \in [Executions -> [Recvs -> CallRecords]]
  BY SetEffect DEF Moved
<1>2. Types'
  BY <1>1 DEF Types, Kept
<1> QED
  BY <1>2 DEF Effect, MoveEffect

LEMMA RecvStep ==
  ASSUME NotificationsAssumption, Types, NEW x \in Executions, NEW i \in Recvs,
         Recv(x, i) \/ CancelRecv(x, i)
  PROVE  Types' /\ Effect
<1> USE DEF messages, signals, bounds
<1> DEFINE me == call[x][i]
<1>0. /\ me \in CallRecords /\ cancels \in Nat /\ lost \in Nat /\ now \in Nat
      /\ ops[i] \in Nat \cup {None} /\ sleeps[i] \in Nat \cup {None}
      /\ sleeps \in [Recvs -> Nat \cup {None}]
  BY DEF Types
<1>1. CASE SetupCheck(x, i)
  <2> DEFINE c == IF ops[i] # None THEN [me EXCEPT !.pc = "done", !.res = ops[i]]
                  ELSE [me EXCEPT !.pc = "register"]
  <2>1. c \in CallRecords /\ Moved(x, i, c)
    BY <1>0, <1>1 DEF SetupCheck, Moved, CallRecords, Busy
  <2> QED
    BY <1>0, <1>1, <2>1, CallStep DEF SetupCheck, Kept
<1>2. CASE Register(x, i)
  <2> DEFINE c == [me EXCEPT !.held = TRUE,
                    !.pc = IF entry[ProcOf[x]][Topic(i)].count = 0 THEN "check" ELSE "clash"]
  <2>1. c \in CallRecords /\ Moved(x, i, c)
    BY <1>0, <1>2 DEF Register, Moved, CallRecords, Busy, Pc
  <2> QED
    BY <1>0, <1>2, <2>1, CallStep DEF Register, Kept
<1>3. CASE Clash(x, i)
  <2> DEFINE c == [me EXCEPT !.pc = "done", !.held = FALSE]
  <2>1. c \in CallRecords /\ Moved(x, i, c)
    BY <1>0, <1>3 DEF Clash, Moved, CallRecords, Busy, Pc
  <2> QED
    BY <1>0, <1>3, <2>1, CallStep DEF Clash, Kept
<1>4. CASE SetupPoll(x, i)
  <2> DEFINE c == [me EXCEPT !.pc = "sleep"]
  <2>1. c \in CallRecords /\ Moved(x, i, c)
    BY <1>0, <1>4 DEF SetupPoll, Moved, CallRecords, Busy, Pc
  <2> QED
    BY <1>0, <1>4, <2>1, CallStep DEF SetupPoll, Kept
<1>5. CASE SleepCheck(x, i)
  <2> DEFINE c == IF sleeps[i] # None THEN [me EXCEPT !.pc = "ready", !.until = sleeps[i]]
                  ELSE [me EXCEPT !.pc = "record", !.until = After(Timeout)]
  <2>1. After(Timeout) \in Nat
    BY <1>0 DEF After, NotificationsAssumption
  <2>2. c \in CallRecords /\ Moved(x, i, c)
    BY <1>0, <1>5, <2>1 DEF SleepCheck, Moved, CallRecords, Busy, Pc
  <2> QED
    BY <1>0, <1>5, <2>2, CallStep DEF SleepCheck, Kept
<1>6. CASE SleepRecord(x, i)
  <2> DEFINE c == [me EXCEPT !.pc = "ready"]
  <2>1. c \in CallRecords /\ Moved(x, i, c)
    BY <1>0, <1>6 DEF SleepRecord, Moved, CallRecords, Busy, Pc
  <2>2. sleeps' \in [Recvs -> Nat \cup {None}]
    BY <1>0, <1>6 DEF SleepRecord, CallRecords
  <2> QED
    BY <1>0, <1>6, <2>1, <2>2, CallStep DEF SleepRecord, Kept
<1>7. CASE SetupDone(x, i)
  <2> DEFINE c == IF me.cancelled = 0 THEN [me EXCEPT !.pc = "wait"]
                  ELSE [me EXCEPT !.pc = "done", !.held = FALSE]
  <2>1. c \in CallRecords /\ Moved(x, i, c)
    BY <1>0, <1>7 DEF SetupDone, Moved, CallRecords, Busy, Pc
  <2> QED
    BY <1>0, <1>7, <2>1, CallStep DEF SetupDone, Kept
<1>8. CASE Recheck(x, i)
  BY <1>8 DEF Recheck, Types, Effect, NoEffect, Kept
<1>9. CASE Wake(x, i)
  <2> DEFINE c == [me EXCEPT !.pc = "consume"]
  <2>1. c \in CallRecords /\ Moved(x, i, c)
    BY <1>0, <1>9 DEF Wake, Moved, CallRecords, Busy, Pc
  <2> QED
    BY <1>0, <1>9, <2>1, CallStep DEF Wake, Kept
<1>10. CASE ConsumeCheck(x, i)
  <2> DEFINE c == IF ops[i] # None
                  THEN [me EXCEPT !.pc = "done", !.held = FALSE,
                                  !.res = IF me.cancelled = 0 THEN ops[i] ELSE None]
                  ELSE [me EXCEPT !.pc = "commit"]
  <2>1. c \in CallRecords /\ Moved(x, i, c)
    BY <1>0, <1>10 DEF ConsumeCheck, Finish, Moved, CallRecords, Busy, Pc
  <2> QED
    BY <1>0, <1>10, <2>1, CallStep DEF ConsumeCheck, Kept
<1>11. CASE CancelRecv(x, i)
  <2>1. cancels' \in Nat /\ cancels' # 0
    BY <1>0, <1>11 DEF CancelRecv
  <2>2. CASE me.pc = "wait" /\ Finish(x, i, None)
    <3> DEFINE c == [me EXCEPT !.pc = "done", !.held = FALSE,
                               !.res = IF me.cancelled = 0 THEN None ELSE None]
    <3>1. c \in CallRecords /\ Set(x, i, c) /\ c.pc = "done" /\ c.res = None
          /\ c.cancelled = me.cancelled
      BY <1>0, <2>2 DEF Finish, CallRecords
    <3>2. Moved(x, i, c)
      BY <1>11, <2>1, <2>2, <3>1 DEF CancelRecv, Moved, Busy
    <3> QED
      BY <1>0, <1>11, <2>1, <3>1, <3>2, CallStep DEF CancelRecv, Kept
  <2>3. CASE /\ me.pc \in {"register", "clash", "check", "sleep", "record", "ready"}
             /\ Set(x, i, [me EXCEPT !.cancelled = @ + 1])
    <3> DEFINE c == [me EXCEPT !.cancelled = @ + 1]
    <3>1. c \in CallRecords /\ c.pc = me.pc /\ c.res = me.res
      BY <1>0 DEF CallRecords
    <3>2. Moved(x, i, c)
      BY <1>11, <2>1, <2>3, <3>1 DEF CancelRecv, Moved, Busy
    <3> QED
      BY <1>0, <1>11, <2>1, <3>1, <3>2, CallStep DEF CancelRecv, Kept
  <2>4. CASE /\ me.pc \in {"consume", "commit"}
             /\ Set(x, i, [me EXCEPT !.cancelled = 1, !.held = FALSE])
    <3> DEFINE c == [me EXCEPT !.cancelled = 1, !.held = FALSE]
    <3>1. c \in CallRecords /\ c.pc = me.pc /\ c.res = me.res
      BY <1>0 DEF CallRecords
    <3>2. Moved(x, i, c)
      BY <1>11, <2>1, <2>4, <3>1 DEF CancelRecv, Moved, Busy
    <3> QED
      BY <1>0, <1>11, <2>1, <3>1, <3>2, CallStep DEF CancelRecv, Kept
  <2> QED
    BY <1>11, <2>2, <2>3, <2>4 DEF CancelRecv
<1>12. CASE ConsumeCommit(x, i)
  <2>1. PICK n \in IF Waiting(Topic(i)) = {} THEN {0} ELSE Oldest(Topic(i)) :
           \/ /\ ops[i] = None
              /\ Take(n)
              /\ ops' = [ops EXCEPT ![i] = n]
              /\ \/ Finish(x, i, n) /\ UNCHANGED lost
                 \/ /\ lost < MaxLost /\ lost' = lost + 1
                    /\ Set(x, i, [call[x][i] EXCEPT !.pc = "consume"])
                    /\ UNCHANGED entry
              /\ UNCHANGED <<parked, tied>>
           \/ /\ ops[i] # None /\ SameInstant /\ tied' = TRUE
              /\ Take(n)
              /\ Finish(x, i, n)
              /\ UNCHANGED <<ops, parked, lost>>
           \/ /\ ops[i] # None
              /\ Finish(x, i, None)
              /\ parked' = IF call[x][i].cancelled = 0 THEN parked \cup {x} ELSE parked
              /\ UNCHANGED <<table, ops, lost, tied>>
    BY <1>12 DEF ConsumeCommit
  <2>2. UNCHANGED <<now, sending, sendStep, sleeps, cancels>> /\ me.pc = "commit"
    BY <1>12 DEF ConsumeCommit, Pc
  <2>3. n = 0 \/ (n \in DOMAIN table /\ n \in Nat)
    BY <2>1 DEF Oldest, Waiting, Types
  <2>4. ASSUME Take(n)
        PROVE  /\ table' \in Seq(Rows) /\ DOMAIN table' = DOMAIN table
               /\ \A m \in DOMAIN table' : table'[m].at <= now
    BY <2>3, <2>4, TakeEffect DEF Types
  <2> DEFINE f(res) == [me EXCEPT !.pc = "done", !.held = FALSE,
                                  !.res = IF me.cancelled = 0 THEN res ELSE None]
             g == [me EXCEPT !.pc = "consume"]
  <2>5. f(n) \in CallRecords /\ f(None) \in CallRecords /\ g \in CallRecords
    BY <1>0, <2>3 DEF CallRecords, Busy
  <2>6. CASE ops[i] = None
    <3>1. Take(n) /\ ops' = [ops EXCEPT ![i] = n] /\ UNCHANGED <<parked, tied>> /\ lost' \in Nat
      BY <1>0, <2>1, <2>6
    <3>2. PICK c \in {f(n), g} : Set(x, i, c)
      BY <2>1, <2>6 DEF Finish
    <3>3. Consumes(x, i, c, n)
      BY <1>0, <2>1, <2>2, <2>6, <3>1, <3>2 DEF Consumes, CallRecords, Busy
    <3>4. call' \in [Executions -> [Recvs -> CallRecords]]
      BY <2>5, <3>2, SetEffect
    <3>5. /\ ops' \in [Recvs -> Nat \cup {None}]
          /\ \A j \in Recvs : ops'[j] \in DOMAIN table \cup {0, None}
      BY <2>3, <3>1 DEF Types
    <3>6. Types'
      BY <2>2, <2>4, <3>1, <3>4, <3>5 DEF Types
    <3> QED
      BY <2>3, <2>5, <3>2, <3>3, <3>6 DEF Effect, ConsumeEffect
  <2>7. CASE tied' = TRUE /\ Take(n) /\ Finish(x, i, n) /\ UNCHANGED <<ops, parked, lost>>
    <3>1. call' \in [Executions -> [Recvs -> CallRecords]]
      BY <2>5, <2>7, SetEffect DEF Finish
    <3>2. Types'
      BY <2>2, <2>4, <2>7, <3>1 DEF Types
    <3> QED
      BY <2>7, <3>2 DEF Effect
  <2>8. CASE /\ ops[i] # None /\ Finish(x, i, None)
             /\ parked' = IF call[x][i].cancelled = 0 THEN parked \cup {x} ELSE parked
             /\ UNCHANGED <<table, ops, lost, tied>>
    <3>1. Moved(x, i, f(None))
      BY <1>0, <2>2, <2>8 DEF Moved, Finish, CallRecords, Busy
    <3> QED
      BY <1>0, <2>2, <2>5, <2>8, <3>1, CallStep DEF Kept
  <2> QED
    BY <2>1, <2>6, <2>7, <2>8
<1> QED
  BY <1>1, <1>2, <1>3, <1>4, <1>5, <1>6, <1>7, <1>8, <1>9, <1>10, <1>11, <1>12 DEF Recv

LEMMA Effects ==
  ASSUME NotificationsAssumption, Types, [Next]_vars
  PROVE  Types' /\ Effect
<1> USE DEF messages, signals, bounds
<1>1. ASSUME NEW p \in Processes, Crash(p)
      PROVE  Types' /\ Effect
  <2>1. call' = [x \in Executions |->
                   IF ProcOf[x] = p THEN [i \in Recvs |-> NoCall] ELSE call[x]]
    BY <1>1 DEF Crash
  <2>2. call' \in [Executions -> [Recvs -> CallRecords]]
    BY <2>1, NoCallType DEF Types
  <2>3. Died
    BY <1>1, <2>1 DEF Died, Crash, Types
  <2>4. Types'
    BY <1>1, <2>2 DEF Crash, Types
  <2> QED
    BY <1>1, <2>3, <2>4 DEF Crash, Effect, DeathEffect, Kept
<1>2. ASSUME NEW p \in Processes, NEW t \in Topics, Notify(p, t) \/ PollEntry(p, t)
      PROVE  Types' /\ Effect
  BY <1>2 DEF Notify, PollEntry, Types, Effect, NoEffect, Kept
<1>3. ASSUME NEW p \in Processes, Disconnect(p) \/ Reconnect(p)
      PROVE  Types' /\ Effect
  BY <1>3 DEF Disconnect, Reconnect, Types, Effect, NoEffect, Kept
<1>4. ASSUME Tick
      PROVE  Types' /\ Effect
  <2>3. \A n \in DOMAIN table : table[n] \in Rows
    BY DEF Types
  <2>1. now' \in Nat /\ now <= now' /\ now \in Nat /\ \A n \in DOMAIN table : table[n].at \in Nat
    BY <1>4, <2>3 DEF Tick, Types, Rows
  <2>2. \A n \in DOMAIN table : table[n].at <= now'
    BY <2>1 DEF Types
  <2> QED
    BY <1>4, <2>1, <2>2 DEF Tick, Types, Effect, NoEffect, Kept
<1>5. CASE UNCHANGED vars
  BY <1>5 DEF vars, Types, Effect, NoEffect, Kept
<1> QED
  BY <1>1, <1>2, <1>3, <1>4, <1>5, SendStep, RecvStep DEF Next, Finished

\* A tie and a cancellation are never forgotten.
LEMMA Grows ==
  ASSUME Types, [Next]_vars
  PROVE  (tied => tied') /\ (cancels' = 0 => cancels = 0)
<1> USE DEF messages, bounds
<1>0. tied \in BOOLEAN /\ cancels \in Nat
  BY DEF Types
<1>1. ASSUME NEW s \in Sends, Send(s)
      PROVE  tied' = tied /\ cancels' = cancels
  BY <1>1 DEF Send
<1>2. ASSUME NEW x \in Executions, NEW i \in Recvs, Recv(x, i)
      PROVE  (tied => tied') /\ cancels' = cancels
  <2>1. CASE ConsumeCommit(x, i)
    BY <2>1 DEF ConsumeCommit
  <2>2. CASE ~ConsumeCommit(x, i)
    BY <1>2, <2>2 DEF Recv, SetupCheck, Register, Clash, SetupPoll, SleepCheck, SleepRecord,
                      SetupDone, Recheck, Wake, ConsumeCheck
  <2> QED
    BY <2>1, <2>2
<1>3. ASSUME NEW x \in Executions, NEW i \in Recvs, CancelRecv(x, i)
      PROVE  tied' = tied /\ cancels' # 0
  BY <1>0, <1>3 DEF CancelRecv
<1>4. ASSUME NEW p \in Processes, NEW t \in Topics, Notify(p, t) \/ PollEntry(p, t)
      PROVE  tied' = tied /\ cancels' = cancels
  BY <1>4 DEF Notify, PollEntry
<1>5. ASSUME NEW p \in Processes, Disconnect(p) \/ Reconnect(p) \/ Crash(p)
      PROVE  tied' = tied /\ cancels' = cancels
  BY <1>5 DEF Disconnect, Reconnect, Crash
<1>6. CASE Tick \/ UNCHANGED vars
  BY <1>6 DEF Tick, vars
<1> QED
  BY <1>1, <1>2, <1>3, <1>4, <1>5, <1>6 DEF Next, Finished

-----------------------------------------------------------------------------
(* Each invariant is kept.                                                 *)

\* Row numbers are neither of the two other recorded outputs.
LEMMA RowNumbers ==
  ASSUME NotificationsAssumption, Types
  PROVE  /\ DOMAIN table = 1..Len(table) /\ Len(table) \in Nat
         /\ 0 \notin DOMAIN table /\ None \notin DOMAIN table /\ None # 0
         /\ \A n \in DOMAIN table :
               table[n] \in Rows /\ table[n].at \in Nat /\ table[n].consumed \in BOOLEAN
<1>1. /\ DOMAIN table = 1..Len(table) /\ Len(table) \in Nat
      /\ \A n \in DOMAIN table : table[n] \in Rows
  BY DEF Types
<1> QED
  BY <1>1 DEF NotificationsAssumption, Rows

\* The row that is consumed.
LEMMA ConsumesRow ==
  ASSUME Types, NEW x, NEW i \in Recvs, NEW c, NEW n \in Nat, Consumes(x, i, c, n)
  PROVE  /\ n = 0 \/ n \in DOMAIN table
         /\ n # 0 => /\ ~table[n].consumed /\ table[n].topic = Topic(i)
                     /\ \A k \in DOMAIN table :
                           ~table[k].consumed /\ table[k].topic = Topic(i)
                           => table[n].at <= table[k].at
  BY DEF Consumes, Oldest, Waiting

LEMMA ConsumedKept ==
  ASSUME NotificationsAssumption, Types, Types', Effect, ~tied', ConsumedInv
  PROVE  ConsumedInv'
<1>0. ops \in [Recvs -> Nat \cup {None}] /\ \A i \in Recvs : ops[i] \in DOMAIN table \cup {0, None}
  BY DEF Types
<1>1. CASE Kept
  BY <1>1 DEF Kept, ConsumedInv
<1>2. ASSUME NEW s \in Sends, Send(s), UNCHANGED ops, table' = table
      PROVE  ConsumedInv'
  BY <1>2 DEF ConsumedInv
<1>3. ASSUME NEW s \in Sends, UNCHANGED ops, Added(s)
      PROVE  ConsumedInv'
  <2>1. /\ DOMAIN table = 1..Len(table) /\ DOMAIN table' = 1..Len(table')
        /\ Len(table) \in Nat /\ Len(table') \in Nat /\ Len(table) <= Len(table')
        /\ 0 \notin DOMAIN table' /\ None \notin DOMAIN table'
    BY <1>3, RowNumbers DEF Added, Types, NotificationsAssumption
  <2>2. \A i \in Recvs : ops'[i] = ops[i] /\ (ops'[i] \in DOMAIN table' => ops[i] \in DOMAIN table)
    BY <1>0, <1>3, <2>1
  <2>3. \A n \in DOMAIN table : n \in DOMAIN table' /\ table'[n] = table[n]
    BY <1>3, <2>1 DEF Added
  <2>4. \A n \in DOMAIN table' \ DOMAIN table : ~table'[n].consumed
    BY <1>3, <2>1 DEF Added
  <2> QED
    BY <2>2, <2>3, <2>4 DEF ConsumedInv
<1>4. ASSUME NEW x \in Executions, NEW i \in Recvs, NEW c \in CallRecords, NEW n \in Nat,
             Consumes(x, i, c, n)
      PROVE  ConsumedInv'
  <2>1. /\ DOMAIN table' = DOMAIN table
        /\ \A m \in DOMAIN table :
              /\ table'[m].topic = table[m].topic
              /\ table'[m].consumed <=> table[m].consumed \/ m = n
    BY <1>4, ConsumesRow, TakeEffect DEF Consumes
  <2>2. ops[i] = None /\ \A j \in Recvs : ops'[j] = IF j = i THEN n ELSE ops[j]
    BY <1>0, <1>4 DEF Consumes
  <2>3. n # 0 => n \in DOMAIN table /\ ~table[n].consumed /\ table[n].topic = Topic(i)
    BY <1>4, ConsumesRow
  <2>4. 0 \notin DOMAIN table /\ None \notin DOMAIN table
    BY RowNumbers
  <2>5. \A m \in DOMAIN table' : table'[m].consumed <=> \E j \in Recvs : ops'[j] = m
    <3> TAKE m \in DOMAIN table'
    <3>1. CASE m = n
      BY <2>1, <2>2, <3>1
    <3>2. CASE m # n
      BY <2>1, <2>2, <2>4, <3>2 DEF ConsumedInv
    <3> QED
      BY <3>1, <3>2
  <2>6. \A j, k \in Recvs : ops'[j] \in DOMAIN table' /\ ops'[j] = ops'[k] => j = k
    BY <2>1, <2>2, <2>3, <2>4 DEF ConsumedInv
  <2>7. \A j \in Recvs : ops'[j] \in DOMAIN table' => table'[ops'[j]].topic = Topic(j)
    BY <2>1, <2>2, <2>3, <2>4 DEF ConsumedInv
  <2> QED
    BY <2>5, <2>6, <2>7 DEF ConsumedInv
<1>a. CASE SendEffect
  BY <1>a, <1>1, <1>2, <1>3, <1>4 DEF SendEffect
<1>b. CASE MoveEffect
  BY <1>b, <1>1, <1>2, <1>3, <1>4 DEF MoveEffect
<1>c. CASE ConsumeEffect
  BY <1>c, <1>1, <1>2, <1>3, <1>4 DEF ConsumeEffect
<1>d. CASE DeathEffect \/ NoEffect
  BY <1>d, <1>1, <1>2, <1>3, <1>4 DEF DeathEffect, NoEffect
<1> QED
  BY <1>a, <1>b, <1>c, <1>d DEF Effect

LEMMA ResultKept ==
  ASSUME NotificationsAssumption, Types, Types', Effect, ~tied', ResultInv
  PROVE  ResultInv'
<1>0. ops \in [Recvs -> Nat \cup {None}]
  BY DEF Types
<1>1. CASE UNCHANGED <<ops, call>>
  BY <1>1 DEF ResultInv
<1>2. ASSUME NEW x \in Executions, NEW i \in Recvs, NEW c \in CallRecords,
             UNCHANGED ops, Moved(x, i, c)
      PROVE  ResultInv'
  <2>1. /\ call'[x][i] = c
        /\ \A y \in Executions, j \in Recvs : y # x \/ j # i => call'[y][j] = call[y][j]
    BY <1>2, SetEffect DEF Moved
  <2>2. c.res \in {None, ops[i]}
    BY <1>2 DEF Moved, ResultInv
  <2> QED
    BY <1>2, <2>1, <2>2 DEF ResultInv
<1>3. ASSUME NEW x \in Executions, NEW i \in Recvs, NEW c \in CallRecords, NEW n \in Nat,
             Consumes(x, i, c, n)
      PROVE  ResultInv'
  <2>1. /\ call'[x][i] = c
        /\ \A y \in Executions, j \in Recvs : y # x \/ j # i => call'[y][j] = call[y][j]
    BY <1>3, SetEffect DEF Consumes
  <2>2. ops[i] = None /\ \A j \in Recvs : ops'[j] = IF j = i THEN n ELSE ops[j]
    BY <1>0, <1>3 DEF Consumes
  <2>3. c.res \in {None, n}
    BY <1>3, <2>2 DEF Consumes, ResultInv
  <2> QED
    BY <2>1, <2>2, <2>3 DEF ResultInv
<1>4. CASE UNCHANGED ops /\ Died
  BY <1>4, NoCallType DEF Died, ResultInv
<1>a. CASE SendEffect
  BY <1>a, <1>1, <1>2, <1>3, <1>4 DEF SendEffect, Kept
<1>b. CASE MoveEffect
  BY <1>b, <1>1, <1>2, <1>3, <1>4 DEF MoveEffect, Kept
<1>c. CASE ConsumeEffect
  BY <1>c, <1>1, <1>2, <1>3, <1>4 DEF ConsumeEffect, Kept
<1>d. CASE DeathEffect \/ NoEffect
  BY <1>d, <1>1, <1>2, <1>3, <1>4 DEF DeathEffect, NoEffect, Kept
<1> QED
  BY <1>a, <1>b, <1>c, <1>d DEF Effect

LEMMA OldestKept ==
  ASSUME NotificationsAssumption, Types, Types', Effect, ~tied', OldestInv
  PROVE  OldestInv'
<1>1. CASE UNCHANGED table
  BY <1>1 DEF OldestInv
<1>2. ASSUME NEW s \in Sends, Added(s)
      PROVE  OldestInv'
  <2>1. /\ DOMAIN table = 1..Len(table) /\ DOMAIN table' = 1..Len(table')
        /\ Len(table) \in Nat /\ Len(table') \in Nat /\ Len(table) <= Len(table')
    BY <1>2, RowNumbers DEF Added, Types
  <2>2. \A n \in DOMAIN table : table'[n] = table[n] /\ table'[n].at <= now
    BY <1>2, <2>1 DEF Added, Types
  <2>3. \A n \in DOMAIN table' \ DOMAIN table : ~table'[n].consumed /\ table'[n].at = now
    BY <1>2, <2>1 DEF Added
  <2> QED
    BY <2>2, <2>3 DEF OldestInv
<1>3. ASSUME NEW x \in Executions, NEW i \in Recvs, NEW c \in CallRecords, NEW n \in Nat,
             Consumes(x, i, c, n)
      PROVE  OldestInv'
  <2>1. /\ DOMAIN table' = DOMAIN table
        /\ \A m \in DOMAIN table :
              /\ table'[m].topic = table[m].topic /\ table'[m].at = table[m].at
              /\ table'[m].consumed <=> table[m].consumed \/ m = n
    BY <1>3, ConsumesRow, TakeEffect DEF Consumes
  <2>2. 0 \notin DOMAIN table
    BY RowNumbers
  <2>3. n # 0 => /\ ~table[n].consumed /\ table[n].topic = Topic(i)
                 /\ \A k \in DOMAIN table :
                       ~table[k].consumed /\ table[k].topic = Topic(i)
                       => table[n].at <= table[k].at
    BY <1>3, ConsumesRow
  <2> QED
    BY <2>1, <2>2, <2>3 DEF OldestInv
<1>a. CASE SendEffect
  BY <1>a, <1>1, <1>2, <1>3 DEF SendEffect, Kept
<1>b. CASE MoveEffect
  BY <1>b, <1>1, <1>2, <1>3 DEF MoveEffect, Kept
<1>c. CASE ConsumeEffect
  BY <1>c, <1>1, <1>2, <1>3 DEF ConsumeEffect, Kept
<1>d. CASE DeathEffect \/ NoEffect
  BY <1>d, <1>1, <1>2, <1>3 DEF DeathEffect, NoEffect, Kept
<1> QED
  BY <1>a, <1>b, <1>c, <1>d DEF Effect

LEMMA InsertedKept ==
  ASSUME NotificationsAssumption, Idempotent, Types, Types', Effect, ~tied', InsertedInv
  PROVE  InsertedInv'
<1>1. CASE Kept
  BY <1>1 DEF Kept, InsertedInv
<1>2. ASSUME NEW s \in Sends, Send(s), table' = table
      PROVE  InsertedInv'
  <2>1. sendStep \subseteq sendStep'
    BY <1>2 DEF Send
  <2> QED
    BY <1>2, <2>1 DEF InsertedInv
<1>3. ASSUME NEW s \in Sends, Send(s), s \notin sendStep, Added(s)
      PROVE  InsertedInv'
  <2>1. /\ DOMAIN table = 1..Len(table) /\ DOMAIN table' = 1..Len(table')
        /\ Len(table) \in Nat /\ Len(table') \in Nat /\ Len(table) <= Len(table')
    BY <1>3, RowNumbers DEF Added, Types
  <2>2. \A n \in DOMAIN table : n \in DOMAIN table' /\ table'[n] = table[n]
    BY <1>3, <2>1 DEF Added
  <2>3. /\ \A n \in DOMAIN table' \ DOMAIN table : table'[n].msg \in Inserted(s)
        /\ \A m, n \in DOMAIN table' \ DOMAIN table : table'[m].msg = table'[n].msg => m = n
    BY <1>3, <2>1 DEF Added
  <2>4. sendStep' = IF s \in InWorkflow THEN sendStep \cup {s} ELSE sendStep
    BY <1>3 DEF Send
  <2>5. ASSUME NEW m \in Inserted(s)
        PROVE  m \in Batch[s] /\ \A n \in DOMAIN table : table[n].msg # m
    BY <1>3, <2>5 DEF Inserted, InsertedInv
  <2>6. \A m, n \in DOMAIN table' : table'[m].msg = table'[n].msg => m = n
    <3> SUFFICES ASSUME NEW m \in DOMAIN table', NEW n \in DOMAIN table',
                        table'[m].msg = table'[n].msg
                 PROVE  m = n
      OBVIOUS
    <3>1. CASE m \in DOMAIN table /\ n \in DOMAIN table
      BY <2>2, <3>1 DEF InsertedInv
    <3>2. CASE m \in DOMAIN table /\ n \notin DOMAIN table
      BY <2>2, <2>3, <2>5, <3>2
    <3>3. CASE m \notin DOMAIN table /\ n \in DOMAIN table
      BY <2>2, <2>3, <2>5, <3>3
    <3>4. CASE m \notin DOMAIN table /\ n \notin DOMAIN table
      BY <2>3, <3>4
    <3> QED
      BY <3>1, <3>2, <3>3, <3>4
  <2>7. ASSUME NEW n \in DOMAIN table', Key[table'[n].msg] = None,
               NEW r \in Sends, table'[n].msg \in Batch[r]
        PROVE  r \in sendStep'
    <3>1. CASE n \in DOMAIN table
      BY <2>2, <2>4, <2>7, <3>1 DEF InsertedInv
    <3>2. CASE n \notin DOMAIN table
      BY <2>3, <2>4, <2>5, <2>7, <3>2 DEF Idempotent
    <3> QED
      BY <3>1, <3>2
  <2> QED
    BY <2>6, <2>7 DEF InsertedInv
<1>4. ASSUME NEW x \in Executions, NEW i \in Recvs, NEW c \in CallRecords, NEW n \in Nat,
             Consumes(x, i, c, n)
      PROVE  InsertedInv'
  <2>1. /\ DOMAIN table' = DOMAIN table
        /\ \A m \in DOMAIN table : table'[m].msg = table[m].msg
    BY <1>4, ConsumesRow, TakeEffect DEF Consumes
  <2>2. sendStep' = sendStep
    BY <1>4 DEF Consumes
  <2> QED
    BY <2>1, <2>2 DEF InsertedInv
<1>a. CASE SendEffect
  BY <1>a, <1>1, <1>2, <1>3, <1>4 DEF SendEffect
<1>b. CASE MoveEffect
  BY <1>b, <1>1, <1>2, <1>3, <1>4 DEF MoveEffect
<1>c. CASE ConsumeEffect
  BY <1>c, <1>1, <1>2, <1>3, <1>4 DEF ConsumeEffect
<1>d. CASE DeathEffect \/ NoEffect
  BY <1>d, <1>1, <1>2, <1>3, <1>4 DEF DeathEffect, NoEffect
<1> QED
  BY <1>a, <1>b, <1>c, <1>d DEF Effect

\* A call that moves or consumes belongs to an execution that is not parked:
\* the calls before it have returned, and those after it are not made.
LEMMA Current ==
  ASSUME NotificationsAssumption, Types, SequenceInv, ~Gathered,
         NEW x \in Executions, NEW i \in Recvs,
         call[x][i].pc \in Busy \/ MayCall(x, i)
  PROVE  /\ x \notin parked
         /\ \A j \in Recvs : j < i => call[x][j].pc = "done"
         /\ \A j \in Recvs : i < j => call[x][j].pc = "idle"
<1>1. call[x][i].pc \in Busy \cup {"idle"} /\ call[x][i].pc # "done"
  BY DEF MayCall, Pc, Busy
<1>2. \A j \in Recvs : i < j => call[x][j].pc = "idle"
  BY <1>1 DEF SequenceInv
<1>3. CASE call[x][i].pc \in Busy
  BY <1>2, <1>3 DEF SequenceInv, Busy
<1>4. CASE MayCall(x, i)
  <2>1. x \notin parked /\ \A j \in 1..(i - 1) : Returned(x, j)
    BY <1>4 DEF MayCall
  <2>2. \A j \in Recvs : j < i => j \in 1..(i - 1)
    BY RecvsType
  <2>3. \A j \in Recvs : j < i => call[x][j].pc = "done"
    BY <2>1, <2>2 DEF Returned, Pc, SequenceInv
  <2> QED
    BY <1>2, <2>1, <2>3
<1> QED
  BY <1>3, <1>4

LEMMA SequenceKept ==
  ASSUME NotificationsAssumption, ~Gathered, Types, Types', Effect, ~tied', cancels' = 0,
         SequenceInv
  PROVE  SequenceInv'
<1>0. /\ ops \in [Recvs -> Nat \cup {None}] /\ None \notin Nat
      /\ call \in [Executions -> [Recvs -> CallRecords]]
      /\ \A i, j \in Recvs : (i < j => ~(j < i) /\ i # j) /\ (i # j => i < j \/ j < i)
  BY RecvsType DEF Types, NotificationsAssumption
<1>1. CASE UNCHANGED <<ops, call, parked>>
  BY <1>1 DEF SequenceInv
<1>2. ASSUME NEW x \in Executions, NEW i \in Recvs, NEW c \in CallRecords,
             UNCHANGED ops, Moved(x, i, c)
      PROVE  SequenceInv'
  <2>1. /\ call'[x][i] = c
        /\ \A y \in Executions, j \in Recvs : y # x \/ j # i => call'[y][j] = call[y][j]
    BY <1>2, SetEffect DEF Moved
  <2>2. /\ x \notin parked
        /\ \A j \in Recvs : j < i => call[x][j].pc = "done"
        /\ \A j \in Recvs : i < j => call[x][j].pc = "idle"
    BY <1>2, Current DEF Moved
  <2>3. c.cancelled = 0
    BY <1>2 DEF Moved, SequenceInv
  <2>4. /\ c.pc \in Busy \cup {"done"}
        /\ c.pc = "done" => ops[i] # None \/ x \in parked'
        /\ x \in parked' => c.pc = "done"
        /\ \A y \in Executions : y # x => (y \in parked' <=> y \in parked)
    <3>1. call[x][i].cancelled = 0
      BY DEF SequenceInv
    <3>2. CASE c.pc \in Busy /\ UNCHANGED parked
      <4>1. c.pc # "done"
        BY <3>2 DEF Busy
      <4> QED
        BY <2>2, <3>2, <4>1
    <3>3. CASE /\ c.pc = "done" /\ parked' \in {parked, parked \cup {x}}
               /\ ops[i] # None \/ x \in parked'
      BY <3>3
    <3> QED
      BY <1>2, <3>1, <3>2, <3>3 DEF Moved
  <2>5. \A y \in Executions, j \in Recvs :
           /\ call'[y][j].cancelled = 0
           /\ call'[y][j].pc = "done" => ops'[j] # None \/ y \in parked'
           /\ y \in parked' => call'[y][j].pc \in {"idle", "done"}
    <3> SUFFICES ASSUME NEW y \in Executions, NEW j \in Recvs
                 PROVE  /\ call'[y][j].cancelled = 0
                        /\ call'[y][j].pc = "done" => ops'[j] # None \/ y \in parked'
                        /\ y \in parked' => call'[y][j].pc = "idle" \/ call'[y][j].pc = "done"
      OBVIOUS
    <3>1. CASE y = x /\ j = i
      BY <1>2, <2>1, <2>3, <2>4, <3>1
    <3>2. CASE y = x /\ j # i
      BY <1>0, <1>2, <2>1, <2>2, <3>2 DEF SequenceInv
    <3>3. CASE y # x
      BY <1>2, <2>1, <2>4, <3>3 DEF SequenceInv
    <3> QED
      BY <3>1, <3>2, <3>3
  <2>6. ASSUME NEW y \in Executions, NEW j \in Recvs, NEW k \in Recvs, j < k,
               call'[y][k].pc # "idle"
        PROVE  call'[y][j].pc = "done"
    <3>1. CASE y # x
      BY <2>1, <2>6, <3>1 DEF SequenceInv
    <3>2. CASE y = x /\ k = i
      BY <1>0, <2>1, <2>2, <2>6, <3>2
    <3>3. CASE y = x /\ k # i /\ j = i
      BY <1>0, <2>1, <2>2, <2>6, <3>3
    <3>4. CASE y = x /\ k # i /\ j # i
      BY <2>1, <2>6, <3>4 DEF SequenceInv
    <3> QED
      BY <3>1, <3>2, <3>3, <3>4
  <2> QED
    BY <1>2, <2>5, <2>6 DEF SequenceInv
<1>3. ASSUME NEW x \in Executions, NEW i \in Recvs, NEW c \in CallRecords, NEW n \in Nat,
             Consumes(x, i, c, n)
      PROVE  SequenceInv'
  <2>1. /\ call'[x][i] = c
        /\ \A y \in Executions, j \in Recvs : y # x \/ j # i => call'[y][j] = call[y][j]
    BY <1>3, SetEffect DEF Consumes
  <2>2. /\ x \notin parked /\ call[x][i].pc # "idle"
        /\ \A j \in Recvs : j < i => call[x][j].pc = "done"
        /\ \A j \in Recvs : i < j => call[x][j].pc = "idle"
    BY <1>3, Current DEF Consumes, Busy
  <2>3. c.cancelled = 0 /\ c.pc \in Busy \cup {"done"} /\ parked' = parked
    BY <1>3 DEF Consumes, SequenceInv
  <2>4. /\ ops[i] = None /\ \A j \in Recvs : ops'[j] = IF j = i THEN n ELSE ops[j]
        /\ n # None
    BY <1>0, <1>3 DEF Consumes
  <2>5. \A y \in Executions, j \in Recvs :
           /\ call'[y][j].cancelled = 0
           /\ call'[y][j].pc = "done" => ops'[j] # None \/ y \in parked'
           /\ y \in parked' => call'[y][j].pc \in {"idle", "done"}
    <3> SUFFICES ASSUME NEW y \in Executions, NEW j \in Recvs
                 PROVE  /\ call'[y][j].cancelled = 0
                        /\ call'[y][j].pc = "done" => ops'[j] # None \/ y \in parked'
                        /\ y \in parked' => call'[y][j].pc = "idle" \/ call'[y][j].pc = "done"
      OBVIOUS
    <3>1. CASE y = x /\ j = i
      BY <2>1, <2>2, <2>3, <2>4, <3>1
    <3>2. CASE y # x \/ j # i
      BY <2>1, <2>3, <2>4, <3>2 DEF SequenceInv
    <3> QED
      BY <3>1, <3>2
  <2>6. ASSUME NEW y \in Executions, NEW j \in Recvs, NEW k \in Recvs, j < k,
               call'[y][k].pc # "idle"
        PROVE  call'[y][j].pc = "done"
    <3>1. CASE y # x
      BY <2>1, <2>6, <3>1 DEF SequenceInv
    <3>2. CASE y = x /\ k = i
      BY <1>0, <2>1, <2>2, <2>6, <3>2
    <3>3. CASE y = x /\ k # i /\ j = i
      BY <1>0, <2>1, <2>2, <2>6, <3>3
    <3>4. CASE y = x /\ k # i /\ j # i
      BY <2>1, <2>6, <3>4 DEF SequenceInv
    <3> QED
      BY <3>1, <3>2, <3>3, <3>4
  <2>7. ASSUME NEW j \in Recvs, NEW k \in Recvs, j < k, ops'[k] # None
        PROVE  ops'[j] # None
    <3>1. CASE k = i
      BY <1>0, <2>2, <2>4, <2>7, <3>1 DEF SequenceInv
    <3>2. CASE k # i
      BY <2>4, <2>7, <3>2 DEF SequenceInv
    <3> QED
      BY <3>1, <3>2
  <2> QED
    BY <2>5, <2>6, <2>7 DEF SequenceInv
<1>4. CASE UNCHANGED ops /\ Died
  <2>1. ASSUME NEW y \in Executions, NEW j \in Recvs
        PROVE  /\ call'[y][j].cancelled = 0
               /\ call'[y][j].pc = "done" => ops'[j] # None \/ y \in parked'
               /\ y \in parked' => call'[y][j].pc \in {"idle", "done"}
    BY <1>4, NoCallType DEF Died, SequenceInv
  <2>2. ASSUME NEW y \in Executions, NEW j \in Recvs, NEW k \in Recvs, j < k,
               call'[y][k].pc # "idle"
        PROVE  call'[y][j].pc = "done"
    BY <1>4, <2>2, NoCallType DEF Died, SequenceInv
  <2> QED
    BY <1>4, <2>1, <2>2 DEF SequenceInv
<1>a. CASE SendEffect
  BY <1>a, <1>1 DEF SendEffect
<1>b. CASE MoveEffect
  BY <1>b, <1>2 DEF MoveEffect, Kept
<1>c. CASE ConsumeEffect
  BY <1>c, <1>3 DEF ConsumeEffect
<1>d. CASE DeathEffect \/ NoEffect
  BY <1>d, <1>1, <1>4 DEF DeathEffect, NoEffect, Kept
<1> QED
  BY <1>a, <1>b, <1>c, <1>d DEF Effect

LEMMA OrderKept ==
  ASSUME NotificationsAssumption, Types, Types', Effect, ~tied',
         ConsumedInv, OldestInv, SequenceInv, OrderInv
  PROVE  OrderInv'
<1>0. /\ ops \in [Recvs -> Nat \cup {None}]
      /\ \A i \in Recvs : ops[i] \in DOMAIN table \cup {0, None}
  BY DEF Types
<1>1. CASE UNCHANGED <<table, ops>>
  BY <1>1 DEF OrderInv
<1>2. ASSUME NEW s \in Sends, UNCHANGED ops, Added(s)
      PROVE  OrderInv'
  <2>1. /\ DOMAIN table = 1..Len(table) /\ DOMAIN table' = 1..Len(table')
        /\ 0 \notin DOMAIN table' /\ None \notin DOMAIN table'
    BY <1>2, RowNumbers DEF Types, NotificationsAssumption
  <2>2. \A i \in Recvs : ops'[i] = ops[i] /\ (ops'[i] \in DOMAIN table' => ops[i] \in DOMAIN table)
    BY <1>0, <1>2, <2>1
  <2>3. \A n \in DOMAIN table : table'[n] = table[n]
    BY <1>2, <2>1 DEF Added
  <2> QED
    BY <2>2, <2>3 DEF OrderInv
<1>3. ASSUME NEW x \in Executions, NEW i \in Recvs, NEW c \in CallRecords, NEW n \in Nat,
             Consumes(x, i, c, n)
      PROVE  OrderInv'
  <2>1. /\ DOMAIN table' = DOMAIN table
        /\ \A m \in DOMAIN table :
              table'[m].topic = table[m].topic /\ table'[m].at = table[m].at
    BY <1>3, ConsumesRow, TakeEffect DEF Consumes
  <2>2. ops[i] = None /\ \A j \in Recvs : ops'[j] = IF j = i THEN n ELSE ops[j]
    BY <1>0, <1>3 DEF Consumes
  <2>3. n # 0 => ~table[n].consumed
    BY <1>3, ConsumesRow
  <2>4. 0 \notin DOMAIN table /\ None \notin DOMAIN table
    BY RowNumbers
  <2> SUFFICES ASSUME NEW j \in Recvs, NEW k \in Recvs, j < k,
                      ops'[j] \in DOMAIN table, ops'[k] \in DOMAIN table,
                      table[ops'[j]].topic = table[ops'[k]].topic
               PROVE  table[ops'[j]].at <= table[ops'[k]].at
    BY <2>1 DEF OrderInv
  <2>5. j # k
    BY RecvsType
  <2>6. CASE k = i
    <3>1. ops'[k] = n /\ n \in DOMAIN table /\ ~table[n].consumed
      BY <2>2, <2>3, <2>4, <2>6
    <3>2. ops'[j] = ops[j] /\ table[ops[j]].consumed
      BY <2>2, <2>5, <2>6 DEF ConsumedInv
    <3> QED
      BY <3>1, <3>2 DEF OldestInv
  <2>7. CASE j = i
    <3>1. ops[k] # None
      BY <2>2, <2>4, <2>5, <2>7
    <3> QED
      BY <2>2, <2>7, <3>1 DEF SequenceInv
  <2>8. CASE j # i /\ k # i
    BY <2>2, <2>8 DEF OrderInv
  <2> QED
    BY <2>6, <2>7, <2>8
<1>a. CASE SendEffect
  BY <1>a, <1>1, <1>2 DEF SendEffect
<1>b. CASE MoveEffect
  BY <1>b, <1>1 DEF MoveEffect, Kept
<1>c. CASE ConsumeEffect
  BY <1>c, <1>3 DEF ConsumeEffect
<1>d. CASE DeathEffect \/ NoEffect
  BY <1>d, <1>1 DEF DeathEffect, NoEffect, Kept
<1> QED
  BY <1>a, <1>b, <1>c, <1>d DEF Effect

-----------------------------------------------------------------------------
(* The theorems.                                                           *)

\* The invariants, under the conditions that each of them needs.
RecordInv == Types /\ (~tied => ConsumedInv /\ ResultInv /\ OldestInv)
OnceInv == ~tied => InsertedInv
SequentialInv == ~tied /\ cancels = 0 => SequenceInv /\ OrderInv

LEMMA InitHolds ==
  ASSUME NotificationsAssumption, Init
  PROVE  RecordInv /\ OnceInv /\ SequentialInv
<1>1. call = [x \in Executions |-> [i \in Recvs |-> NoCall]] /\ ops = [i \in Recvs |-> None]
      /\ table = << >> /\ DOMAIN table = {}
  BY DEF Init
<1>2. call \in [Executions -> [Recvs -> CallRecords]]
      /\ \A x \in Executions, i \in Recvs : call[x][i] = NoCall
  BY <1>1, NoCallType
<1>3. Types
  <2>1. table \in Seq(Rows) /\ ops \in [Recvs -> Nat \cup {None}] /\ \A i \in Recvs : ops[i] = None
    BY <1>1
  <2>2. /\ now = 0 /\ sending = Sends /\ sendStep = {} /\ tied = FALSE /\ cancels = 0 /\ lost = 0
        /\ sleeps \in [Recvs -> Nat \cup {None}]
    BY DEF Init
  <2> QED
    BY <1>1, <1>2, <2>1, <2>2 DEF Types
<1>4. ConsumedInv /\ OldestInv /\ InsertedInv /\ OrderInv
  BY <1>1 DEF ConsumedInv, OldestInv, InsertedInv, OrderInv
<1>5. ResultInv
  BY <1>2, NoCallType DEF ResultInv
<1>6. SequenceInv
  BY <1>1, <1>2, NoCallType DEF SequenceInv
<1> QED
  BY <1>3, <1>4, <1>5, <1>6 DEF RecordInv, OnceInv, SequentialInv

LEMMA RecordsHold ==
  ASSUME NotificationsAssumption
  PROVE  Spec => []RecordInv
<1>1. ASSUME RecordInv, [Next]_vars
      PROVE  RecordInv'
  <2>1. Types /\ Types' /\ Effect /\ (~tied' => ~tied)
    BY <1>1, Effects, Grows DEF RecordInv
  <2> QED
    BY <1>1, <2>1, ConsumedKept, ResultKept, OldestKept DEF RecordInv
<1> QED
  BY <1>1, InitHolds, PTL DEF Spec

\* A message is consumed exactly when one recv has it recorded, and what an
\* execution receives is what is recorded, whatever processes crash, answers
\* to commits are lost, calls are cancelled, and executions run at once: for
\* every workflow, sequential or not, as long as no two records carry the same
\* time (recv_consume).
THEOREM ReceivedOnce ==
  ASSUME NotificationsAssumption
  PROVE  Spec => [](~tied => ConsumedOnce /\ SameMessage)
<1>1. RecordInv => (~tied => ConsumedOnce /\ SameMessage)
  BY DEF RecordInv, Types, ConsumedInv, ResultInv, ConsumedOnce, SameMessage
<1> QED
  BY <1>1, RecordsHold, PTL

LEMMA InsertedHolds ==
  ASSUME NotificationsAssumption, Idempotent
  PROVE  Spec => []OnceInv
<1>1. ASSUME RecordInv, OnceInv, [Next]_vars
      PROVE  OnceInv'
  <2>1. Types /\ Types' /\ Effect /\ (~tied' => ~tied)
    BY <1>1, Effects, Grows DEF RecordInv
  <2> QED
    BY <1>1, <2>1, InsertedKept DEF OnceInv
<1> QED
  BY <1>1, InitHolds, RecordsHold, PTL DEF Spec

LEMMA SequenceHolds ==
  ASSUME NotificationsAssumption, ~Gathered
  PROVE  Spec => []SequentialInv
<1>1. ASSUME RecordInv, SequentialInv, [Next]_vars
      PROVE  SequentialInv'
  <2>1. Types /\ Types' /\ Effect /\ (~tied' => ~tied) /\ (cancels' = 0 => cancels = 0)
    BY <1>1, Effects, Grows DEF RecordInv
  <2>2. ASSUME ~tied', cancels' = 0
        PROVE  SequenceInv' /\ OrderInv'
    <3>1. ConsumedInv /\ OldestInv /\ SequenceInv /\ OrderInv
      BY <1>1, <2>1, <2>2 DEF RecordInv, SequentialInv
    <3> QED
      BY <2>1, <2>2, <3>1, SequenceKept, OrderKept
  <2> QED
    BY <2>2 DEF SequentialInv
<1> QED
  BY <1>1, InitHolds, RecordsHold, PTL DEF Spec

\* A message is delivered to one recv, in order, and every execution of that
\* recv gets it, when every message has an idempotency key or is sent in a step
\* of a workflow and the recv calls follow each other (send, recv_consume).
THEOREM Delivered ==
  ASSUME NotificationsAssumption, Idempotent, ~Gathered
  PROVE  Spec => []DeliveredOnce
<1>1. RecordInv /\ OnceInv /\ SequentialInv => DeliveredOnce
  <2> SUFFICES ASSUME RecordInv, OnceInv, SequentialInv, ~tied
               PROVE  ConsumedOnce /\ SameMessage /\ SentOnce /\ InOrder
    BY DEF DeliveredOnce
  <2>1. /\ Types /\ ConsumedInv /\ ResultInv /\ InsertedInv
        /\ DOMAIN ops = Recvs /\ DOMAIN call = Executions
    BY DEF RecordInv, OnceInv, Types
  <2>2. ConsumedOnce /\ SameMessage
    BY <2>1 DEF ConsumedInv, ResultInv, ConsumedOnce, SameMessage
  <2>3. SentOnce
    BY <2>1 DEF ConsumedInv, InsertedInv, SentOnce
  <2>4. InOrder
    BY <2>1 DEF SequentialInv, OrderInv, InOrder
  <2> QED
    BY <2>2, <2>3, <2>4
<1> QED
  BY <1>1, RecordsHold, InsertedHolds, SequenceHolds, PTL
=============================================================================

------------------------- MODULE QueueDispatchProofs -------------------------
(***************************************************************************)
(* Queues, for any number of executors, workflows, partitions, cancels and *)
(* crashes: a workflow is dispatched to one executor, of its version, and  *)
(* not before its delay is over; a process runs no more workflows of a     *)
(* partition than its worker concurrency; and no more workflows of a       *)
(* partition are PENDING than its concurrency, if the queue is first in,   *)
(* first out.                                                              *)
(***************************************************************************)
EXTENDS QueueDispatch, FiniteSetTheorems, TLAPS

\* The variables have their types; a transaction that has begun has a snapshot,
\* and one that has rows has locked them.
TxRecords ==
    [pc : {"idle", "begun", "locked"}, part : Partitions \cup {None},
     snap : [Workflows -> WfRecords] \cup {NoRow}, at : Nat, room : Nat,
     ids : SUBSET Workflows]

TxOK(t) ==
    /\ t.pc # "idle" => t.snap \in [Workflows -> WfRecords] /\ t.part \in Partitions
    /\ t.pc # "locked" => t.ids = {}

Types ==
    /\ now \in Nat
    /\ wf \in [Workflows -> WfRecords]
    /\ tx \in [Executors -> TxRecords] /\ \A e \in Executors : TxOK(tx[e])
    /\ pool \in [Executors -> SUBSET Workflows]
    /\ running \in [Executors -> SUBSET Workflows]
    /\ todo \in [Executors -> SUBSET Workflows]

\* What a dead process has: nothing.
DownInv ==
    \A e \in Executors \ up :
        tx[e].pc = "idle" /\ pool[e] = {} /\ running[e] = {} /\ todo[e] = {}

\* What a process has dispatched and not finished, of a partition.
Held(e) == pool[e] \cup running[e]

\* A process holds what it dequeued, which stays its own; what it is about to
\* return to the queue it does not hold.
HeldInv ==
    \A e \in Executors :
        /\ \A w \in Held(e) :
              /\ wf[w].status \in {"PENDING", "SUCCESS", "CANCELLED"}
              /\ wf[w].ver = ExecVersion[e]
              /\ wf[w].exec = e
        /\ \A w \in todo[e] :
              /\ wf[w].status \in {"PENDING", "SUCCESS", "CANCELLED"}
              /\ wf[w].exec = e /\ w \notin Held(e)

\* A locked row is in the queue, for one transaction, whose executor may run it.
LockInv ==
    \A e \in Executors, w \in Workflows : w \in tx[e].ids =>
        /\ wf[w].status = "ENQUEUED" /\ VersionOk(e, wf[w])
        /\ \A f \in Executors : w \in tx[f].ids => f = e

\* A row has the version that was asked for, and is in the queue when its delay
\* is over.
RowInv ==
    \A w \in Workflows :
        /\ wf[w].status # "ABSENT" => WfVersion[w] \in {None, wf[w].ver}
        /\ wf[w].status \in {"ENQUEUED", "PENDING", "SUCCESS"} => wf[w].delay <= now

DispatchInv == Types /\ DownInv /\ HeldInv /\ LockInv /\ RowInv

\* Rows are numbered in the order of their creation, and a snapshot has the
\* numbers of the rows.
Present(rows) == {w \in Workflows : rows[w].status # "ABSENT"}

Numbered(rows) ==
    \A v, w \in Present(rows) : v # w => rows[v].created # rows[w].created

CreatedInv ==
    /\ Numbered(wf) /\ \A w \in Present(wf) : wf[w].created \in 1..Cardinality(Present(wf))
    /\ \A e \in Executors : tx[e].pc # "idle" =>
          \A w \in Present(tx[e].snap) :
              w \in Present(wf) /\ wf[w].created = tx[e].snap[w].created

\* What a process holds, and has room for, is within the worker concurrency: it
\* holds nothing without a thread when it begins to dequeue.
HeldOf(e, p) == {w \in Held(e) : Partition[w] = p}

WorkerInv ==
    \A e \in Executors :
        /\ \A p \in Partitions : Cardinality(HeldOf(e, p)) <= WorkerConcurrency
        /\ tx[e].pc # "idle" =>
              /\ pool[e] = {}
              /\ Cardinality(HeldOf(e, tx[e].part)) + tx[e].room <= WorkerConcurrency
              /\ Cardinality(tx[e].ids) <= tx[e].room
              /\ \A w \in tx[e].ids : Partition[w] = tx[e].part

\* What a transaction will lock, by its snapshot; the rows up to these in the
\* order of the queue; and the rows that are then PENDING at most.
Plan(t) == FirstOf(t.room, InStatus(t.snap, t.part, {"ENQUEUED"}), t.snap)
Reach(rows, t) ==
    {w \in InStatus(rows, t.part, {"ENQUEUED"}) :
        \E v \in Plan(t) : rows[w].created <= rows[v].created}
Bound(rows, t) == InStatus(rows, t.part, {"PENDING"}) \cup Reach(rows, t)

\* With a first-in, first-out queue: if every transaction that has begun
\* committed what it has planned, the queue were within its concurrency.
RoomInv ==
    /\ \A w \in Workflows : wf[w].status # "DELAYED"
    /\ \A p \in Partitions : Cardinality(InStatus(wf, p, {"PENDING"})) <= Concurrency
    /\ \A e \in Executors : tx[e].pc # "idle" =>
          Cardinality(Bound(wf, tx[e])) <= Concurrency /\ tx[e].ids \subseteq Plan(tx[e])

LEMMA NoTxType == NoTx \in TxRecords /\ TxOK(NoTx) /\ NoTx.ids = {} /\ NoTx.pc = "idle"
  BY DEF NoTx, TxRecords, TxOK

LEMMA DelayType ==
  ASSUME QueueAssumption, NEW d \in Delays
  PROVE  d \in Nat
  BY Zenon DEF QueueAssumption

LEMMA FirstOfType ==
  ASSUME NEW n, NEW S, NEW rows
  PROVE  FirstOf(n, S, rows) \subseteq S
  BY DEF FirstOf

LEMMA TakenType ==
  ASSUME NEW e \in Executors
  PROVE  Taken(e) \subseteq tx[e].ids
  BY FirstOfType DEF Taken

LEMMA CandidatesType ==
  ASSUME NEW e \in Executors, NEW rows, NEW w \in Candidates(e, rows)
  PROVE  /\ w \in Workflows /\ Partition[w] = tx[e].part
         /\ rows[w].status = "ENQUEUED" /\ VersionOk(e, rows[w])
  BY DEF Candidates, InStatus

LEMMA ChosenType ==
  ASSUME NEW e \in Executors, NEW w \in Chosen(e)
  PROVE  w \in Candidates(e, Rows(e))
<1>1. Chosen(e) \subseteq IF SkipLocked THEN Candidates(e, Rows(e)) \ LockedByOthers(e)
                          ELSE Candidates(e, Rows(e))
  BY FirstOfType DEF Chosen
<1> QED
  BY <1>1

LEMMA RoomType ==
  ASSUME QueueAssumption, Types, NEW e \in Executors, NEW p
  PROVE  Room(e, p) \in Nat
<1>1. Cardinality(Workflows) \in Nat
  BY FS_CardinalityType DEF QueueAssumption
<1>2. /\ Cardinality({w \in running[e] : Partition[w] = p}) \in Nat
      /\ Cardinality(InStatus(wf, p, {"PENDING"})) \in Nat
  <2>1. /\ {w \in running[e] : Partition[w] = p} \in SUBSET Workflows
        /\ InStatus(wf, p, {"PENDING"}) \in SUBSET Workflows
    BY DEF Types, InStatus
  <2>2. IsFiniteSet(Workflows)
    BY DEF QueueAssumption
  <2> QED
    BY <2>1, <2>2, FS_Subset, FS_CardinalityType
<1>3. \A a, b \in Nat : Minus(a, b) \in Nat /\ Lower(a, b) \in Nat
  BY DEF Minus, Lower
<1> QED
  BY <1>1, <1>2, <1>3 DEF Room, QueueAssumption

LEMMA TypesStep ==
  ASSUME QueueAssumption, Types, [Next]_vars
  PROVE  Types'
<1> USE DEF Types
<1>0. /\ None \in Versions
      /\ \A w \in Workflows : WfVersion[w] \in Versions
      /\ \A e \in Executors : ExecVersion[e] \in Versions
  BY DEF Versions
<1>1. ASSUME NEW w \in Workflows, NEW d \in Delays, Enqueue(w, d)
      PROVE  Types'
  <2>1. d \in Nat /\ now + d \in Nat
    BY DelayType
  <2>2. 1 + Cardinality({v \in Workflows : wf[v].status # "ABSENT"}) \in Nat
    <3>1. {v \in Workflows : wf[v].status # "ABSENT"} \in SUBSET Workflows
      OBVIOUS
    <3> HIDE DEF Types
    <3> QED
      BY <3>1, FS_Subset, FS_CardinalityType DEF QueueAssumption
  <2>3. wf' \in [Workflows -> WfRecords]
    BY <1>0, <1>1, <2>1, <2>2 DEF Enqueue, WfRecords, NoRow
  <2> QED
    BY <1>1, <2>3 DEF Enqueue, locals
<1>2. ASSUME NEW w \in Workflows, NEW d \in Delays, SetDelay(w, d)
      PROVE  Types'
  <2>1. now + d \in Nat
    BY DelayType
  <2> QED
    BY <1>2, <2>1 DEF SetDelay, WfRecords, locals
<1>3. ASSUME NEW w \in Workflows, Cancel(w)
      PROVE  Types'
  <2>1. [wf[w] EXCEPT !.status = "CANCELLED", !.started = None] \in WfRecords
    BY DEF WfRecords
  <2>2. wf' = [wf EXCEPT ![w] = [wf[w] EXCEPT !.status = "CANCELLED", !.started = None]]
    BY <1>3 DEF Cancel
  <2> QED
    BY <1>3, <2>1, <2>2 DEF Cancel, locals
<1>4. ASSUME NEW e \in Executors, TransitionDelayed(e)
      PROVE  Types'
  BY <1>4 DEF TransitionDelayed, WfRecords, locals
<1>5. ASSUME NEW e \in Executors, NEW p \in Partitions, Begin(e, p)
      PROVE  Types'
  <2>1. Room(e, p) \in Nat
    BY RoomType
  <2>2. [NoTx EXCEPT !.pc = "begun", !.part = p, !.snap = wf, !.at = now, !.room = Room(e, p)]
          \in {t \in TxRecords : TxOK(t)}
    BY <2>1 DEF NoTx, TxRecords, TxOK
  <2> QED
    BY <1>5, <2>2 DEF Begin
<1>6. ASSUME NEW e \in Executors, LockRows(e)
      PROVE  Types'
  <2>1. Chosen(e) \in SUBSET Workflows
    BY ChosenType, CandidatesType
  <2>2. [tx[e] EXCEPT !.pc = "locked", !.ids = Chosen(e)] \in {t \in TxRecords : TxOK(t)}
    BY <2>1, <1>6 DEF TxRecords, TxOK, LockRows
  <2>3. tx' = [tx EXCEPT ![e] = NoTx]
        \/ tx' = [tx EXCEPT ![e] = [tx[e] EXCEPT !.pc = "locked", !.ids = Chosen(e)]]
    BY <1>6 DEF LockRows
  <2> QED
    BY <1>6, <2>2, <2>3, NoTxType DEF LockRows
<1>7. ASSUME NEW e \in Executors, Commit(e)
      PROVE  Types'
  <2>1. Taken(e) \in SUBSET Workflows
    BY TakenType DEF TxRecords
  <2>2. tx[e].at \in Nat /\ ExecVersion[e] \in Versions
    BY <1>0 DEF TxRecords
  <2>3. wf' \in [Workflows -> WfRecords]
    <3>1. ASSUME NEW v \in Workflows
          PROVE  [wf[v] EXCEPT !.status = "PENDING", !.exec = e, !.started = tx[e].at,
                               !.ver = ExecVersion[e]] \in WfRecords
      BY <2>2 DEF WfRecords
    <3> QED
      BY <1>7, <3>1 DEF Commit
  <2>4. pool' \in [Executors -> SUBSET Workflows]
    BY <1>7, <2>1 DEF Commit
  <2> QED
    BY <1>7, <2>3, <2>4, NoTxType DEF Commit
<1>8. ASSUME NEW e \in Executors, NEW w \in Workflows, Thread(e, w)
      PROVE  Types'
  BY <1>8 DEF Thread, Start, Finish, Release, ReturnToQueue, WfRecords, locals
<1>9. ASSUME NEW e \in Executors, Crash(e) \/ Restart(e)
      PROVE  Types'
  BY <1>9, NoTxType DEF Crash, Restart
<1>10. ASSUME Tick
       PROVE  Types'
  BY <1>10 DEF Tick, locals
<1> QED
  BY <1>1, <1>2, <1>3, <1>4, <1>5, <1>6, <1>7, <1>8, <1>9, <1>10
     DEF Next, Worker, PollNothing, vars

\* A request, the manager thread or the end of a workflow changes rows that are
\* not locked; a row in the hands of a process stays in them.
RowsMove ==
    /\ UNCHANGED locals
    /\ \A w \in Workflows :
          \/ wf'[w] = wf[w]
          \/ /\ wf[w].status \in {"ABSENT", "DELAYED"}
             /\ wf'[w].status \in {"DELAYED", "ENQUEUED"}
             /\ wf'[w].ver = (IF wf[w].status = "ABSENT" THEN WfVersion[w] ELSE wf[w].ver)
             /\ wf'[w].status = "ENQUEUED" => wf'[w].delay <= now'
          \/ /\ wf'[w].status = "CANCELLED" /\ wf[w].status # "ABSENT" /\ ~Locked(w)
             /\ wf'[w].exec = wf[w].exec /\ wf'[w].ver = wf[w].ver
          \/ /\ wf[w].status = "PENDING" /\ wf'[w].status = "SUCCESS"
             /\ wf'[w].exec = wf[w].exec /\ wf'[w].ver = wf[w].ver
             /\ wf'[w].delay = wf[w].delay

LEMMA Moves ==
  ASSUME QueueAssumption, Types,
         \/ \E w \in Workflows, d \in Delays : Enqueue(w, d) \/ SetDelay(w, d)
         \/ \E w \in Workflows : Cancel(w)
         \/ \E e \in Executors : TransitionDelayed(e) \/ \E w \in Workflows : Finish(e, w)
         \/ Tick
  PROVE  RowsMove /\ now <= now'
<1>1. ASSUME NEW w \in Workflows, NEW d \in Delays, Enqueue(w, d)
      PROVE  RowsMove /\ now <= now'
  <2>1. d \in Nat
    BY DelayType
  <2>2. \A v \in Workflows : v # w => wf'[v] = wf[v]
    BY <1>1 DEF Enqueue, Types
  <2>3. /\ wf[w].status = "ABSENT" /\ wf'[w].ver = WfVersion[w]
        /\ wf'[w].status = (IF d = 0 THEN "ENQUEUED" ELSE "DELAYED")
        /\ wf'[w].delay = now + d
    BY <1>1 DEF Enqueue, Types, NoRow
  <2>4. now' = now /\ now \in Nat /\ UNCHANGED locals
    BY <1>1 DEF Enqueue, Types
  <2> QED
    BY <2>1, <2>2, <2>3, <2>4 DEF RowsMove
<1>2. ASSUME NEW w \in Workflows, NEW d \in Delays, SetDelay(w, d)
      PROVE  RowsMove /\ now <= now'
  BY <1>2 DEF SetDelay, RowsMove, Types, WfRecords
<1>3. ASSUME NEW w \in Workflows, Cancel(w)
      PROVE  RowsMove /\ now <= now'
  <2>1. wf' = [wf EXCEPT ![w] = [wf[w] EXCEPT !.status = "CANCELLED", !.started = None]]
    BY <1>3 DEF Cancel
  <2>2. \A v \in Workflows : v # w => wf'[v] = wf[v]
    BY <2>1 DEF Types
  <2>3. /\ wf'[w].status = "CANCELLED" /\ wf[w].status # "ABSENT" /\ ~Locked(w)
        /\ wf'[w].exec = wf[w].exec /\ wf'[w].ver = wf[w].ver
    BY <1>3, <2>1 DEF Cancel, Types, WfRecords
  <2>4. now' = now /\ now \in Nat /\ UNCHANGED locals
    BY <1>3 DEF Cancel, Types
  <2> QED
    BY <2>2, <2>3, <2>4 DEF RowsMove
<1>4. ASSUME NEW e \in Executors, TransitionDelayed(e)
      PROVE  RowsMove /\ now <= now'
  BY <1>4 DEF TransitionDelayed, Due, RowsMove, Types, WfRecords
<1>5. ASSUME NEW e \in Executors, NEW w \in Workflows, Finish(e, w)
      PROVE  RowsMove /\ now <= now'
  BY <1>5 DEF Finish, RowsMove, Types, WfRecords
<1>6. ASSUME Tick
      PROVE  RowsMove /\ now <= now'
  BY <1>6 DEF Tick, RowsMove, Types
<1> QED
  BY <1>1, <1>2, <1>3, <1>4, <1>5, <1>6

LEMMA MovesKeep ==
  ASSUME DispatchInv, Types', RowsMove, now <= now'
  PROVE  DownInv' /\ HeldInv' /\ LockInv' /\ RowInv'
<1> USE DEF DispatchInv
<1>1. DownInv'
  BY DEF DownInv, RowsMove, locals
<1>2. HeldInv'
  BY DEF HeldInv, Held, RowsMove, locals, Types
<1>3. LockInv'
  BY DEF LockInv, Locked, VersionOk, RowsMove, locals
<1>4. RowInv'
  <2> SUFFICES ASSUME NEW w \in Workflows
               PROVE  /\ wf'[w].status # "ABSENT" => WfVersion[w] \in {None, wf'[w].ver}
                      /\ wf'[w].status \in {"ENQUEUED", "PENDING", "SUCCESS"} => wf'[w].delay <= now'
    BY DEF RowInv
  <2>1. now \in Nat /\ now' \in Nat /\ wf[w].delay \in Nat /\ wf'[w].delay \in Nat
    BY DEF Types, WfRecords
  <2> QED
    BY <2>1 DEF RowInv, RowsMove
<1> QED
  BY <1>1, <1>2, <1>3, <1>4

LEMMA CommitEffect ==
  ASSUME Types, NEW e \in Executors, Commit(e)
  PROVE  \A w \in Workflows :
            /\ w \notin Taken(e) => wf'[w] = wf[w]
            /\ w \in Taken(e) =>
                  /\ wf'[w].status = "PENDING" /\ wf'[w].exec = e /\ wf'[w].ver = ExecVersion[e]
                  /\ wf'[w].delay = wf[w].delay /\ wf'[w].created = wf[w].created
  BY DEF Commit, Types, WfRecords

LEMMA ReturnEffect ==
  ASSUME Types, NEW e \in Executors, NEW w \in Workflows, ReturnToQueue(e, w)
  PROVE  /\ \A v \in Workflows : v # w => wf'[v] = wf[v]
         /\ wf[w].status # "PENDING" => wf'[w] = wf[w]
         /\ wf[w].status = "PENDING" =>
               /\ wf'[w].status = "ENQUEUED" /\ wf'[w].ver = wf[w].ver
               /\ wf'[w].delay = wf[w].delay /\ wf'[w].created = wf[w].created
  BY DEF ReturnToQueue, Types, WfRecords

LEMMA DispatchStep ==
  ASSUME QueueAssumption, DispatchInv, [Next]_vars
  PROVE  DispatchInv'
<1> SUFFICES ASSUME Types' PROVE DownInv' /\ HeldInv' /\ LockInv' /\ RowInv'
  BY TypesStep DEF DispatchInv
<1>0. Types /\ DownInv /\ HeldInv /\ LockInv /\ RowInv
  BY DEF DispatchInv
<1>1. ASSUME NEW e \in Executors, NEW p \in Partitions, Begin(e, p)
      PROVE  DownInv' /\ HeldInv' /\ LockInv' /\ RowInv'
  <2>1. /\ e \in up /\ tx'[e].ids = {}
        /\ \A f \in Executors : f # e => tx'[f] = tx[f]
    BY <1>0, <1>1 DEF Begin, Types, NoTx
  <2>2. UNCHANGED <<now, wf, pool, running, todo, up>>
    BY <1>1 DEF Begin
  <2>3. DownInv' /\ HeldInv' /\ RowInv'
    BY <1>0, <2>1, <2>2 DEF DownInv, HeldInv, Held, RowInv
  <2>4. LockInv'
    BY <1>0, <2>1, <2>2 DEF LockInv, VersionOk
  <2> QED
    BY <2>3, <2>4
<1>2. ASSUME NEW e \in Executors, LockRows(e)
      PROVE  DownInv' /\ HeldInv' /\ LockInv' /\ RowInv'
  <2>1. /\ tx[e].pc = "begun"
        /\ \A f \in Executors : f # e => tx'[f] = tx[f]
        /\ \/ tx'[e].ids = {}
           \/ ~CannotLock(e) /\ tx'[e].ids = Chosen(e)
    BY <1>0, <1>2, NoTxType DEF LockRows, Types, TxRecords
  <2>2. UNCHANGED <<now, wf, pool, running, todo, up>>
    BY <1>2 DEF LockRows
  <2>3. DownInv' /\ HeldInv' /\ RowInv'
    BY <1>0, <2>1, <2>2 DEF DownInv, HeldInv, Held, RowInv
  <2>4. ASSUME NEW w \in tx'[e].ids
        PROVE  /\ wf[w].status = "ENQUEUED" /\ VersionOk(e, wf[w])
               /\ \A f \in Executors : w \in tx[f].ids => f = e
    <3>1. ~CannotLock(e) /\ w \in Chosen(e)
      BY <2>1, <2>4
    <3>2. w \in Candidates(e, Rows(e))
      BY <3>1, ChosenType
    <3>3. w \notin LockedByOthers(e) /\ wf[w] = Rows(e)[w]
      BY <3>1 DEF CannotLock
    <3> QED
      BY <3>2, <3>3, CandidatesType DEF LockedByOthers
  <2>5. LockInv'
    BY <1>0, <2>1, <2>2, <2>4 DEF LockInv, VersionOk
  <2> QED
    BY <2>3, <2>5
<1>3. ASSUME NEW e \in Executors, Commit(e)
      PROVE  DownInv' /\ HeldInv' /\ LockInv' /\ RowInv'
  <2>1. /\ tx[e].pc = "locked" /\ tx'[e].ids = {}
        /\ \A f \in Executors : f # e => tx'[f] = tx[f] /\ pool'[f] = pool[f]
        /\ pool'[e] = pool[e] \cup Taken(e)
        /\ UNCHANGED <<now, running, todo, up>>
    BY <1>0, <1>3, NoTxType DEF Commit, Types
  <2>2. \A w \in Taken(e) : /\ w \in tx[e].ids /\ w \in Workflows
                            /\ wf[w].status = "ENQUEUED" /\ VersionOk(e, wf[w])
    BY <1>0, TakenType DEF Types, TxRecords, LockInv
  <2>3. \A w \in Workflows :
            /\ w \notin Taken(e) => wf'[w] = wf[w]
            /\ w \in Taken(e) =>
                  /\ wf'[w].status = "PENDING" /\ wf'[w].exec = e /\ wf'[w].ver = ExecVersion[e]
                  /\ wf'[w].delay = wf[w].delay
    BY <1>0, <1>3, CommitEffect
  <2>4. \A f \in Executors : Held(f) \subseteq Workflows /\ todo[f] \subseteq Workflows
    BY <1>0 DEF Types, Held
  <2>5. \A f \in Executors : \A w \in Held(f) \cup todo[f] : w \notin Taken(e)
    BY <1>0, <2>2 DEF HeldInv
  <2>6. Held(e)' = Held(e) \cup Taken(e) /\ \A f \in Executors : f # e => Held(f)' = Held(f)
    BY <2>1 DEF Held
  <2>7. DownInv'
    BY <1>0, <2>1, NoTxType DEF DownInv
  <2>8. HeldInv'
    BY <1>0, <2>1, <2>2, <2>3, <2>4, <2>5, <2>6 DEF HeldInv
  <2>9. LockInv'
    BY <1>0, <2>1, <2>2, <2>3 DEF LockInv, VersionOk
  <2>10. RowInv'
    BY <1>0, <2>1, <2>2, <2>3 DEF RowInv, VersionOk
  <2> QED
    BY <2>7, <2>8, <2>9, <2>10
<1>4. ASSUME NEW e \in Executors, NEW w \in Workflows, Start(e, w) \/ Release(e, w)
      PROVE  DownInv' /\ HeldInv' /\ LockInv' /\ RowInv'
  <2>1. UNCHANGED <<now, wf, tx, todo, up>> /\ \A f \in Executors : Held(f)' \subseteq Held(f)
    BY <1>0, <1>4 DEF Start, Release, Types, Held
  <2>2. \A f \in Executors : Held(f) = {} => pool'[f] = {} /\ running'[f] = {}
    BY <1>0, <2>1 DEF Types, Held
  <2>3. DownInv'
    BY <1>0, <2>1, <2>2 DEF DownInv, Held
  <2>4. HeldInv' /\ RowInv'
    BY <1>0, <2>1 DEF HeldInv, RowInv
  <2>5. LockInv'
    BY <1>0, <2>1 DEF LockInv, VersionOk
  <2> QED
    BY <2>3, <2>4, <2>5
<1>5. ASSUME NEW e \in Executors, NEW w \in Workflows, ReturnToQueue(e, w)
      PROVE  DownInv' /\ HeldInv' /\ LockInv' /\ RowInv'
  <2>1. /\ w \in todo[e] /\ ~Locked(w) /\ UNCHANGED <<now, tx, pool, running, up>>
        /\ todo'[e] = todo[e] \ {w} /\ \A f \in Executors : f # e => todo'[f] = todo[f]
    BY <1>0, <1>5 DEF ReturnToQueue, Types
  <2>2. /\ \A v \in Workflows : v # w => wf'[v] = wf[v]
        /\ wf[w].status # "PENDING" => wf'[w] = wf[w]
        /\ wf[w].status = "PENDING" =>
              /\ wf'[w].status = "ENQUEUED" /\ wf'[w].ver = wf[w].ver
              /\ wf'[w].delay = wf[w].delay
    BY <1>0, <1>5, ReturnEffect
  <2>3. \A f \in Executors : w \notin Held(f) /\ w \notin todo'[f]
    BY <1>0, <2>1 DEF HeldInv
  <2>4. \A f \in Executors : /\ Held(f)' = Held(f) /\ Held(f) \subseteq Workflows
                             /\ todo'[f] \subseteq todo[f] /\ todo[f] \subseteq Workflows
    BY <1>0, <2>1 DEF Types, Held
  <2>5. DownInv'
    BY <1>0, <2>1, <2>4 DEF DownInv
  <2>6. HeldInv'
    BY <1>0, <2>2, <2>3, <2>4 DEF HeldInv
  <2>7. LockInv'
    BY <1>0, <2>1, <2>2 DEF LockInv, VersionOk, Locked
  <2>8. RowInv'
    BY <1>0, <2>1, <2>2 DEF RowInv
  <2> QED
    BY <2>5, <2>6, <2>7, <2>8
<1>6. ASSUME NEW e \in Executors, Crash(e)
      PROVE  DownInv' /\ HeldInv' /\ LockInv' /\ RowInv'
  <2>1. /\ UNCHANGED <<now, wf>> /\ up' = up \ {e}
        /\ tx'[e].pc = "idle" /\ tx'[e].ids = {}
        /\ pool'[e] = {} /\ running'[e] = {} /\ todo'[e] = {}
        /\ \A f \in Executors : f # e =>
              tx'[f] = tx[f] /\ pool'[f] = pool[f] /\ running'[f] = running[f] /\ todo'[f] = todo[f]
    BY <1>0, <1>6, NoTxType DEF Crash, Types
  <2>2. DownInv' /\ RowInv'
    BY <1>0, <2>1 DEF DownInv, RowInv
  <2>3. HeldInv'
    BY <1>0, <2>1 DEF HeldInv, Held
  <2>4. LockInv'
    BY <1>0, <2>1 DEF LockInv, VersionOk
  <2> QED
    BY <2>2, <2>3, <2>4
<1>7. ASSUME NEW e \in Executors, Restart(e)
      PROVE  DownInv' /\ HeldInv' /\ LockInv' /\ RowInv'
  <2>1. /\ UNCHANGED <<now, wf, tx, pool, running>> /\ e \notin up /\ up' = up \cup {e}
        /\ \A v \in todo'[e] : wf[v].status = "PENDING" /\ wf[v].exec = e
        /\ \A f \in Executors : f # e => todo'[f] = todo[f]
    BY <1>0, <1>7 DEF Restart, Types
  <2>2. Held(e) = {} /\ \A f \in Executors : Held(f)' = Held(f)
    BY <1>0, <2>1 DEF DownInv, Held
  <2>3. DownInv' /\ RowInv'
    BY <1>0, <2>1 DEF DownInv, RowInv
  <2>4. HeldInv'
    BY <1>0, <2>1, <2>2 DEF HeldInv
  <2>5. LockInv'
    BY <1>0, <2>1 DEF LockInv, VersionOk
  <2> QED
    BY <2>3, <2>4, <2>5
<1>8. ASSUME UNCHANGED vars
      PROVE  DownInv' /\ HeldInv' /\ LockInv' /\ RowInv'
  BY <1>0, <1>8 DEF vars, DownInv, HeldInv, Held, LockInv, VersionOk, RowInv
<1> QED
  BY <1>0, <1>1, <1>2, <1>3, <1>4, <1>5, <1>6, <1>7, <1>8, Moves, MovesKeep
     DEF Next, Worker, Thread, PollNothing

LEMMA DispatchInit ==
  ASSUME QueueAssumption, Init
  PROVE  DispatchInv
<1>1. Types
  BY NoTxType DEF Init, Types, NoRow, WfRecords, Versions
<1>2. DownInv /\ HeldInv /\ LockInv /\ RowInv
  BY NoTxType DEF Init, DownInv, HeldInv, Held, LockInv, RowInv, NoRow
<1> QED
  BY <1>1, <1>2 DEF DispatchInv

LEMMA Dispatches ==
  ASSUME QueueAssumption
  PROVE  Spec => []DispatchInv
<1>1. Init => DispatchInv
  BY DispatchInit
<1>2. DispatchInv /\ [Next]_vars => DispatchInv'
  BY DispatchStep
<1> QED
  BY <1>1, <1>2, PTL DEF Spec

\* A PENDING workflow is in the hands of the one executor its row names, which
\* is of the version it has, and was not in the queue before its delay was over:
\* start_queued_workflows locks the rows it has read, and clear_queue_assignment
\* returns to the queue what no process holds.
THEOREM Dispatched ==
  ASSUME QueueAssumption
  PROVE  Spec => [](DispatchedRightly /\ VersionKept)
<1>1. DispatchInv => DispatchedRightly /\ VersionKept
  <2> SUFFICES ASSUME DispatchInv PROVE OneWorker /\ VersionKept /\ NotEarly
    BY DEF DispatchedRightly
  <2>1. Types /\ HeldInv /\ RowInv
    BY DEF DispatchInv
  <2>2. \A e \in Executors : Held(e) \subseteq Workflows
    BY <2>1 DEF Types, Held
  <2>3. OneWorker
    BY <2>1 DEF OneWorker, HeldInv, Held, Types
  <2>4. VersionKept
    BY <2>1, <2>2 DEF VersionKept, HeldInv, Held, RowInv
  <2>5. NotEarly
    BY <2>1 DEF NotEarly, RowInv, Types
  <2> QED
    BY <2>3, <2>4, <2>5
<1> QED
  BY <1>1, Dispatches, PTL

-----------------------------------------------------------------------------
\* LIMIT n gives n rows at most: each has another number of rows before it.
LEMMA FirstOfBound ==
  ASSUME QueueAssumption, NEW rows \in [Workflows -> WfRecords], Numbered(rows),
         NEW S \in SUBSET Present(rows), NEW n \in Nat
  PROVE  Cardinality(FirstOf(n, S, rows)) <= n
<1> DEFINE P(w) == {v \in S : Before(rows, v, w)}
           F == FirstOf(n, S, rows)
           rank == [w \in F |-> Cardinality(P(w))]
<1>1. IsFiniteSet(S) /\ \A w : IsFiniteSet(P(w)) /\ Cardinality(P(w)) \in Nat
  <2>1. S \in SUBSET Workflows /\ IsFiniteSet(Workflows)
    BY DEF Present, QueueAssumption
  <2>2. IsFiniteSet(S)
    BY <2>1, FS_Subset
  <2>3. ASSUME NEW w PROVE P(w) \in SUBSET S
    OBVIOUS
  <2> HIDE DEF P
  <2> QED
    BY <2>2, <2>3, FS_Subset, FS_CardinalityType
<1>2. F \subseteq S /\ \A w \in F : Cardinality(P(w)) < n
  BY DEF FirstOf
<1>3. ASSUME NEW v \in S, NEW w \in S, Before(rows, v, w)
      PROVE  Cardinality(P(v)) < Cardinality(P(w))
  <2>1. /\ S \subseteq Workflows /\ Priority \in [Workflows -> Nat]
        /\ \A x \in Workflows : rows[x].created \in Nat
    BY DEF Present, QueueAssumption, WfRecords
  <2>2. v \notin P(v) /\ (P(v) \cup {v}) \in SUBSET P(w)
    BY <1>3, <2>1 DEF Before
  <2> HIDE DEF P
  <2>3. Cardinality(P(v) \cup {v}) = Cardinality(P(v)) + 1 /\ IsFiniteSet(P(v) \cup {v})
    BY <1>1, <2>2, FS_AddElement
  <2>4. Cardinality(P(v) \cup {v}) <= Cardinality(P(w))
    BY <1>1, <2>2, FS_Subset
  <2> QED
    BY <1>1, <2>3, <2>4
<1>4. ASSUME NEW v \in S, NEW w \in S, v # w
      PROVE  Cardinality(P(v)) # Cardinality(P(w))
  <2>1. Before(rows, v, w) \/ Before(rows, w, v)
    <3>1. /\ v \in Workflows /\ w \in Workflows /\ Priority \in [Workflows -> Nat]
          /\ \A x \in Workflows : rows[x].created \in Nat
      BY DEF Present, QueueAssumption, WfRecords
    <3>2. rows[v].created # rows[w].created
      BY <1>4 DEF Numbered
    <3> QED
      BY <3>1, <3>2 DEF Before
  <2> HIDE DEF P
  <2> QED
    BY <1>1, <1>3, <2>1
<1> HIDE DEF P, F
<1>5. rank \in Injection(F, 0..(n - 1))
  <2>1. rank \in [F -> 0..(n - 1)]
    BY <1>1, <1>2
  <2>2. \A v, w \in F : rank[v] = rank[w] => v = w
    BY <1>2, <1>4
  <2> QED
    BY <2>1, <2>2 DEF Injection, IsInjective
<1>6. IsFiniteSet(0..(n - 1)) /\ Cardinality(0..(n - 1)) = n
  BY FS_Interval
<1>7. Cardinality(F) <= Cardinality(0..(n - 1))
  BY <1>5, <1>6, FS_Injection
<1> QED
  BY <1>6, <1>7 DEF F

\* Rows keep their numbers, and a new one gets the next.
LEMMA RowsKept ==
  ASSUME QueueAssumption, DispatchInv, [Next]_vars
  PROVE  \/ \A w \in Workflows : /\ wf'[w].status = "ABSENT" <=> wf[w].status = "ABSENT"
                                 /\ wf'[w].created = wf[w].created
         \/ \E w \in Workflows :
               /\ wf[w].status = "ABSENT" /\ wf'[w].status # "ABSENT"
               /\ wf'[w].created = 1 + Cardinality(Present(wf))
               /\ \A v \in Workflows : v # w => wf'[v] = wf[v]
<1> DEFINE Kept == \A w \in Workflows : /\ wf'[w].status = "ABSENT" <=> wf[w].status = "ABSENT"
                                        /\ wf'[w].created = wf[w].created
<1>0. Types
  BY DEF DispatchInv
<1>1. ASSUME NEW w \in Workflows, NEW d \in Delays, Enqueue(w, d)
      PROVE  /\ wf[w].status = "ABSENT" /\ wf'[w].status # "ABSENT"
             /\ wf'[w].created = 1 + Cardinality(Present(wf))
             /\ \A v \in Workflows : v # w => wf'[v] = wf[v]
  BY <1>0, <1>1 DEF Enqueue, Types, NoRow, Present
<1>2. ASSUME NEW w \in Workflows, NEW d \in Delays, SetDelay(w, d)
      PROVE  Kept
  BY <1>0, <1>2 DEF SetDelay, Types, WfRecords
<1>3. ASSUME NEW w \in Workflows, Cancel(w)
      PROVE  Kept
  <2>1. wf' = [wf EXCEPT ![w] = [wf[w] EXCEPT !.status = "CANCELLED", !.started = None]]
    BY <1>3 DEF Cancel
  <2> QED
    BY <1>0, <1>3, <2>1 DEF Cancel, Types, WfRecords
<1>4. ASSUME NEW e \in Executors, TransitionDelayed(e)
      PROVE  Kept
  BY <1>0, <1>4 DEF TransitionDelayed, Due, Types, WfRecords
<1>5. ASSUME NEW e \in Executors, Commit(e)
      PROVE  Kept
  <2>1. \A w \in Taken(e) : wf[w].status = "ENQUEUED"
    BY TakenType DEF DispatchInv, LockInv, Types, TxRecords
  <2> QED
    BY <1>0, <1>5, <2>1, CommitEffect
<1>6. ASSUME NEW e \in Executors, NEW w \in Workflows, Finish(e, w)
      PROVE  Kept
  BY <1>0, <1>6 DEF Finish, Types, WfRecords
<1>7. ASSUME NEW e \in Executors, NEW w \in Workflows, ReturnToQueue(e, w)
      PROVE  Kept
  BY <1>0, <1>7, ReturnEffect
<1>8. ASSUME UNCHANGED wf
      PROVE  Kept
  BY <1>8
<1> QED
  BY <1>1, <1>2, <1>3, <1>4, <1>5, <1>6, <1>7, <1>8
     DEF Next, Worker, Thread, PollNothing, Begin, LockRows, Start, Release, Crash, Restart,
         Tick, vars

\* A transaction has the snapshot and the room it began with.
LEMMA TxKept ==
  ASSUME DispatchInv, [Next]_vars, NEW e \in Executors, tx'[e].pc # "idle"
  PROVE  \/ \E p \in Partitions : Begin(e, p)
         \/ /\ tx[e].pc # "idle" /\ tx'[e].snap = tx[e].snap
            /\ tx'[e].part = tx[e].part /\ tx'[e].room = tx[e].room
            /\ \/ tx'[e] = tx[e]
               \/ LockRows(e) /\ tx'[e].ids = Chosen(e)
<1>0. Types
  BY DEF DispatchInv
<1> DEFINE Same == tx[e].pc # "idle" /\ tx'[e] = tx[e]
<1>1. ASSUME NEW f \in Executors, LockRows(f), f = e
      PROVE  /\ tx[e].pc # "idle" /\ tx'[e].snap = tx[e].snap
             /\ tx'[e].part = tx[e].part /\ tx'[e].room = tx[e].room
             /\ tx'[e].ids = Chosen(e)
  <2>1. tx' = [tx EXCEPT ![e] = NoTx]
        \/ tx' = [tx EXCEPT ![e] = [tx[e] EXCEPT !.pc = "locked", !.ids = Chosen(e)]]
    BY <1>1 DEF LockRows
  <2>2. tx'[e] = [tx[e] EXCEPT !.pc = "locked", !.ids = Chosen(e)] /\ tx[e] \in TxRecords
    BY <1>0, <2>1, NoTxType DEF Types
  <2>3. tx[e].pc = "begun"
    BY <1>1 DEF LockRows
  <2> QED
    BY <2>2, <2>3 DEF TxRecords
<1>2. ASSUME NEW f \in Executors, LockRows(f) \/ Commit(f) \/ Crash(f) \/ \E p \in Partitions : Begin(f, p),
             f # e
      PROVE  Same
  BY <1>0, <1>2 DEF LockRows, Commit, Crash, Begin, Types
<1>3. ASSUME Commit(e) \/ Crash(e)
      PROVE  FALSE
  BY <1>0, <1>3, NoTxType DEF Commit, Crash, Types
<1>4. ASSUME UNCHANGED tx
      PROVE  Same
  BY <1>4
<1> QED
  BY <1>1, <1>2, <1>3, <1>4
     DEF Next, Worker, Thread, PollNothing, Enqueue, SetDelay, Cancel, TransitionDelayed, Start,
         Finish, Release, ReturnToQueue, Restart, Tick, locals, vars

LEMMA PresentType ==
  ASSUME QueueAssumption, NEW rows
  PROVE  IsFiniteSet(Present(rows)) /\ Cardinality(Present(rows)) \in Nat
<1>1. Present(rows) \in SUBSET Workflows /\ IsFiniteSet(Workflows)
  BY DEF Present, QueueAssumption
<1> QED
  BY <1>1, FS_Subset, FS_CardinalityType

LEMMA CreatedStep ==
  ASSUME QueueAssumption, DispatchInv, CreatedInv, [Next]_vars
  PROVE  CreatedInv'
<1> DEFINE N == Cardinality(Present(wf))
           M == Cardinality(Present(wf'))
           Goes == /\ Numbered(wf') /\ \A w \in Present(wf') : wf'[w].created \in 1..M
                   /\ \A w \in Present(wf) : w \in Present(wf') /\ wf'[w].created = wf[w].created
<1>0. /\ Numbered(wf) /\ \A w \in Present(wf) : wf[w].created \in 1..N
      /\ \A e \in Executors : tx[e].pc # "idle" =>
            \A w \in Present(tx[e].snap) :
                w \in Present(wf) /\ wf[w].created = tx[e].snap[w].created
  BY DEF CreatedInv
<1>1. N \in Nat /\ M \in Nat /\ IsFiniteSet(Present(wf))
  BY PresentType
<1>2. Goes
  <2>1. CASE \A w \in Workflows : /\ wf'[w].status = "ABSENT" <=> wf[w].status = "ABSENT"
                                  /\ wf'[w].created = wf[w].created
    <3>1. Present(wf') = Present(wf)
      BY <2>1 DEF Present
    <3> QED
      BY <1>0, <2>1, <3>1 DEF Numbered, Present
  <2>2. ASSUME NEW w \in Workflows, wf[w].status = "ABSENT", wf'[w].status # "ABSENT",
               wf'[w].created = 1 + N, \A v \in Workflows : v # w => wf'[v] = wf[v]
        PROVE  Goes
    <3>1. Present(wf') = Present(wf) \cup {w} /\ w \notin Present(wf)
      BY <2>2 DEF Present
    <3>2. M = N + 1
      BY <1>1, <3>1, FS_AddElement
    <3>3. \A v \in Present(wf) : v # w /\ wf'[v] = wf[v] /\ v \in Present(wf')
      BY <2>2, <3>1 DEF Present
    <3> HIDE DEF N, M
    <3>4. \A v \in Present(wf') : wf'[v].created \in 1..M
      BY <1>0, <1>1, <2>2, <3>1, <3>2, <3>3
    <3>5. \A v \in Present(wf) : wf'[v].created # wf'[w].created
      BY <1>0, <1>1, <2>2, <3>3
    <3>6. Numbered(wf')
      BY <1>0, <3>1, <3>3, <3>5 DEF Numbered
    <3> QED
      BY <3>3, <3>4, <3>6
  <2> QED
    BY <2>1, <2>2, RowsKept
<1>4. \A w \in Present(wf) : w \in Present(wf') /\ wf'[w].created = wf[w].created
  BY <1>2
<1> HIDE DEF Goes, N, M
<1>3. ASSUME NEW e \in Executors, tx'[e].pc # "idle", NEW w \in Present(tx'[e].snap)
      PROVE  w \in Present(wf') /\ wf'[w].created = tx'[e].snap[w].created
  <2>1. CASE \E p \in Partitions : Begin(e, p)
    <3>1. tx'[e].snap = wf /\ wf' = wf
      BY <2>1 DEF Begin, DispatchInv, Types, NoTx
    <3> QED
      BY <1>3, <3>1
  <2>2. CASE tx[e].pc # "idle" /\ tx'[e].snap = tx[e].snap
    <3>1. w \in Present(tx[e].snap)
      BY <1>3, <2>2
    <3>2. w \in Present(wf) /\ wf[w].created = tx[e].snap[w].created
      BY <1>0, <2>2, <3>1
    <3> QED
      BY <1>4, <2>2, <3>2
  <2> QED
    BY <1>3, <2>1, <2>2, TxKept
<1> QED
  BY <1>2, <1>3 DEF CreatedInv, Goes, M

LEMMA SnapNumbered ==
  ASSUME CreatedInv, NEW e \in Executors, tx[e].pc # "idle"
  PROVE  Numbered(tx[e].snap) /\ Numbered(wf)
  BY DEF CreatedInv, Numbered

\* A transaction locks no more rows than it has room for.
LEMMA ChosenBound ==
  ASSUME QueueAssumption, DispatchInv, CreatedInv, NEW e \in Executors, tx[e].pc # "idle"
  PROVE  Cardinality(Chosen(e)) <= tx[e].room
<1> DEFINE S == IF SkipLocked THEN Candidates(e, Rows(e)) \ LockedByOthers(e)
                ELSE Candidates(e, Rows(e))
<1>1. Rows(e) \in [Workflows -> WfRecords] /\ Numbered(Rows(e)) /\ tx[e].room \in Nat
  BY SnapNumbered DEF Rows, DispatchInv, Types, TxOK, TxRecords
<1>2. S \in SUBSET Present(Rows(e))
  BY CandidatesType DEF Present
<1>3. Chosen(e) = FirstOf(tx[e].room, S, Rows(e))
  BY DEF Chosen
<1> HIDE DEF S
<1> QED
  BY <1>1, <1>2, <1>3, FirstOfBound

-----------------------------------------------------------------------------
LEMMA HeldKept ==
  ASSUME Types, [Next]_vars, NEW e \in Executors
  PROVE  \/ Commit(e)
         \/ Held(e)' \subseteq Held(e) /\ pool'[e] \subseteq pool[e]
<1> DEFINE Less == Held(e)' \subseteq Held(e) /\ pool'[e] \subseteq pool[e]
<1>1. ASSUME NEW f \in Executors, Commit(f), f # e
      PROVE  Less
  BY <1>1 DEF Commit, Types, Held
<1>2. ASSUME NEW f \in Executors, NEW w \in Workflows, Start(f, w) \/ Release(f, w)
      PROVE  Less
  BY <1>2 DEF Start, Release, Types, Held
<1>3. ASSUME NEW f \in Executors, Crash(f)
      PROVE  Less
  BY <1>3 DEF Crash, Types, Held
<1>4. ASSUME UNCHANGED <<pool, running>>
      PROVE  Less
  BY <1>4 DEF Held
<1> QED
  BY <1>1, <1>2, <1>3, <1>4
     DEF Next, Worker, Thread, PollNothing, Enqueue, SetDelay, Cancel, TransitionDelayed, Begin,
         LockRows, Finish, ReturnToQueue, Restart, Tick, locals, vars

LEMMA HeldFinite ==
  ASSUME QueueAssumption, Types, NEW e \in Executors, NEW p
  PROVE  /\ IsFiniteSet(HeldOf(e, p)) /\ Cardinality(HeldOf(e, p)) \in Nat
         /\ IsFiniteSet(tx[e].ids) /\ Cardinality(tx[e].ids) \in Nat
<1>1. /\ HeldOf(e, p) \in SUBSET Workflows /\ tx[e].ids \in SUBSET Workflows
      /\ IsFiniteSet(Workflows)
  BY DEF Types, TxRecords, HeldOf, Held, QueueAssumption
<1> QED
  BY <1>1, FS_Subset, FS_CardinalityType

LEMMA BeginRoom ==
  ASSUME QueueAssumption, Types, WorkerConcurrency # None, PromptThreads,
         NEW e \in Executors, NEW p \in Partitions, Begin(e, p)
  PROVE  /\ pool[e] = {} /\ tx'[e].part = p /\ tx'[e].ids = {} /\ tx'[e].room \in Nat
         /\ Cardinality(HeldOf(e, p)) + tx'[e].room <= WorkerConcurrency
<1>1. /\ pool[e] = {} /\ tx'[e].part = p /\ tx'[e].ids = {} /\ tx'[e].room = Room(e, p)
      /\ Room(e, p) > 0
  BY DEF Begin, Types, NoTx, MayDequeue
<1> DEFINE r == Cardinality(HeldOf(e, p))
           g == IF Concurrency = None THEN Cardinality(Workflows)
                ELSE Minus(Concurrency, Cardinality(InStatus(wf, p, {"PENDING"})))
<1>2. r \in Nat /\ WorkerConcurrency \in Nat
  BY HeldFinite DEF QueueAssumption
<1>3. {w \in running[e] : Partition[w] = p} = HeldOf(e, p)
  BY <1>1 DEF HeldOf, Held
<1>4. Room(e, p) = Lower(Minus(WorkerConcurrency, r), g)
  BY <1>3 DEF Room
<1>5. g \in Nat
  <2>1. InStatus(wf, p, {"PENDING"}) \in SUBSET Workflows /\ IsFiniteSet(Workflows)
    BY DEF InStatus, QueueAssumption
  <2>2. Cardinality(InStatus(wf, p, {"PENDING"})) \in Nat /\ Cardinality(Workflows) \in Nat
    BY <2>1, FS_Subset, FS_CardinalityType
  <2> QED
    BY <2>2 DEF QueueAssumption, Minus
<1> HIDE DEF r, g
<1>6. Room(e, p) \in Nat /\ r + Room(e, p) <= WorkerConcurrency
  BY <1>1, <1>2, <1>4, <1>5 DEF Minus, Lower
<1> QED
  BY <1>1, <1>6 DEF r

LEMMA WorkerStep ==
  ASSUME QueueAssumption, PromptThreads, WorkerConcurrency # None,
         DispatchInv, CreatedInv, WorkerInv, [Next]_vars
  PROVE  WorkerInv'
<1>0. Types /\ Types' /\ WorkerConcurrency \in Nat
  BY TypesStep DEF DispatchInv, QueueAssumption
<1> SUFFICES ASSUME NEW e \in Executors
             PROVE  /\ \A p \in Partitions : Cardinality(HeldOf(e, p)') <= WorkerConcurrency
                    /\ tx'[e].pc # "idle" =>
                          /\ pool'[e] = {}
                          /\ Cardinality(HeldOf(e, tx[e].part)') + tx'[e].room <= WorkerConcurrency
                          /\ Cardinality(tx'[e].ids) <= tx'[e].room
                          /\ \A w \in tx'[e].ids : Partition[w] = tx'[e].part
  BY DEF WorkerInv, HeldOf, Held
<1>1. /\ \A p \in Partitions : Cardinality(HeldOf(e, p)) <= WorkerConcurrency
      /\ tx[e].pc # "idle" =>
            /\ pool[e] = {}
            /\ Cardinality(HeldOf(e, tx[e].part)) + tx[e].room <= WorkerConcurrency
            /\ Cardinality(tx[e].ids) <= tx[e].room
            /\ \A w \in tx[e].ids : Partition[w] = tx[e].part
  BY DEF WorkerInv
<1>2. CASE Commit(e)
  <2>1. /\ tx'[e].pc = "idle" /\ tx[e].pc # "idle"
        /\ pool'[e] = pool[e] \cup Taken(e) /\ running' = running
    BY <1>0, <1>2, NoTxType DEF Commit, Types
  <2>2. ASSUME NEW p \in Partitions
        PROVE  Cardinality(HeldOf(e, p)') <= WorkerConcurrency
    <3>1. CASE p = tx[e].part
      <4>1. HeldOf(e, p)' \in SUBSET (HeldOf(e, p) \cup tx[e].ids)
        BY <2>1, TakenType DEF HeldOf, Held
      <4>2. /\ IsFiniteSet(HeldOf(e, p)) /\ Cardinality(HeldOf(e, p)) \in Nat
            /\ IsFiniteSet(tx[e].ids) /\ Cardinality(tx[e].ids) \in Nat
        BY <1>0, HeldFinite
      <4> DEFINE H == HeldOf(e, p)
                 I == tx[e].ids
                 A == HeldOf(e, p)'
      <4>3. H \cap I \in SUBSET I
        OBVIOUS
      <4> HIDE DEF H, I, A
      <4>4. Cardinality(H \cap I) \in Nat
        BY <4>2, <4>3, FS_Subset, FS_CardinalityType DEF I
      <4>5. /\ IsFiniteSet(H \cup I)
            /\ Cardinality(H \cup I) = Cardinality(H) + Cardinality(I) - Cardinality(H \cap I)
        BY <4>2, FS_Union DEF H, I
      <4>6. IsFiniteSet(A) /\ Cardinality(A) <= Cardinality(H \cup I)
        BY <4>1, <4>5, FS_Subset DEF H, I, A
      <4>7. Cardinality(A) \in Nat
        BY <4>6, FS_CardinalityType
      <4>8. tx[e].room \in Nat /\ Cardinality(H) + tx[e].room <= WorkerConcurrency
            /\ Cardinality(I) <= tx[e].room
        BY <1>0, <1>1, <2>1, <3>1 DEF H, I, Types, TxRecords
      <4>9. Cardinality(H) \in Nat /\ Cardinality(I) \in Nat
        BY <4>2 DEF H, I
      <4>10. Cardinality(A) <= WorkerConcurrency
        BY <1>0, <4>4, <4>5, <4>6, <4>7, <4>8, <4>9
      <4> QED
        BY <4>10 DEF A
    <3>2. CASE p # tx[e].part
      <4>1. \A w \in Taken(e) : Partition[w] # p
        BY <1>1, <2>1, <3>2, TakenType
      <4>2. HeldOf(e, p)' = HeldOf(e, p)
        BY <2>1, <4>1 DEF HeldOf, Held
      <4> QED
        BY <1>1, <4>2
    <3> QED
      BY <3>1, <3>2
  <2> QED
    BY <2>1, <2>2
<1>3. CASE Held(e)' \subseteq Held(e) /\ pool'[e] \subseteq pool[e]
  <2>1. ASSUME NEW p
        PROVE  /\ Cardinality(HeldOf(e, p)') \in Nat /\ Cardinality(HeldOf(e, p)) \in Nat
               /\ Cardinality(HeldOf(e, p)') <= Cardinality(HeldOf(e, p))
    <3>1. HeldOf(e, p)' \in SUBSET HeldOf(e, p)
      BY <1>3 DEF HeldOf
    <3>2. IsFiniteSet(HeldOf(e, p)) /\ Cardinality(HeldOf(e, p)) \in Nat
      BY <1>0, HeldFinite
    <3>3. IsFiniteSet(HeldOf(e, p)') /\ Cardinality(HeldOf(e, p)') <= Cardinality(HeldOf(e, p))
      BY <3>1, <3>2, FS_Subset
    <3> QED
      BY <3>2, <3>3, FS_CardinalityType
  <2>2. ASSUME NEW p, NEW n \in Nat, Cardinality(HeldOf(e, p)) + n <= WorkerConcurrency
        PROVE  Cardinality(HeldOf(e, p)') + n <= WorkerConcurrency
    <3> DEFINE a == Cardinality(HeldOf(e, p)')
               b == Cardinality(HeldOf(e, p))
    <3>1. a \in Nat /\ b \in Nat /\ a <= b /\ b + n <= WorkerConcurrency
      BY <2>1, <2>2
    <3> HIDE DEF a, b
    <3>2. a + n <= WorkerConcurrency
      BY <1>0, <3>1
    <3> QED
      BY <3>2 DEF a
  <2>3. ASSUME NEW p \in Partitions
        PROVE  Cardinality(HeldOf(e, p)') <= WorkerConcurrency
    <3> DEFINE a == Cardinality(HeldOf(e, p)')
               b == Cardinality(HeldOf(e, p))
    <3>1. a \in Nat /\ b \in Nat /\ a <= b /\ b <= WorkerConcurrency
      BY <1>1, <2>1, <2>3
    <3> HIDE DEF a, b
    <3>2. a <= WorkerConcurrency
      BY <1>0, <3>1
    <3> QED
      BY <3>2 DEF a
  <2>4. ASSUME tx'[e].pc # "idle"
        PROVE  /\ pool'[e] = {}
               /\ Cardinality(HeldOf(e, tx[e].part)') + tx'[e].room <= WorkerConcurrency
               /\ Cardinality(tx'[e].ids) <= tx'[e].room
               /\ \A w \in tx'[e].ids : Partition[w] = tx'[e].part
    <3>1. CASE \E p \in Partitions : Begin(e, p)
      <4>1. PICK p \in Partitions : Begin(e, p)
        BY <3>1
      <4>2. /\ pool[e] = {} /\ tx'[e].part = p /\ tx'[e].ids = {} /\ tx'[e].room \in Nat
            /\ Cardinality(HeldOf(e, p)) + tx'[e].room <= WorkerConcurrency
        BY <1>0, <4>1, BeginRoom
      <4>3. Cardinality(HeldOf(e, p)') + tx'[e].room <= WorkerConcurrency
        BY <2>2, <4>2
      <4>4. Cardinality(tx'[e].ids) <= tx'[e].room
        BY <4>2, FS_EmptySet
      <4>5. HeldOf(e, tx[e].part)' = HeldOf(e, p)'
        BY <4>2 DEF HeldOf
      <4> QED
        BY <1>3, <4>2, <4>3, <4>4, <4>5
    <3>2. CASE /\ tx[e].pc # "idle" /\ tx'[e].part = tx[e].part /\ tx'[e].room = tx[e].room
               /\ tx'[e] = tx[e] \/ (LockRows(e) /\ tx'[e].ids = Chosen(e))
      <4>1. tx[e].room \in Nat
        BY <1>0 DEF Types, TxRecords
      <4>2. PICK q : q = tx[e].part
        OBVIOUS
      <4>3. HeldOf(e, tx[e].part)' = HeldOf(e, q)' /\ HeldOf(e, tx[e].part) = HeldOf(e, q)
        BY <3>2, <4>2 DEF HeldOf
      <4>6. Cardinality(HeldOf(e, q)') + tx[e].room <= WorkerConcurrency
        BY <1>1, <2>2, <3>2, <4>1, <4>3
      <4>4. CASE tx'[e] = tx[e]
        BY <1>1, <1>3, <3>2, <4>3, <4>4, <4>6
      <4>5. CASE tx'[e].ids = Chosen(e)
        <5>1. Cardinality(Chosen(e)) <= tx[e].room
          BY <3>2, ChosenBound
        <5>2. \A w \in Chosen(e) : Partition[w] = tx[e].part
          BY ChosenType, CandidatesType
        <5> QED
          BY <1>1, <1>3, <3>2, <4>3, <4>5, <4>6, <5>1, <5>2
      <4> QED
        BY <3>2, <4>4, <4>5
    <3> QED
      BY <2>4, <3>1, <3>2, TxKept
  <2> QED
    BY <2>3, <2>4
<1> QED
  BY <1>0, <1>2, <1>3, HeldKept

-----------------------------------------------------------------------------
LEMMA StatusFinite ==
  ASSUME QueueAssumption, NEW rows, NEW p, NEW st
  PROVE  IsFiniteSet(InStatus(rows, p, st)) /\ Cardinality(InStatus(rows, p, st)) \in Nat
<1>1. InStatus(rows, p, st) \in SUBSET Workflows /\ IsFiniteSet(Workflows)
  BY DEF InStatus, QueueAssumption
<1> QED
  BY <1>1, FS_Subset, FS_CardinalityType

LEMMA BoundFinite ==
  ASSUME QueueAssumption, NEW rows, NEW t
  PROVE  IsFiniteSet(Bound(rows, t)) /\ Cardinality(Bound(rows, t)) \in Nat
<1>1. Bound(rows, t) \in SUBSET Workflows /\ IsFiniteSet(Workflows)
  BY DEF Bound, Reach, InStatus, QueueAssumption
<1> QED
  BY <1>1, FS_Subset, FS_CardinalityType

\* A subset of what is bounded is.
LEMMA Within ==
  ASSUME NEW A, NEW B, NEW n \in Nat, A \subseteq B, IsFiniteSet(B), Cardinality(B) <= n
  PROVE  Cardinality(A) <= n
<1>1. A \in SUBSET B
  OBVIOUS
<1>2. /\ IsFiniteSet(A) /\ Cardinality(A) <= Cardinality(B)
  BY <1>1, FS_Subset
<1>3. Cardinality(A) \in Nat /\ Cardinality(B) \in Nat
  BY <1>2, FS_CardinalityType
<1> QED
  BY <1>2, <1>3

\* What a first-in, first-out queue with a global concurrency locks depends on
\* the snapshot only.
LEMMA ChosenIsPlan ==
  ASSUME FifoQueue, Types, Concurrency # None, NEW e \in Executors, tx[e].pc # "idle"
  PROVE  Chosen(e) = Plan(tx[e])
<1>1. Rows(e) = tx[e].snap /\ ~SkipLocked /\ tx[e].snap \in [Workflows -> WfRecords]
  BY DEF Rows, Repeatable, SkipLocked, Types, TxOK
<1>2. \A w \in Workflows : VersionOk(e, tx[e].snap[w])
  <2>1. \A v \in Versions : v \in {None, LatestVersion}
    BY DEF FifoQueue, Versions
  <2>2. ASSUME NEW w \in Workflows PROVE tx[e].snap[w].ver \in Versions
    BY <1>1 DEF WfRecords
  <2> QED
    BY <2>1, <2>2 DEF VersionOk, FifoQueue
<1>3. Candidates(e, tx[e].snap) = InStatus(tx[e].snap, tx[e].part, {"ENQUEUED"})
  BY <1>2 DEF Candidates, InStatus
<1> QED
  BY <1>1, <1>3 DEF Chosen, Plan

\* A row that is not PENDING yet, and is not dequeued by a step, does not come
\* before the rows that a transaction has planned to lock.
LEMMA StatusKept ==
  ASSUME QueueAssumption, DispatchInv, CreatedInv, FifoQueue, [Next]_vars,
         \A w \in Workflows : wf[w].status # "DELAYED",
         ~\E e \in Executors : Commit(e)
  PROVE  \A w \in Workflows :
            /\ wf'[w].status # "DELAYED"
            /\ wf'[w].status = "PENDING" => wf[w].status = "PENDING"
            /\ wf'[w].status = "ENQUEUED" =>
                  wf[w].status \in {"ABSENT", "ENQUEUED", "PENDING"}
<1> DEFINE Kept == \A w \in Workflows :
            /\ wf'[w].status # "DELAYED"
            /\ wf'[w].status = "PENDING" => wf[w].status = "PENDING"
            /\ wf'[w].status = "ENQUEUED" =>
                  wf[w].status \in {"ABSENT", "ENQUEUED", "PENDING"}
<1>0. Types
  BY DEF DispatchInv
<1>1. ASSUME NEW w \in Workflows, NEW d \in Delays, Enqueue(w, d)
      PROVE  Kept
  <2>1. d = 0
    BY DEF FifoQueue
  <2>2. /\ wf[w].status = "ABSENT" /\ wf'[w].status = "ENQUEUED"
        /\ \A v \in Workflows : v # w => wf'[v] = wf[v]
    BY <1>0, <1>1, <2>1 DEF Enqueue, Types, NoRow
  <2> QED
    BY <2>2
<1>2. ASSUME NEW w \in Workflows, NEW d \in Delays, SetDelay(w, d)
      PROVE  FALSE
  BY <1>2 DEF SetDelay
<1>3. ASSUME NEW w \in Workflows, Cancel(w)
      PROVE  Kept
  <2>1. wf' = [wf EXCEPT ![w] = [wf[w] EXCEPT !.status = "CANCELLED", !.started = None]]
    BY <1>3 DEF Cancel
  <2> QED
    BY <1>0, <2>1 DEF Types, WfRecords
<1>4. ASSUME NEW e \in Executors, TransitionDelayed(e)
      PROVE  FALSE
  BY <1>4 DEF TransitionDelayed, Due
<1>5. ASSUME NEW e \in Executors, NEW w \in Workflows, Finish(e, w)
      PROVE  Kept
  BY <1>0, <1>5 DEF Finish, Types, WfRecords
<1>6. ASSUME NEW e \in Executors, NEW w \in Workflows, ReturnToQueue(e, w)
      PROVE  Kept
  BY <1>0, <1>6, ReturnEffect
<1>7. ASSUME UNCHANGED wf
      PROVE  Kept
  BY <1>7
<1> QED
  BY <1>1, <1>2, <1>3, <1>4, <1>5, <1>6, <1>7
     DEF Next, Worker, Thread, PollNothing, Begin, LockRows, Start, Release, Crash, Restart,
         Tick, vars

LEMMA PlanPresent ==
  ASSUME CreatedInv, NEW e \in Executors, tx[e].pc # "idle", NEW v \in Plan(tx[e])
  PROVE  v \in Workflows /\ v \in Present(wf)
<1>1. v \in InStatus(tx[e].snap, tx[e].part, {"ENQUEUED"})
  BY FirstOfType DEF Plan
<1>2. v \in Present(tx[e].snap)
  BY <1>1 DEF InStatus, Present
<1> QED
  BY <1>2 DEF CreatedInv, Present

\* A step that is no commit adds nothing to what a transaction may leave
\* PENDING: a new row comes after those it has planned to lock.
LEMMA BoundShrinks ==
  ASSUME QueueAssumption, DispatchInv, CreatedInv, FifoQueue, [Next]_vars,
         \A w \in Workflows : wf[w].status # "DELAYED",
         ~\E f \in Executors : Commit(f),
         NEW e \in Executors, tx[e].pc # "idle", NEW t,
         t.part = tx[e].part, Plan(t) = Plan(tx[e])
  PROVE  Bound(wf', t) \subseteq Bound(wf, tx[e])
<1> SUFFICES ASSUME NEW w \in Bound(wf', t) PROVE w \in Bound(wf, tx[e])
  OBVIOUS
<1>1. \A x \in Workflows :
         /\ wf'[x].status = "PENDING" => wf[x].status = "PENDING"
         /\ wf'[x].status = "ENQUEUED" => wf[x].status \in {"ABSENT", "ENQUEUED", "PENDING"}
  BY StatusKept
<1>2. CASE w \in InStatus(wf', t.part, {"PENDING"})
  BY <1>1, <1>2 DEF InStatus, Bound
<1>3. CASE w \in Reach(wf', t)
  <2>1. w \in Workflows /\ Partition[w] = t.part /\ wf'[w].status = "ENQUEUED"
    BY <1>3 DEF Reach, InStatus
  <2>2. PICK v \in Plan(t) : wf'[w].created <= wf'[v].created
    BY <1>3 DEF Reach
  <2>3. v \in Workflows /\ v \in Present(wf)
    BY PlanPresent
  <2>4. CASE wf[w].status = "PENDING"
    BY <2>1, <2>4 DEF Bound, InStatus
  <2>5. CASE wf[w].status = "ENQUEUED"
    <3>1. wf'[w].created = wf[w].created /\ wf'[v].created = wf[v].created
      BY <2>1, <2>3, <2>5, RowsKept DEF Present
    <3> QED
      BY <2>1, <2>2, <2>5, <3>1 DEF Bound, Reach, InStatus
  <2>6. CASE wf[w].status = "ABSENT"
    <3>1. /\ wf'[w].created = 1 + Cardinality(Present(wf)) /\ wf'[v].created = wf[v].created
      BY <2>1, <2>3, <2>6, RowsKept DEF Present
    <3>2. wf[v].created \in 1..Cardinality(Present(wf))
      BY <2>3 DEF CreatedInv
    <3>3. Cardinality(Present(wf)) \in Nat
      BY PresentType
    <3> QED
      BY <2>2, <3>1, <3>2, <3>3
  <2> QED
    BY <1>1, <2>1, <2>4, <2>5, <2>6
<1> QED
  BY <1>2, <1>3 DEF Bound

LEMMA UnionBound ==
  ASSUME NEW A, NEW B, IsFiniteSet(A), IsFiniteSet(B)
  PROVE  Cardinality(A \cup B) <= Cardinality(A) + Cardinality(B)
<1>1. A \cap B \in SUBSET A
  OBVIOUS
<1>2. Cardinality(A \cap B) \in Nat
  BY <1>1, FS_Subset, FS_CardinalityType
<1>3. Cardinality(A \cup B) = Cardinality(A) + Cardinality(B) - Cardinality(A \cap B)
  BY FS_Union
<1>4. Cardinality(A) \in Nat /\ Cardinality(B) \in Nat
  BY FS_CardinalityType
<1> QED
  BY <1>2, <1>3, <1>4

\* The first rows of a queue are those up to any of them.
LEMMA FirstClosed ==
  ASSUME QueueAssumption, FifoQueue, NEW rows \in [Workflows -> WfRecords],
         NEW S \in SUBSET Workflows, NEW n \in Nat,
         NEW v \in FirstOf(n, S, rows), NEW w \in S, rows[w].created <= rows[v].created
  PROVE  w \in FirstOf(n, S, rows)
<1> DEFINE P(x) == {u \in S : Before(rows, u, x)}
<1>1. v \in S /\ Cardinality(P(v)) < n
  BY DEF FirstOf
<1>2. \A x \in S : Priority[x] = Priority[w] /\ Priority[x] \in Nat /\ rows[x].created \in Nat
  BY DEF FifoQueue, QueueAssumption, WfRecords
<1>3. P(w) \in SUBSET P(v) /\ P(v) \in SUBSET Workflows /\ IsFiniteSet(Workflows)
  BY <1>1, <1>2 DEF Before, QueueAssumption
<1> HIDE DEF P
<1>4. Cardinality(P(w)) <= Cardinality(P(v)) /\ IsFiniteSet(P(w)) /\ IsFiniteSet(P(v))
  BY <1>3, FS_Subset
<1>5. Cardinality(P(w)) \in Nat /\ Cardinality(P(v)) \in Nat
  BY <1>4, FS_CardinalityType
<1>6. Cardinality(P(w)) < n
  BY <1>1, <1>4, <1>5
<1> QED
  BY <1>6 DEF FirstOf, P

\* A transaction that begins has room for what it plans.
LEMMA BeginBound ==
  ASSUME QueueAssumption, DispatchInv, CreatedInv, FifoQueue, Concurrency # None,
         NEW e \in Executors, NEW p \in Partitions, Begin(e, p)
  PROVE  Cardinality(Bound(wf, tx'[e])) <= Concurrency /\ tx'[e].ids = {} /\ wf' = wf
<1>0. Types
  BY DEF DispatchInv
<1> DEFINE r == Room(e, p)
           S == InStatus(wf, p, {"ENQUEUED"})
           A == InStatus(wf, p, {"PENDING"})
           F == FirstOf(r, S, wf)
           l == IF WorkerConcurrency = None THEN Cardinality(Workflows)
                ELSE Minus(WorkerConcurrency, Cardinality({w \in running[e] : Partition[w] = p}))
<1>1. /\ tx'[e].part = p /\ tx'[e].ids = {} /\ tx'[e].room = r /\ tx'[e].snap = wf
      /\ r > 0 /\ wf' = wf
  BY <1>0 DEF Begin, Types, NoTx, MayDequeue
<1>2. IsFiniteSet(A) /\ Cardinality(A) \in Nat
  BY StatusFinite
<1>3. r \in Nat
  BY <1>0, RoomType
<1>4. l \in Nat
  <2>1. {w \in running[e] : Partition[w] = p} \in SUBSET Workflows /\ IsFiniteSet(Workflows)
    BY <1>0 DEF Types, QueueAssumption
  <2>2. Cardinality({w \in running[e] : Partition[w] = p}) \in Nat /\ Cardinality(Workflows) \in Nat
    BY <2>1, FS_Subset, FS_CardinalityType
  <2> QED
    BY <2>2 DEF QueueAssumption, Minus
<1>5. r = Lower(l, Minus(Concurrency, Cardinality(A))) /\ Concurrency \in Nat
  BY DEF Room, QueueAssumption
<1>6. S \in SUBSET Present(wf) /\ S \in SUBSET Workflows /\ wf \in [Workflows -> WfRecords]
      /\ Numbered(wf)
  BY <1>0 DEF InStatus, Present, Types, CreatedInv
<1>7. Plan(tx'[e]) = F
  BY <1>1 DEF Plan
<1> HIDE DEF r, l, S, A, F
<1>8. Cardinality(A) + r <= Concurrency
  BY <1>1, <1>2, <1>3, <1>4, <1>5 DEF Minus, Lower
<1>9. F \subseteq S /\ Cardinality(F) <= r
  BY <1>3, <1>6, FirstOfBound, FirstOfType DEF F
<1>10. IsFiniteSet(F) /\ Cardinality(F) \in Nat
  <2>1. F \in SUBSET Workflows /\ IsFiniteSet(Workflows)
    BY <1>6, <1>9 DEF QueueAssumption
  <2> QED
    BY <2>1, FS_Subset, FS_CardinalityType
<1>11. Bound(wf, tx'[e]) \subseteq A \cup F
  <2>1. Reach(wf, tx'[e]) \subseteq F
    <3> SUFFICES ASSUME NEW w \in Reach(wf, tx'[e]) PROVE w \in F
      OBVIOUS
    <3>1. w \in S /\ \E v \in F : wf[w].created <= wf[v].created
      BY <1>1, <1>7 DEF Reach, S
    <3> QED
      BY <1>3, <1>6, <3>1, FirstClosed DEF F
  <2> QED
    BY <1>1, <2>1 DEF Bound, A
<1>12. IsFiniteSet(A \cup F) /\ Cardinality(A \cup F) <= Concurrency
  <2>1. IsFiniteSet(A \cup F) /\ Cardinality(A \cup F) <= Cardinality(A) + Cardinality(F)
    BY <1>2, <1>10, UnionBound, FS_Union
  <2>2. Cardinality(A \cup F) \in Nat
    BY <2>1, FS_CardinalityType
  <2> QED
    BY <1>2, <1>3, <1>5, <1>8, <1>9, <1>10, <2>1, <2>2
<1>13. Cardinality(Bound(wf, tx'[e])) <= Concurrency
  BY <1>5, <1>11, <1>12, Within
<1> QED
  BY <1>1, <1>13

\* What a commit starts is among the rows up to those it has planned.
LEMMA TakenReached ==
  ASSUME DispatchInv, CreatedInv, NEW g \in Executors, tx[g].pc # "idle",
         tx[g].ids \subseteq Plan(tx[g]), NEW w \in Taken(g)
  PROVE  w \in Workflows /\ Partition[w] = tx[g].part /\ w \in Reach(wf, tx[g])
<1>1. w \in tx[g].ids /\ w \in Plan(tx[g])
  BY TakenType
<1>2. w \in InStatus(tx[g].snap, tx[g].part, {"ENQUEUED"})
  BY <1>1, FirstOfType DEF Plan
<1>3. w \in Workflows /\ wf[w].status = "ENQUEUED" /\ wf[w].created \in Nat
  BY <1>1, <1>2 DEF DispatchInv, LockInv, InStatus, Types, WfRecords
<1>4. wf[w].created <= wf[w].created
  BY <1>3
<1> QED
  BY <1>1, <1>2, <1>3, <1>4 DEF InStatus, Reach

\* The rows up to what two transactions of a partition have planned are nested.
LEMMA Nested ==
  ASSUME DispatchInv, CreatedInv, NEW e \in Executors, NEW g \in Executors,
         tx[e].pc # "idle", tx[g].pc # "idle", tx[e].part = tx[g].part
  PROVE  \/ Reach(wf, tx[g]) \subseteq Reach(wf, tx[e])
         \/ Reach(wf, tx[e]) \subseteq Reach(wf, tx[g])
<1>0. \A w \in Workflows : wf[w].created \in Nat
  BY DEF DispatchInv, Types, WfRecords
<1>1. \A v : v \in Plan(tx[e]) \/ v \in Plan(tx[g]) => v \in Workflows
  BY PlanPresent
<1>2. CASE \A u \in Plan(tx[g]) : \E v \in Plan(tx[e]) : wf[u].created <= wf[v].created
  <2> SUFFICES ASSUME NEW w \in Reach(wf, tx[g]) PROVE w \in Reach(wf, tx[e])
    OBVIOUS
  <2>1. w \in InStatus(wf, tx[e].part, {"ENQUEUED"}) /\ w \in Workflows
    BY DEF Reach, InStatus
  <2>2. PICK u \in Plan(tx[g]) : wf[w].created <= wf[u].created
    BY DEF Reach
  <2>3. PICK v \in Plan(tx[e]) : wf[u].created <= wf[v].created
    BY <1>2
  <2>4. wf[w].created <= wf[v].created
    BY <1>0, <1>1, <2>1, <2>2, <2>3
  <2> QED
    BY <2>1, <2>4 DEF Reach
<1>3. CASE \E u \in Plan(tx[g]) : \A v \in Plan(tx[e]) : ~(wf[u].created <= wf[v].created)
  <2> SUFFICES ASSUME NEW w \in Reach(wf, tx[e]) PROVE w \in Reach(wf, tx[g])
    OBVIOUS
  <2>1. w \in InStatus(wf, tx[g].part, {"ENQUEUED"}) /\ w \in Workflows
    BY DEF Reach, InStatus
  <2>2. PICK u \in Plan(tx[g]) : \A v \in Plan(tx[e]) : ~(wf[u].created <= wf[v].created)
    BY <1>3
  <2>3. PICK v \in Plan(tx[e]) : wf[w].created <= wf[v].created
    BY DEF Reach
  <2>4. wf[w].created <= wf[u].created
    BY <1>0, <1>1, <2>1, <2>2, <2>3
  <2> QED
    BY <2>1, <2>4 DEF Reach
<1> QED
  BY <1>2, <1>3

\* A commit leaves the others within the concurrency: the rows up to what it
\* had planned contain theirs, or are contained in them.
LEMMA CommitBound ==
  ASSUME QueueAssumption, DispatchInv, CreatedInv, Concurrency # None, RoomInv,
         NEW g \in Executors, Commit(g)
  PROVE  /\ \A p \in Partitions : Cardinality(InStatus(wf', p, {"PENDING"})) <= Concurrency
         /\ \A e \in Executors : e # g /\ tx[e].pc # "idle" =>
               Cardinality(Bound(wf', tx[e])) <= Concurrency
<1>0. Types /\ Concurrency \in Nat /\ tx[g].pc # "idle"
  BY DEF DispatchInv, QueueAssumption, Commit
<1>1. \A w \in Workflows :
         /\ w \notin Taken(g) => wf'[w] = wf[w]
         /\ w \in Taken(g) => wf'[w].status = "PENDING"
         /\ wf'[w].created = wf[w].created
  BY <1>0, CommitEffect
<1>2. \A w \in Taken(g) : Partition[w] = tx[g].part /\ w \in Reach(wf, tx[g])
  BY <1>0, TakenReached DEF RoomInv
<1>3. Cardinality(Bound(wf, tx[g])) <= Concurrency /\ IsFiniteSet(Bound(wf, tx[g]))
  BY <1>0, BoundFinite DEF RoomInv
<1>4. ASSUME NEW p \in Partitions
      PROVE  Cardinality(InStatus(wf', p, {"PENDING"})) <= Concurrency
  <2>1. CASE p = tx[g].part
    <3>1. InStatus(wf', p, {"PENDING"}) \subseteq Bound(wf, tx[g])
      BY <1>1, <1>2, <2>1 DEF InStatus, Bound
    <3> QED
      BY <1>0, <1>3, <3>1, Within
  <2>2. CASE p # tx[g].part
    <3>1. InStatus(wf', p, {"PENDING"}) = InStatus(wf, p, {"PENDING"})
      BY <1>1, <1>2, <2>2 DEF InStatus
    <3> QED
      BY <3>1 DEF RoomInv
  <2> QED
    BY <2>1, <2>2
<1>5. ASSUME NEW e \in Executors, tx[e].pc # "idle"
      PROVE  Cardinality(Bound(wf', tx[e])) <= Concurrency
  <2>1. Cardinality(Bound(wf, tx[e])) <= Concurrency /\ IsFiniteSet(Bound(wf, tx[e]))
    BY <1>5, BoundFinite DEF RoomInv
  <2>2. \A v \in Plan(tx[e]) : v \in Workflows
    BY <1>5, PlanPresent
  <2>3. Reach(wf', tx[e]) \subseteq Reach(wf, tx[e])
    BY <1>1, <2>2 DEF Reach, InStatus
  <2>4. CASE tx[e].part # tx[g].part
    <3>1. InStatus(wf', tx[e].part, {"PENDING"}) = InStatus(wf, tx[e].part, {"PENDING"})
      BY <1>1, <1>2, <2>4 DEF InStatus
    <3>2. Bound(wf', tx[e]) \subseteq Bound(wf, tx[e])
      BY <2>3, <3>1 DEF Bound
    <3> QED
      BY <1>0, <2>1, <3>2, Within
  <2>5. CASE tx[e].part = tx[g].part
    <3>1. InStatus(wf', tx[e].part, {"PENDING"})
            \subseteq InStatus(wf, tx[e].part, {"PENDING"}) \cup Reach(wf, tx[g])
      BY <1>1, <1>2 DEF InStatus
    <3>2. CASE Reach(wf, tx[g]) \subseteq Reach(wf, tx[e])
      <4>1. Bound(wf', tx[e]) \subseteq Bound(wf, tx[e])
        BY <2>3, <3>1, <3>2 DEF Bound
      <4> QED
        BY <1>0, <2>1, <4>1, Within
    <3>3. CASE Reach(wf, tx[e]) \subseteq Reach(wf, tx[g])
      <4>1. Bound(wf', tx[e]) \subseteq Bound(wf, tx[g])
        BY <2>3, <2>5, <3>1, <3>3 DEF Bound
      <4> QED
        BY <1>0, <1>3, <4>1, Within
    <3> QED
      BY <1>0, <1>5, <2>5, <3>2, <3>3, Nested
  <2> QED
    BY <2>4, <2>5
<1> QED
  BY <1>4, <1>5

LEMMA RoomStep ==
  ASSUME QueueAssumption, FifoQueue, Concurrency # None,
         DispatchInv, CreatedInv, RoomInv, [Next]_vars
  PROVE  RoomInv'
<1>0. Types /\ Concurrency \in Nat
  BY DEF DispatchInv, QueueAssumption
<1> SUFFICES /\ \A w \in Workflows : wf'[w].status # "DELAYED"
             /\ \A p \in Partitions : Cardinality(InStatus(wf', p, {"PENDING"})) <= Concurrency
             /\ \A e \in Executors : tx'[e].pc # "idle" =>
                   Cardinality(Bound(wf', tx'[e])) <= Concurrency /\ tx'[e].ids \subseteq Plan(tx'[e])
  BY DEF RoomInv, InStatus, Bound, Reach, Plan, FirstOf, Before
<1>1. CASE \E g \in Executors : Commit(g)
  <2>1. PICK g \in Executors : Commit(g)
    BY <1>1
  <2>2. tx'[g].pc = "idle" /\ \A e \in Executors : e # g => tx'[e] = tx[e]
    BY <1>0, <2>1, NoTxType DEF Commit, Types
  <2>3. \A w \in Workflows : wf'[w].status # "DELAYED"
    BY <1>0, <2>1, CommitEffect DEF RoomInv
  <2>4. /\ \A p \in Partitions : Cardinality(InStatus(wf', p, {"PENDING"})) <= Concurrency
        /\ \A e \in Executors : e # g /\ tx[e].pc # "idle" =>
              Cardinality(Bound(wf', tx[e])) <= Concurrency
    BY <2>1, CommitBound
  <2>5. \A e \in Executors : tx[e].pc # "idle" => tx[e].ids \subseteq Plan(tx[e])
    BY DEF RoomInv
  <2> QED
    BY <2>2, <2>3, <2>4, <2>5
<1>2. CASE ~\E g \in Executors : Commit(g)
  <2>0. \A w \in Workflows : wf[w].status # "DELAYED"
    BY DEF RoomInv
  <2>1. \A w \in Workflows : /\ wf'[w].status # "DELAYED"
                             /\ wf'[w].status = "PENDING" => wf[w].status = "PENDING"
    BY <1>2, <2>0, StatusKept
  <2>2. ASSUME NEW p \in Partitions
        PROVE  Cardinality(InStatus(wf', p, {"PENDING"})) <= Concurrency
    <3>1. InStatus(wf', p, {"PENDING"}) \subseteq InStatus(wf, p, {"PENDING"})
      BY <2>1 DEF InStatus
    <3>2. /\ Cardinality(InStatus(wf, p, {"PENDING"})) <= Concurrency
          /\ IsFiniteSet(InStatus(wf, p, {"PENDING"}))
      BY StatusFinite DEF RoomInv
    <3> QED
      BY <1>0, <3>1, <3>2, Within
  <2>3. ASSUME NEW e \in Executors, tx'[e].pc # "idle"
        PROVE  Cardinality(Bound(wf', tx'[e])) <= Concurrency /\ tx'[e].ids \subseteq Plan(tx'[e])
    <3>1. CASE \E p \in Partitions : Begin(e, p)
      BY <3>1, BeginBound
    <3>2. CASE /\ tx[e].pc # "idle" /\ tx'[e].snap = tx[e].snap
               /\ tx'[e].part = tx[e].part /\ tx'[e].room = tx[e].room
               /\ \/ tx'[e] = tx[e]
                  \/ LockRows(e) /\ tx'[e].ids = Chosen(e)
      <4>1. Plan(tx'[e]) = Plan(tx[e])
        BY <3>2 DEF Plan
      <4>2. Bound(wf', tx'[e]) \subseteq Bound(wf, tx[e])
        BY <1>2, <2>0, <3>2, <4>1, BoundShrinks
      <4>3. Cardinality(Bound(wf, tx[e])) <= Concurrency /\ IsFiniteSet(Bound(wf, tx[e]))
        BY <3>2, BoundFinite DEF RoomInv
      <4>4. Cardinality(Bound(wf', tx'[e])) <= Concurrency
        BY <1>0, <4>2, <4>3, Within
      <4>5. tx'[e].ids \subseteq Plan(tx[e])
        BY <1>0, <3>2, ChosenIsPlan DEF RoomInv
      <4> QED
        BY <4>1, <4>4, <4>5
    <3> QED
      BY <2>3, <3>1, <3>2, TxKept
  <2> QED
    BY <2>1, <2>2, <2>3
<1> QED
  BY <1>1, <1>2

LEMMA LimitsInit ==
  ASSUME QueueAssumption, Init
  PROVE  /\ CreatedInv
         /\ WorkerConcurrency # None => WorkerInv
         /\ Concurrency # None => RoomInv
<1>1. /\ \A w \in Workflows : wf[w].status = "ABSENT"
      /\ \A e \in Executors : tx[e].pc = "idle" /\ pool[e] = {} /\ running[e] = {}
  BY NoTxType DEF Init, NoRow
<1>2. CreatedInv
  BY <1>1 DEF CreatedInv, Numbered, Present
<1>3. ASSUME WorkerConcurrency # None
      PROVE  WorkerInv
  <2>1. WorkerConcurrency \in Nat
    BY <1>3 DEF QueueAssumption
  <2>2. \A e \in Executors, p \in Partitions : HeldOf(e, p) = {}
    BY <1>1 DEF HeldOf, Held
  <2>3. \A n \in Nat : Cardinality({}) <= n
    BY FS_EmptySet
  <2> QED
    BY <1>1, <2>1, <2>2, <2>3 DEF WorkerInv
<1>4. ASSUME Concurrency # None
      PROVE  RoomInv
  <2>1. Concurrency \in Nat
    BY <1>4 DEF QueueAssumption
  <2>2. \A p \in Partitions : InStatus(wf, p, {"PENDING"}) = {}
    BY <1>1 DEF InStatus
  <2>3. Cardinality({}) <= Concurrency
    BY <2>1, FS_EmptySet
  <2> QED
    BY <1>1, <2>1, <2>2, <2>3 DEF RoomInv
<1> QED
  BY <1>2, <1>3, <1>4

LEMMA Numbering ==
  ASSUME QueueAssumption
  PROVE  Spec => [](DispatchInv /\ CreatedInv)
<1>1. Init => DispatchInv /\ CreatedInv
  BY DispatchInit, LimitsInit
<1>2. DispatchInv /\ CreatedInv /\ [Next]_vars => DispatchInv' /\ CreatedInv'
  BY DispatchStep, CreatedStep
<1> QED
  BY <1>1, <1>2, PTL DEF Spec

\* Never more workflows of a partition run in a process than its worker
\* concurrency, if what was dispatched has a thread before the next poll
\* (start_queued_workflows counts ActiveWorkflowById).
THEOREM WorkerLimited ==
  ASSUME QueueAssumption, PromptThreads
  PROVE  Spec => []WorkerLimit
<1>1. CASE WorkerConcurrency = None
  <2>1. WorkerLimit
    BY <1>1 DEF WorkerLimit
  <2> QED
    BY <2>1, PTL
<1>2. CASE WorkerConcurrency # None
  <2>1. Init => WorkerInv
    BY <1>2, LimitsInit
  <2>2. DispatchInv /\ CreatedInv /\ WorkerInv /\ [Next]_vars => WorkerInv'
    BY <1>2, WorkerStep
  <2>3. DispatchInv /\ WorkerInv => WorkerLimit
    <3> SUFFICES ASSUME DispatchInv, WorkerInv, NEW e \in Executors, NEW p \in Partitions
                 PROVE  Cardinality({w \in running[e] : Partition[w] = p /\ wf[w].status = "PENDING"})
                          <= WorkerConcurrency
      BY DEF WorkerLimit
    <3>1. {w \in running[e] : Partition[w] = p /\ wf[w].status = "PENDING"} \subseteq HeldOf(e, p)
      BY DEF HeldOf, Held
    <3>2. IsFiniteSet(HeldOf(e, p)) /\ Cardinality(HeldOf(e, p)) <= WorkerConcurrency
      BY HeldFinite DEF DispatchInv, WorkerInv
    <3>3. WorkerConcurrency \in Nat
      BY <1>2 DEF QueueAssumption
    <3> QED
      BY <3>1, <3>2, <3>3, Within
  <2> QED
    BY <2>1, <2>2, <2>3, Numbering, PTL DEF Spec
<1> QED
  BY <1>1, <1>2

\* Never more workflows of a first-in, first-out queue are PENDING than its
\* concurrency, however the dequeue transactions of the workers interleave
\* (start_queued_workflows): each plans by its own snapshot, and what they plan
\* is the beginning of one order.
THEOREM ConcurrencyLimited ==
  ASSUME QueueAssumption, FifoQueue
  PROVE  Spec => []ConcurrencyLimit
<1>1. CASE Concurrency = None
  <2>1. ConcurrencyLimit
    BY <1>1 DEF ConcurrencyLimit
  <2> QED
    BY <2>1, PTL
<1>2. CASE Concurrency # None
  <2>1. Init => RoomInv
    BY <1>2, LimitsInit
  <2>2. DispatchInv /\ CreatedInv /\ RoomInv /\ [Next]_vars => RoomInv'
    BY <1>2, RoomStep
  <2>3. RoomInv => ConcurrencyLimit
    BY DEF RoomInv, ConcurrencyLimit
  <2> QED
    BY <2>1, <2>2, <2>3, Numbering, PTL DEF Spec
<1> QED
  BY <1>1, <1>2
=============================================================================

----------------------- MODULE WorkflowExecutionProofs -----------------------
(***************************************************************************)
(* Proofs, for every number of executors, invocations and steps, of the    *)
(* safety properties of WorkflowExecution.                                 *)
(***************************************************************************)
EXTENDS WorkflowExecution, TLAPS

\* Type correctness and control state are inductive together: a step number
\* stays in range because only a running invocation advances it.
TypeInv == TypeOK /\ ControlInv /\ PresenceInv

LEMMA NoCallType == NoCall \in CallRecords
  BY ConstantsAssumption DEF NoCall, CallRecords, Pcs, Kinds, Entry, Blank,
     NoOutput, Outputs, Steps

LEMMA EndedType ==
  ASSUME NEW k \in CallRecords, NEW pc \in Pcs
  PROVE  Ended(k, pc) \in CallRecords
  BY NoCallType DEF Ended, CallRecords

LEMMA LeftType ==
  ASSUME NEW k \in CallRecords
  PROVE  Left(k) \in CallRecords
  BY EndedType DEF Left, CallRecords, Pcs

LEMMA AdvancedType ==
  ASSUME NEW k \in CallRecords, NEW n \in Entry, k.step \in Steps
  PROVE  Advanced(k, n) \in CallRecords
<1> DEFINE seen == [k.seen EXCEPT ![k.step] = n]
           pc == IF n.val \in FailVals THEN "error"
                 ELSE IF k.step = NumSteps THEN "outcome" ELSE "check"
<1>1. seen \in [Steps -> Entry]
  BY DEF CallRecords
<1>2. k.step + 1 \in 1..(NumSteps + 1)
  BY ConstantsAssumption DEF Steps
<1>3. pc \in Pcs
  BY DEF Pcs
<1>4. Blank \in Entry
  BY DEF Blank, Entry
<1>5. Advanced(k, n) = [k EXCEPT !.seen = seen, !.step = k.step + 1,
                                 !.new = Blank, !.pc = pc]
  BY DEF Advanced, CallRecords
<1> HIDE DEF seen, pc
<1> QED
  BY <1>1, <1>2, <1>3, <1>4, <1>5, ZenonT(60) DEF CallRecords

LEMMA InitType == Init => TypeInv
  BY NoCallType, ConstantsAssumption DEF Init, TypeInv, TypeOK, ControlInv,
     ControlOK, PresenceInv, RowRecords, Statuses, NoOutput, Outputs, Steps,
     Entry, Blank, NoCall, Running, Live, Forced, Calls

\* An action that replaces one invocation's record by a good one keeps the
\* types and the control state of all of them.
LEMMA SetControl ==
  ASSUME TypeOK, ControlInv, NEW c \in Calls, NEW k \in CallRecords, Set(c, k),
         up' = up, ControlOK(c, k)
  PROVE  call' \in [Calls -> CallRecords] /\ ControlInv'
  BY DEF TypeOK, ControlInv, ControlOK, Set

LEMMA EndedFields ==
  ASSUME NEW k \in CallRecords, NEW pc
  PROVE  LET j == Ended(k, pc)
         IN  /\ j.pc = pc /\ j.kind = k.kind /\ j.owned = FALSE /\ j.step = 1
             /\ j.exec = None /\ j.ran = k.ran /\ j.result = k.result
             /\ j.seen = [s \in Steps |-> Blank] /\ j.new = Blank
  BY DEF Ended, NoCall

LEMMA AdvancedFields ==
  ASSUME NEW k \in CallRecords, NEW n
  PROVE  LET j == Advanced(k, n)
         IN  /\ j.seen = [k.seen EXCEPT ![k.step] = n] /\ j.step = k.step + 1
             /\ j.kind = k.kind /\ j.owned = k.owned /\ j.exec = k.exec
             /\ j.ran = k.ran /\ j.result = k.result /\ j.new = Blank
             /\ j.pc = IF n.val \in FailVals THEN "error"
                       ELSE IF k.step = NumSteps THEN "outcome" ELSE "check"
  BY DEF Advanced, CallRecords

LEMMA EndedControl ==
  ASSUME NEW c \in Calls, NEW k \in CallRecords, NEW pc \in {"done", "dead"},
         ControlOK(c, k), k.pc # "idle"
  PROVE  Ended(k, pc) \in CallRecords /\ ControlOK(c, Ended(k, pc))
<1> DEFINE j == Ended(k, pc)
<1>1. j \in CallRecords
  BY EndedType DEF Pcs
<1>2. j.pc = pc /\ j.kind = k.kind /\ j.owned = FALSE /\ j.step = 1
  BY EndedFields
<1> HIDE DEF j
<1>3. ControlOK(c, j)
  BY <1>2 DEF ControlOK, Live, Forced, Running
<1> QED
  BY <1>1, <1>3 DEF j

LEMMA LeftControl ==
  ASSUME NEW c \in Calls, NEW k \in CallRecords, ControlOK(c, k), Live(k)
  PROVE  Left(k) \in CallRecords /\ ControlOK(c, Left(k))
  BY LeftType, EndedControl
     DEF ControlOK, Left, Pcs, Live, Forced, Running, CallRecords

LEMMA AdvancedControl ==
  ASSUME NEW c \in Calls, NEW k \in CallRecords, ControlOK(c, k),
         k.pc \in {"check", "record"}, NEW n \in Entry
  PROVE  Advanced(k, n) \in CallRecords /\ ControlOK(c, Advanced(k, n))
<1> DEFINE j == Advanced(k, n)
<1>1. k.step \in Steps /\ k.exec \in up
  BY DEF ControlOK, Live
<1>2. j \in CallRecords
  BY <1>1, AdvancedType
<1>3. /\ j.step = k.step + 1 /\ j.kind = k.kind /\ j.owned = k.owned
      /\ j.exec = k.exec
      /\ j.pc = IF n.val \in FailVals THEN "error"
                ELSE IF k.step = NumSteps THEN "outcome" ELSE "check"
  BY AdvancedFields
<1> HIDE DEF j
<1>4. ControlOK(c, j)
  BY <1>1, <1>3, ConstantsAssumption DEF ControlOK, Live, Forced, Running, Steps
<1> QED
  BY <1>2, <1>4 DEF j

\* Every other update of an invocation's record changes some of six fields.
Upd(k, p, q, b, o, n, r) ==
    [k EXCEPT !.pc = p, !.queued = q, !.ran = b, !.owned = o, !.new = n,
              !.result = r]

LEMMA UpdType ==
  ASSUME NEW k \in CallRecords, NEW p \in Pcs, NEW q \in BOOLEAN,
         NEW b \in BOOLEAN, NEW o \in BOOLEAN, NEW n \in Entry, NEW r \in Outputs
  PROVE  Upd(k, p, q, b, o, n, r) \in CallRecords
  BY DEF Upd, CallRecords

LEMMA UpdFields ==
  ASSUME NEW k \in CallRecords, NEW p, NEW q, NEW b, NEW o, NEW n, NEW r
  PROVE  LET j == Upd(k, p, q, b, o, n, r)
         IN  /\ j.pc = p /\ j.queued = q /\ j.ran = b /\ j.owned = o
             /\ j.new = n /\ j.result = r /\ j.kind = k.kind
             /\ j.exec = k.exec /\ j.step = k.step /\ j.seen = k.seen
  BY DEF Upd, CallRecords

\* What is known of a call that an action gave a place, an owner's mark, a new
\* record and a result.
Updated(k, j, p, o, n, r) ==
    /\ j.pc = p /\ j.new = n /\ j.result = r
    /\ j.kind = k.kind /\ j.owned = o /\ j.exec = k.exec
    /\ j.step = k.step /\ j.seen = k.seen

LEMMA UpdKeeps ==
  ASSUME NEW k \in CallRecords, NEW p, NEW q, NEW b, NEW o, NEW n, NEW r
  PROVE  Updated(k, Upd(k, p, q, b, o, n, r), p, o, n, r)
  BY UpdFields DEF Updated

LEMMA UpdForms ==
  ASSUME NEW k \in CallRecords, NEW p, NEW x
  PROVE  /\ [k EXCEPT !.pc = p]
              = Upd(k, p, k.queued, k.ran, k.owned, k.new, k.result)
         /\ [k EXCEPT !.pc = p, !.queued = x]
              = Upd(k, p, x, k.ran, k.owned, k.new, k.result)
         /\ [k EXCEPT !.ran = x, !.pc = p]
              = Upd(k, p, k.queued, x, k.owned, k.new, k.result)
         /\ [k EXCEPT !.pc = p, !.owned = x]
              = Upd(k, p, k.queued, k.ran, x, k.new, k.result)
         /\ [k EXCEPT !.pc = p, !.new = x]
              = Upd(k, p, k.queued, k.ran, k.owned, x, k.result)
         /\ [k EXCEPT !.result = x]
              = Upd(k, k.pc, k.queued, k.ran, k.owned, k.new, x)
<1>1. [k EXCEPT !.pc = p] = Upd(k, p, k.queued, k.ran, k.owned, k.new, k.result)
  BY DEF Upd, CallRecords
<1>2. [k EXCEPT !.pc = p, !.queued = x]
        = Upd(k, p, x, k.ran, k.owned, k.new, k.result)
  BY DEF Upd, CallRecords
<1>3. [k EXCEPT !.ran = x, !.pc = p]
        = Upd(k, p, k.queued, x, k.owned, k.new, k.result)
  BY DEF Upd, CallRecords
<1>4. [k EXCEPT !.pc = p, !.owned = x]
        = Upd(k, p, k.queued, k.ran, x, k.new, k.result)
  BY DEF Upd, CallRecords
<1>5. [k EXCEPT !.pc = p, !.new = x]
        = Upd(k, p, k.queued, k.ran, k.owned, x, k.result)
  BY DEF Upd, CallRecords
<1>6. [k EXCEPT !.result = x]
        = Upd(k, k.pc, k.queued, k.ran, k.owned, k.new, x)
  BY DEF Upd, CallRecords
<1> QED
  BY <1>1, <1>2, <1>3, <1>4, <1>5, <1>6

LEMMA CallFields ==
  ASSUME NEW k \in CallRecords
  PROVE  /\ k.pc \in Pcs /\ k.kind \in Kinds /\ k.queued \in BOOLEAN
         /\ k.ran \in BOOLEAN /\ k.owned \in BOOLEAN /\ k.new \in Entry
         /\ k.result \in Outputs /\ k.exec \in Executors \cup {None}
         /\ k.step \in 1..(NumSteps + 1) /\ k.seen \in [Steps -> Entry]
  BY DEF CallRecords

LEMMA RowTypes ==
  ASSUME NEW r \in RowRecords
  PROVE  /\ Cancelled(r) \in RowRecords
         /\ Resumed(r) \in RowRecords
         /\ Requeued(r) \in RowRecords
         /\ \A c \in Calls : DeadLettered(r, c) \in RowRecords
         /\ \A st \in Statuses, out \in Outputs :
              Finalized(r, st, out) \in RowRecords
  BY DEF Cancelled, Resumed, Requeued, DeadLettered, Finalized, RowRecords,
     Statuses

LEMMA UpsertedType ==
  ASSUME NEW r \in RowRecords, NEW c \in Calls, NEW k \in CallRecords,
         r.status = "ABSENT" => c \in Clients
  PROVE  Upserted(r, c, k) \in RowRecords /\ Upserted(r, c, k).status # "ABSENT"
<1>a. RequestsQueue(k) \in BOOLEAN /\ NoOutput \in Outputs
  BY DEF RequestsQueue, CallRecords, NoOutput, Outputs
<1>1. CASE r.status = "ABSENT"
  BY <1>1, <1>a DEF Upserted, RowRecords, CallRecords, Statuses
<1>2. CASE r.status # "ABSENT"
  <2> DEFINE n == IF r.status # "ENQUEUED" /\ Forced(k)
                    THEN r.attempts + 1 ELSE r.attempts
             e == IF RequestsQueue(k) THEN r.exec ELSE k.exec
  <2>1. n \in Nat /\ e \in Executors \cup {None}
    BY DEF RowRecords, CallRecords
  <2>2. Upserted(r, c, k) = [r EXCEPT !.attempts = n, !.exec = e]
    BY <1>2 DEF Upserted, RowRecords
  <2> HIDE DEF n, e
  <2> QED
    BY <1>2, <2>1, <2>2 DEF RowRecords
<1> QED
  BY <1>1, <1>2

LEMMA OutputType ==
  ASSUME NEW f \in [Steps -> Entry]
  PROVE  Output(f) \in Outputs
  BY DEF Output, Outputs, Entry

\* What an invocation that a step leaves alone holds, it holds afterwards.
LEMMA ControlKept ==
  ASSUME ControlInv, up \subseteq up'
  PROVE  \A c \in Calls : call'[c] = call[c] => ControlOK(c, call[c])'
  BY DEF ControlInv, ControlOK, Live, Forced

LEMMA StepType == TypeInv /\ [Next]_vars => TypeInv'
<1> SUFFICES ASSUME TypeInv, [Next]_vars
             PROVE  TypeInv'
  OBVIOUS
<1> USE ConstantsAssumption
<1>a. TypeOK /\ ControlInv /\ PresenceInv
  BY DEF TypeInv
<1>b. \A c \in Calls : call[c] \in CallRecords /\ ControlOK(c, call[c])
  BY <1>a DEF TypeOK, ControlInv
<1>1. CASE UNCHANGED vars
  BY <1>1 DEF vars, TypeInv, TypeOK, ControlInv, ControlOK, PresenceInv, Live
<1>2. ASSUME NEW c \in Clients, NEW e \in Executors, NEW kind \in Kinds,
             Request(c, e, kind)
      PROVE  TypeInv'
  <2> DEFINE k == [NoCall EXCEPT !.pc = "init", !.kind = kind, !.exec = e]
  <2>1. c \in Calls
    BY DEF Calls
  <2>2. /\ k \in CallRecords /\ k.pc = "init" /\ k.kind = kind /\ k.exec = e
        /\ k.owned = FALSE /\ k.step = 1
    BY NoCallType DEF NoCall, CallRecords, Pcs
  <2>3. Set(c, k) /\ up' = up /\ e \in up /\ kind \in {"start", "call", "enqueue"}
    BY <1>2 DEF Request
  <2> HIDE DEF k
  <2>4. ControlOK(c, k)
    BY <2>2, <2>3 DEF ControlOK, Live, Forced, Running
  <2>5. call' \in [Calls -> CallRecords] /\ ControlInv'
    BY <1>a, <2>1, <2>2, <2>3, <2>4, SetControl
  <2>6. TypeOK'
    BY <1>2, <1>a, <2>5 DEF Request, TypeOK
  <2>7. PresenceInv'
    BY <1>2, <1>a, <1>b, <2>1, <2>2, <2>3 DEF Request, PresenceInv, Forced, Set, TypeOK
  <2> QED
    BY <2>5, <2>6, <2>7 DEF TypeInv
<1>3. ASSUME NEW c \in Calls, ReturnToQueue(c)
      PROVE  TypeInv'
  <2>1. call[c].pc = "snapshot" /\ row.status # "ABSENT"
    BY <1>3, <1>a DEF ReturnToQueue, At, PresenceInv
  <2>2. row' \in RowRecords /\ row'.status # "ABSENT"
    BY <1>3, <1>a, <2>1, RowTypes DEF ReturnToQueue, TypeOK, Requeued, RowRecords
  <2>3. call' \in [Calls -> CallRecords] /\ ControlInv'
    <3>1. CASE Set(c, Ended(call[c], "done"))
      BY <3>1, <1>3, <1>a, <1>b, <2>1, EndedControl, SetControl DEF ReturnToQueue
    <3>2. CASE LoseAck
      BY <3>2, <1>3, <1>a DEF LoseAck, ReturnToQueue, TypeOK, ControlInv, ControlOK
    <3> QED
      BY <3>1, <3>2, <1>3 DEF ReturnToQueue
  <2>4. lost' \in 0..MaxLost
    BY <1>3, <1>a DEF ReturnToQueue, LoseAck, TypeOK
  <2> QED
    BY <1>3, <1>a, <2>2, <2>3, <2>4 DEF ReturnToQueue, TypeInv, TypeOK, PresenceInv
<1>4. ASSUME NEW c \in Calls, ExecuteById(c)
      PROVE  TypeInv'
  <2>1. /\ call[c].pc \in {"snapshot", "dispatched"} /\ row.status # "ABSENT"
        /\ up' = up
    BY <1>4, <1>a DEF ExecuteById, At, PresenceInv
  <2>2. NoOutput \in Outputs
    BY DEF NoOutput, Outputs
  <2>3. row' \in RowRecords /\ row'.status # "ABSENT"
    <3>1. CASE InputsOk
      BY <3>1, <1>4, <1>a, <2>1 DEF ExecuteById, TypeOK
    <3>2. CASE ~InputsOk
      <4>1. row' = Finalized(row, "ERROR", NoOutput) /\ row \in RowRecords
        BY <3>2, <1>4, <1>a DEF ExecuteById, TypeOK
      <4> QED
        <5>1. row' \in RowRecords
          BY <4>1, <2>2, RowTypes DEF Statuses
        <5>2. row'.status # "ABSENT"
          BY <4>1, <2>1 DEF Finalized, RowRecords
        <5> QED
          BY <5>1, <5>2
    <3> QED
      BY <3>1, <3>2
  <2>4. call' \in [Calls -> CallRecords] /\ ControlInv'
    <3>1. CASE InputsOk
      <4> DEFINE k == call[c]
                 j == Upd(k, "init", row.queued, k.ran, k.owned, k.new, k.result)
      <4>1. /\ k \in CallRecords /\ ControlOK(c, k) /\ Live(k)
            /\ k.pc \in {"snapshot", "dispatched"} /\ row.queued \in BOOLEAN
        BY <1>a, <1>b, <2>1 DEF Live, TypeOK, RowRecords
      <4>2. Set(c, [k EXCEPT !.pc = "init", !.queued = row.queued])
        BY <3>1, <1>4 DEF ExecuteById
      <4> HIDE DEF k
      <4>3. [k EXCEPT !.pc = "init", !.queued = row.queued] = j
        BY <4>1, UpdForms, ZenonT(60)
      <4>4. j \in CallRecords /\ ControlOK(c, j)
        <5>1. k.step = 1 /\ k.owned = FALSE
          BY <4>1, CallFields DEF ControlOK, Running
        <5>2. j \in CallRecords
          BY <4>1, CallFields, UpdType DEF Pcs
        <5>3. /\ j.pc = "init" /\ j.kind = k.kind /\ j.owned = k.owned
              /\ j.step = k.step /\ j.exec = k.exec
          BY <4>1, UpdFields
        <5> HIDE DEF j
        <5> QED
          BY <4>1, <5>1, <5>2, <5>3 DEF ControlOK, Live, Forced, Running
      <4> QED
        BY <4>2, <4>3, <4>4, <1>a, <2>1, SetControl
    <3>2. CASE ~InputsOk
      BY <3>2, <1>4, <1>a, <1>b, <2>1, EndedControl, SetControl DEF ExecuteById
    <3> QED
      BY <3>1, <3>2
  <2> QED
    BY <1>4, <1>a, <2>3, <2>4 DEF ExecuteById, TypeInv, TypeOK, PresenceInv
<1>5. ASSUME NEW c \in Calls, InitWorkflow(c)
      PROVE  TypeInv'
  <2> DEFINE r == Upserted(row, c, call[c])
  <2>1. call[c].pc = "init" /\ up' = up
    BY <1>5 DEF InitWorkflow, At
  <2>2. row.status = "ABSENT" => c \in Clients
    BY <1>a, <1>b, <2>1 DEF PresenceInv, ControlOK, Calls
  <2>3. r \in RowRecords /\ r.status # "ABSENT"
    BY <1>a, <1>b, <2>2, UpsertedType, SMTT(60) DEF TypeOK
  <2>4. row' \in RowRecords /\ row'.status # "ABSENT"
    <3>1. row' = DeadLettered(r, c)
      BY <1>5 DEF InitWorkflow
    <3> HIDE DEF r
    <3> QED
      BY <3>1, <2>3, RowTypes DEF DeadLettered, RowRecords
  <2>5. call' \in [Calls -> CallRecords] /\ ControlInv'
    <3>1. CASE LoseAck
      BY <3>1, <1>a, <2>1 DEF LoseAck, TypeOK, ControlInv, ControlOK
    <3>2. CASE Set(c, AfterInit(r, c))
      <4> HIDE DEF r
      <4>1. \/ AfterInit(r, c) = Ended(call[c], "done")
            \/ AfterInit(r, c) = [call[c] EXCEPT !.pc = "await"]
            \/ AfterInit(r, c) = [call[c] EXCEPT !.ran = TRUE, !.pc = "check"]
               /\ call[c].kind = "call"
            \/ AfterInit(r, c) = [call[c] EXCEPT !.ran = TRUE, !.pc = "acquire"]
        BY DEF AfterInit
      <4>2. AfterInit(r, c) \in CallRecords /\ ControlOK(c, AfterInit(r, c))
        <5>1. CASE AfterInit(r, c) = Ended(call[c], "done")
          BY <5>1, <1>b, <2>1, EndedControl
        <5>2. ASSUME NEW pc \in {"await", "check", "acquire"}, NEW b \in BOOLEAN,
                     AfterInit(r, c) = [call[c] EXCEPT !.ran = b, !.pc = pc]
              PROVE  AfterInit(r, c) \in CallRecords /\ ControlOK(c, AfterInit(r, c))
          <6> DEFINE k == call[c]
                     j == Upd(k, pc, k.queued, b, k.owned, k.new, k.result)
          <6>1. k \in CallRecords /\ ControlOK(c, k) /\ k.pc = "init" /\ Live(k)
            BY <1>b, <2>1 DEF Live
          <6> HIDE DEF k
          <6>2. [k EXCEPT !.ran = b, !.pc = pc] = j
            BY <6>1, UpdForms, ZenonT(60)
          <6>3. j \in CallRecords /\ ControlOK(c, j)
            <7>1. k.step = 1 /\ k.owned = FALSE /\ 1 \in Steps
              BY <6>1, CallFields DEF ControlOK, Running, Steps
            <7>a. pc \in Pcs
              BY DEF Pcs
            <7>2. j \in CallRecords
              BY <6>1, <7>a, CallFields, UpdType
            <7>3. /\ j.pc = pc /\ j.kind = k.kind /\ j.owned = k.owned
                  /\ j.step = k.step /\ j.exec = k.exec
              BY <6>1, UpdFields
            <7> HIDE DEF j
            <7> QED
              BY <6>1, <7>1, <7>2, <7>3 DEF ControlOK, Live, Forced, Running
          <6> QED
            BY <5>2, <6>2, <6>3 DEF k
        <5>3. [call[c] EXCEPT !.pc = "await"]
                = [call[c] EXCEPT !.ran = call[c].ran, !.pc = "await"]
              /\ call[c].ran \in BOOLEAN
          BY <1>b DEF CallRecords
        <5> QED
          BY <4>1, <5>1, <5>2, <5>3
      <4> QED
        BY <3>2, <4>2, <1>a, <2>1, SetControl
    <3> QED
      BY <3>1, <3>2, <1>5 DEF InitWorkflow
  <2>6. lost' \in 0..MaxLost
    BY <1>5, <1>a DEF InitWorkflow, LoseAck, TypeOK
  <2> QED
    BY <1>5, <1>a, <2>4, <2>5, <2>6 DEF InitWorkflow, TypeInv, TypeOK, PresenceInv
<1>6. ASSUME NEW c \in Calls, Acquire(c)
      PROVE  TypeInv'
  <2> DEFINE k == call[c]
             i == Upd(k, "await", k.queued, k.ran, k.owned, k.new, k.result)
             j == Upd(k, "check", k.queued, k.ran, TRUE, k.new, k.result)
  <2>1. k \in CallRecords /\ ControlOK(c, k) /\ k.pc = "acquire"
    BY <1>6, <1>b DEF Acquire, At
  <2>2. \/ Set(c, [k EXCEPT !.pc = "await"]) /\ active' = active
        \/ /\ Set(c, [k EXCEPT !.pc = "check", !.owned = TRUE])
           /\ active' = active \cup {k.exec}
    BY <1>6 DEF Acquire
  <2>3. row.status # "ABSENT"
    BY <1>a, <2>1 DEF PresenceInv
  <2> HIDE DEF k
  <2>4. /\ [k EXCEPT !.pc = "await"] = i
        /\ [k EXCEPT !.pc = "check", !.owned = TRUE] = j
    BY <2>1, UpdForms, ZenonT(60)
  <2>5. i \in CallRecords /\ j \in CallRecords
    <3>1. i \in CallRecords
      BY <2>1, CallFields, UpdType DEF Pcs
    <3>2. j \in CallRecords
      BY <2>1, CallFields, UpdType, ZenonT(60) DEF Pcs
    <3> QED
      BY <3>1, <3>2
  <2>a. /\ i.pc = "await" /\ i.kind = k.kind /\ i.owned = k.owned
        /\ i.step = k.step /\ i.exec = k.exec
    BY <2>1, UpdFields
  <2>6. /\ j.pc = "check" /\ j.kind = k.kind /\ j.step = k.step
        /\ j.exec = k.exec
    BY <2>1 DEF Upd, CallRecords
  <2>7. k.exec \in up /\ k.step = 1 /\ 1 \in Steps
    BY <2>1, CallFields DEF ControlOK, Live, Running, Steps
  <2> HIDE DEF i, j
  <2>8. ControlOK(c, i) /\ ControlOK(c, j)
    BY <2>1, <2>a, <2>6, <2>7 DEF ControlOK, Live, Forced, Running
  <2>9. call' \in [Calls -> CallRecords] /\ ControlInv'
    BY <1>6, <1>a, <2>2, <2>4, <2>5, <2>8, SetControl DEF Acquire
  <2>10. active' \in SUBSET Executors
    BY <1>a, <2>2, <2>7 DEF TypeOK
  <2> QED
    BY <1>6, <1>a, <2>3, <2>9, <2>10 DEF Acquire, TypeInv, TypeOK, PresenceInv
<1>7. ASSUME NEW c \in Calls, Release(c)
      PROVE  TypeInv'
  <2>1. call' \in [Calls -> CallRecords] /\ ControlInv'
    BY <1>7, <1>a, <1>b, EndedControl, SetControl DEF Release, At
  <2>2. row.status # "ABSENT"
    BY <1>7, <1>a DEF PresenceInv, Release, At
  <2> QED
    BY <1>7, <1>a, <2>1, <2>2 DEF Release, TypeInv, TypeOK, PresenceInv
<1>8. ASSUME NEW c \in Calls, CheckStep(c)
      PROVE  TypeInv'
  <2> DEFINE k == call[c]
             j == Upd(k, "body", k.queued, k.ran, k.owned, k.new, k.result)
  <2>1. k \in CallRecords /\ ControlOK(c, k) /\ k.pc = "check"
    BY <1>8, <1>b DEF CheckStep, At
  <2>2. \/ Set(c, Left(k))
        \/ Set(c, Advanced(k, ops[k.step]))
        \/ Set(c, [k EXCEPT !.pc = "body"])
    BY <1>8 DEF CheckStep
  <2>3. row.status # "ABSENT"
    BY <1>a, <2>1 DEF PresenceInv
  <2> HIDE DEF k
  <2>4. k.step \in Steps /\ Live(k)
    BY <2>1, SMTT(60) DEF ControlOK, Live
  <2>5. [k EXCEPT !.pc = "body"] = j
    BY <2>1, UpdForms
  <2>6. j \in CallRecords
    BY <2>1, CallFields, UpdType DEF Pcs
  <2>7. /\ j.pc = "body" /\ j.kind = k.kind /\ j.owned = k.owned
        /\ j.step = k.step /\ j.exec = k.exec
    BY <2>1, UpdFields
  <2> HIDE DEF j
  <2>8. ControlOK(c, j)
    BY <2>1, <2>4, <2>7 DEF ControlOK, Live, Forced, Running
  <2>9. Advanced(k, ops[k.step]) \in CallRecords /\ ControlOK(c, Advanced(k, ops[k.step]))
    <3>1. ops[k.step] \in Entry
      BY <1>a, <2>4 DEF TypeOK
    <3> QED
      BY <2>1, <3>1, AdvancedControl
  <2>10. Left(k) \in CallRecords /\ ControlOK(c, Left(k))
    BY <2>1, <2>4, LeftControl
  <2>11. call' \in [Calls -> CallRecords] /\ ControlInv'
    BY <1>8, <1>a, <2>2, <2>5, <2>6, <2>8, <2>9, <2>10, SetControl DEF CheckStep
  <2> QED
    BY <1>8, <1>a, <2>3, <2>11 DEF CheckStep, TypeInv, TypeOK, PresenceInv
<1>9. ASSUME NEW c \in Calls, NEW v \in Vals, NEW s \in StampsOf[c], RunBody(c, v, s)
      PROVE  TypeInv'
  <2> DEFINE k == call[c]
             n == [val |-> v, at |-> s]
             j == Upd(k, "record", k.queued, k.ran, k.owned, n, k.result)
  <2>1. k \in CallRecords /\ ControlOK(c, k) /\ k.pc = "body"
    BY <1>9, <1>b DEF RunBody, At
  <2>2. Set(c, [k EXCEPT !.pc = "record", !.new = n])
    BY <1>9 DEF RunBody
  <2>3. row.status # "ABSENT"
    BY <1>a, <2>1 DEF PresenceInv
  <2>4. n \in Entry /\ n.val = v /\ n.at = s
    BY SMTT(60) DEF Entry, Stamps
  <2> HIDE DEF k, n
  <2>5. [k EXCEPT !.pc = "record", !.new = n] = j
    BY <2>1, UpdForms, ZenonT(60)
  <2>6. j \in CallRecords
    BY <2>1, <2>4, CallFields, UpdType DEF Pcs
  <2>a. Updated(k, j, "record", k.owned, n, k.result)
    BY <2>1, UpdKeeps
  <2> HIDE DEF j
  <2>7. /\ j.pc = "record" /\ j.kind = k.kind /\ j.owned = k.owned
        /\ j.step = k.step /\ j.exec = k.exec /\ j.new = n
    BY <2>a DEF Updated
  <2>8. ControlOK(c, j)
    BY <2>1, <2>4, <2>7 DEF ControlOK, Live, Forced, Running
  <2>9. call' \in [Calls -> CallRecords] /\ ControlInv'
    BY <1>9, <1>a, <2>2, <2>5, <2>6, <2>8, SetControl DEF RunBody
  <2> QED
    BY <1>9, <1>a, <2>3, <2>9 DEF RunBody, TypeInv, TypeOK, PresenceInv
<1>10. ASSUME NEW c \in Calls, RecordStep(c)
       PROVE  TypeInv'
  <2> DEFINE k == call[c]
             j == Upd(k, "await", k.queued, k.ran, k.owned, Blank, k.result)
  <2>1. k \in CallRecords /\ ControlOK(c, k) /\ k.pc = "record"
    BY <1>10, <1>b DEF RecordStep, At
  <2>2. \/ Set(c, [k EXCEPT !.pc = "await", !.new = Blank]) /\ lost' = lost
        \/ Set(c, Advanced(k, k.new)) /\ lost' = lost
        \/ LoseAck
    BY <1>10 DEF RecordStep
  <2>3. /\ row' = row \/ row' = [row EXCEPT !.exec = k.exec]
        /\ ops' = ops \/ ops' = [ops EXCEPT ![k.step] = k.new]
                      \/ ops' = [ops EXCEPT ![k.step] = @]
    BY <1>10 DEF RecordStep
  <2>4. row.status # "ABSENT"
    BY <1>a, <2>1 DEF PresenceInv
  <2> HIDE DEF k
  <2>5. k.step \in Steps /\ k.exec \in Executors \cup {None} /\ k.new \in Entry
    BY <2>1, CallFields DEF ControlOK
  <2>6. /\ row' \in RowRecords /\ row'.status # "ABSENT"
    BY <1>a, <2>3, <2>4, <2>5 DEF TypeOK, RowRecords
  <2>7. ops' \in [Steps -> Entry]
    BY <1>a, <2>3, <2>5, SMTT(60) DEF TypeOK
  <2>8. [k EXCEPT !.pc = "await", !.new = Blank] = j
    BY <2>1, UpdForms, ZenonT(60)
  <2>9. j \in CallRecords
    <3>1. Blank \in Entry
      BY DEF Blank, Entry
    <3> QED
      BY <2>1, <3>1, CallFields, UpdType DEF Pcs
  <2>10. /\ j.pc = "await" /\ j.kind = k.kind /\ j.owned = k.owned
         /\ j.step = k.step /\ j.exec = k.exec
    BY <2>1, UpdFields
  <2> HIDE DEF j
  <2>11. ControlOK(c, j)
    BY <2>1, <2>10 DEF ControlOK, Live, Forced, Running
  <2>12. Advanced(k, k.new) \in CallRecords /\ ControlOK(c, Advanced(k, k.new))
    BY <2>1, <2>5, AdvancedControl
  <2>13. call' \in [Calls -> CallRecords] /\ ControlInv'
    <3>1. CASE LoseAck
      BY <3>1, <1>10, <1>a DEF LoseAck, RecordStep, TypeOK, ControlInv, ControlOK
    <3> QED
      BY <3>1, <1>10, <1>a, <2>2, <2>8, <2>9, <2>11, <2>12, SetControl DEF RecordStep
  <2>14. lost' \in 0..MaxLost
    BY <1>a, <2>2 DEF LoseAck, TypeOK
  <2> QED
    BY <1>10, <1>a, <2>6, <2>7, <2>13, <2>14
       DEF RecordStep, TypeInv, TypeOK, PresenceInv
<1>11. ASSUME NEW c \in Calls, NEW pc \in {"outcome", "error", "caught"},
              NEW st \in Complete, NEW out \in Outputs,
              st = "SUCCESS" => pc = "outcome",
              WriteOutcome(c, pc, st, out)
       PROVE  TypeInv'
  <2> DEFINE k == call[c]
             i == Upd(k, "caught", k.queued, k.ran, k.owned, k.new, k.result)
             j == Upd(k, k.pc, k.queued, k.ran, k.owned, k.new, out)
  <2>1. k \in CallRecords /\ ControlOK(c, k) /\ k.pc = pc /\ Live(k)
    BY <1>11, <1>b DEF WriteOutcome, At, Live
  <2>2. \/ st = "SUCCESS" /\ Set(c, [k EXCEPT !.pc = "caught"]) /\ lost' = lost
        \/ Set(c, Left(k)) /\ lost' = lost
        \/ Set(c, Left([k EXCEPT !.result = out])) /\ lost' = lost
        \/ LoseAck
    BY <1>11 DEF WriteOutcome
  <2>3. row.status # "ABSENT"
    BY <1>a, <2>1 DEF PresenceInv
  <2>4. row' = row \/ row' = Finalized(row, st, out)
    BY <1>11 DEF WriteOutcome
  <2>5. row' \in RowRecords /\ row'.status # "ABSENT"
    <3>1. row' \in RowRecords
      <4>1. st \in Statuses /\ row \in RowRecords
        BY <1>a DEF Statuses, Complete, TypeOK
      <4> QED
        BY <2>4, <4>1, RowTypes
    <3>2. row \in RowRecords /\ st # "ABSENT"
      BY <1>a DEF TypeOK, Complete
    <3>3. Finalized(row, st, out).status # "ABSENT"
      BY <2>3, <3>2 DEF Finalized, RowRecords
    <3> QED
      BY <2>3, <2>4, <3>1, <3>3
  <2> HIDE DEF k
  <2>6. [k EXCEPT !.pc = "caught"] = i /\ [k EXCEPT !.result = out] = j
    BY <2>1, UpdForms, ZenonT(60)
  <2>7. i \in CallRecords
    <3>1. "caught" \in Pcs
      BY DEF Pcs
    <3> QED
      BY <2>1, <3>1, CallFields, UpdType, ZenonT(60)
  <2>8. j \in CallRecords
    BY <2>1, CallFields, UpdType
  <2>a. Updated(k, i, "caught", k.owned, k.new, k.result)
    BY <2>1, UpdKeeps
  <2>b. Updated(k, j, k.pc, k.owned, k.new, out)
    BY <2>1, UpdKeeps
  <2> HIDE DEF i, j
  <2>9. /\ i.pc = "caught" /\ i.kind = k.kind /\ i.owned = k.owned
        /\ i.step = k.step /\ i.exec = k.exec
    BY <2>a DEF Updated
  <2>10. /\ j.pc = k.pc /\ j.kind = k.kind /\ j.owned = k.owned
         /\ j.step = k.step /\ j.exec = k.exec /\ j.new = k.new
    BY <2>b DEF Updated
  <2>11. st = "SUCCESS" => ControlOK(c, i)
    BY <1>11, <2>1, <2>9 DEF ControlOK, Live, Forced, Running
  <2>12. ControlOK(c, j) /\ Live(j)
    BY <2>1, <2>10 DEF ControlOK, Live, Forced, Running
  <2>13. /\ Left(k) \in CallRecords /\ ControlOK(c, Left(k))
         /\ Left(j) \in CallRecords /\ ControlOK(c, Left(j))
    BY <2>1, <2>8, <2>12, LeftControl
  <2>14. call' \in [Calls -> CallRecords] /\ ControlInv'
    <3>1. CASE LoseAck
      BY <3>1, <1>11, <1>a DEF LoseAck, WriteOutcome, TypeOK, ControlInv, ControlOK
    <3> QED
      BY <3>1, <1>11, <1>a, <2>2, <2>6, <2>7, <2>11, <2>13, SetControl
         DEF WriteOutcome
  <2>15. lost' \in 0..MaxLost
    BY <1>a, <2>2 DEF LoseAck, TypeOK
  <2> QED
    BY <1>11, <1>a, <2>5, <2>14, <2>15 DEF WriteOutcome, TypeInv, TypeOK, PresenceInv
<1>12. ASSUME NEW c \in Calls, AwaitResult(c)
       PROVE  TypeInv'
  <2> DEFINE k == call[c]
             j == Upd(k, k.pc, k.queued, k.ran, k.owned, k.new, row.output)
  <2>1. k \in CallRecords /\ ControlOK(c, k) /\ k.pc = "await" /\ Live(k)
    BY <1>12, <1>b DEF AwaitResult, At, Live
  <2>2. Set(c, Left(k)) \/ Set(c, Left([k EXCEPT !.result = row.output]))
    BY <1>12 DEF AwaitResult
  <2>3. row.status # "ABSENT" /\ row.output \in Outputs
    BY <1>12, <1>a, SMTT(60) DEF AwaitResult, TypeOK, RowRecords
  <2> HIDE DEF k
  <2>4. [k EXCEPT !.result = row.output] = j
    BY <2>1, UpdForms, ZenonT(60)
  <2>5. j \in CallRecords
    BY <2>1, <2>3, CallFields, UpdType
  <2>a. Updated(k, j, k.pc, k.owned, k.new, row.output)
    BY <2>1, UpdKeeps
  <2> HIDE DEF j
  <2>6. /\ j.pc = k.pc /\ j.kind = k.kind /\ j.owned = k.owned
        /\ j.step = k.step /\ j.exec = k.exec /\ j.new = k.new
    BY <2>a DEF Updated
  <2>7. ControlOK(c, j) /\ Live(j)
    BY <2>1, <2>6 DEF ControlOK, Live, Forced, Running
  <2>8. /\ Left(k) \in CallRecords /\ ControlOK(c, Left(k))
        /\ Left(j) \in CallRecords /\ ControlOK(c, Left(j))
    BY <2>1, <2>5, <2>7, LeftControl
  <2>9. call' \in [Calls -> CallRecords] /\ ControlInv'
    BY <1>12, <1>a, <2>2, <2>4, <2>8, SetControl DEF AwaitResult
  <2> QED
    BY <1>12, <1>a, <2>3, <2>9 DEF AwaitResult, TypeInv, TypeOK, PresenceInv
<1>13. ASSUME NEW c \in Dispatches, NEW e \in Executors, Dequeue(c, e)
       PROVE  TypeInv'
  <2> DEFINE k == [NoCall EXCEPT !.pc = "dispatched", !.kind = "dequeue", !.exec = e]
  <2>1. c \in Calls
    BY DEF Calls
  <2>2. /\ k \in CallRecords /\ k.pc = "dispatched" /\ k.kind = "dequeue"
        /\ k.exec = e /\ k.owned = FALSE /\ k.step = 1
    BY NoCallType DEF NoCall, CallRecords, Pcs, Kinds
  <2>3. Set(c, k) /\ up' = up /\ e \in up
    BY <1>13 DEF Dequeue
  <2> HIDE DEF k
  <2>4. ControlOK(c, k)
    BY <2>2, <2>3 DEF ControlOK, Live, Forced, Running
  <2>5. call' \in [Calls -> CallRecords] /\ ControlInv'
    BY <1>a, <2>1, <2>2, <2>3, <2>4, SetControl
  <2>6. row' \in RowRecords /\ row'.status # "ABSENT"
    BY <1>13, <1>a DEF Dequeue, TypeOK, RowRecords, Statuses
  <2> QED
    BY <1>13, <1>a, <2>5, <2>6 DEF Dequeue, TypeInv, TypeOK, PresenceInv
<1>14. ASSUME NEW e \in Executors, DequeueUnacknowledged(e)
       PROVE  TypeInv'
  <2>1. row' \in RowRecords /\ row'.status # "ABSENT"
    BY <1>14, <1>a DEF DequeueUnacknowledged, TypeOK, RowRecords, Statuses
  <2>2. lost' \in 0..MaxLost
    BY <1>14, <1>a DEF DequeueUnacknowledged, LoseAck, TypeOK
  <2>3. ControlInv'
    BY <1>14, <1>a DEF DequeueUnacknowledged, LoseAck, ControlInv, ControlOK
  <2> QED
    BY <1>14, <1>a, <2>1, <2>2, <2>3
       DEF DequeueUnacknowledged, LoseAck, TypeInv, TypeOK, PresenceInv
<1>c. ASSUME NEW c \in Dispatches, NEW e \in Executors, Snapshot(c, e),
             row' = row, row.status # "ABSENT", e \in up', up' = up \cup {e},
             UNCHANGED <<ops, active, crashes, lost, resumes>>
      PROVE  TypeInv'
  <2> DEFINE k == [NoCall EXCEPT !.pc = "snapshot", !.kind = "recover",
                                 !.exec = e, !.queued = row.queued]
  <2>1. c \in Calls
    BY DEF Calls
  <2>2. /\ k \in CallRecords /\ k.pc = "snapshot" /\ k.kind = "recover"
        /\ k.exec = e /\ k.owned = FALSE /\ k.step = 1
    <3>1. row.queued \in BOOLEAN
      BY <1>a DEF TypeOK, RowRecords
    <3> QED
      BY <3>1, NoCallType DEF NoCall, CallRecords, Pcs, Kinds
  <2>3. Set(c, k) /\ call'[c] = k
    BY <1>a, <1>c, <2>1 DEF Snapshot, Set, TypeOK
  <2> HIDE DEF k
  <2>4. ControlOK(c, call[c])'
    BY <1>c, <2>2, <2>3 DEF ControlOK, Live, Forced, Running
  <2>5. call' \in [Calls -> CallRecords]
    BY <1>a, <2>2, <2>3, ZenonT(60) DEF TypeOK, Set
  <2>6. ControlInv'
    <3>1. up \subseteq up' /\ \A d \in Calls : d # c => call'[d] = call[d]
      BY <1>a, <1>c, <2>3 DEF Set, TypeOK
    <3> QED
      BY <1>a, <2>4, <3>1, ControlKept DEF ControlInv
  <2> QED
    BY <1>c, <1>a, <2>5, <2>6 DEF TypeInv, TypeOK, PresenceInv
<1>15. ASSUME NEW c \in Dispatches, NEW e \in Executors, NEW x \in Executors,
              RecoverPending(c, e, x)
       PROVE  TypeInv'
  BY <1>15, <1>c DEF RecoverPending, ListedAsPending
<1>16. ASSUME NEW e \in Executors, Restart(e)
       PROVE  TypeInv'
  <2>1. CASE ListedAsPending(e)
    BY <2>1, <1>16, <1>c, SMTT(60) DEF Restart, ListedAsPending
  <2>2. CASE ~ListedAsPending(e)
    <3>1. UNCHANGED <<row, ops, call, active, crashes, lost, resumes>> /\ up' = up \cup {e}
      BY <2>2, <1>16 DEF Restart
    <3>2. ControlInv'
      BY <1>a, <3>1, ControlKept DEF ControlInv
    <3> QED
      BY <1>a, <3>1, <3>2 DEF TypeInv, TypeOK, PresenceInv
  <2> QED
    BY <2>1, <2>2
<1>17. ASSUME Cancel
       PROVE  TypeInv'
  <2>1. row' \in RowRecords
    BY <1>17, <1>a, RowTypes DEF Cancel, TypeOK
  <2>2. PresenceInv'
    BY <1>17, <1>a, SMTT(60) DEF Cancel, Cancelled, PresenceInv, TypeOK, RowRecords
  <2> QED
    <3>1. UNCHANGED <<ops, call, up, active, crashes, lost>>
      BY <1>17 DEF Cancel
    <3>2. ControlInv'
      BY <1>a, <3>1, ControlKept DEF ControlInv
    <3> QED
      BY <1>17, <1>a, <2>1, <2>2, <3>1, <3>2 DEF Cancel, TypeInv, TypeOK
<1>18. ASSUME Resume
       PROVE  TypeInv'
  <2>1. row' \in RowRecords
    BY <1>18, <1>a, RowTypes DEF Resume, TypeOK
  <2>2. PresenceInv'
    BY <1>18, <1>a, SMTT(60) DEF Resume, Resumed, PresenceInv, TypeOK, RowRecords
  <2> QED
    <3>1. UNCHANGED <<ops, call, up, active, crashes, lost>>
      BY <1>18 DEF Resume
    <3>2. ControlInv'
      BY <1>a, <3>1, ControlKept DEF ControlInv
    <3> QED
      BY <1>18, <1>a, <2>1, <2>2, <3>1, <3>2 DEF Resume, TypeInv, TypeOK
<1>19. ASSUME NEW e \in Executors, Crash(e)
       PROVE  TypeInv'
  <2>1. \A c \in Calls : call'[c] = IF call[c].exec = e /\ Live(call[c])
                                      THEN Ended(call[c], "dead") ELSE call[c]
    BY <1>19 DEF Crash
  <2>2. ASSUME NEW c \in Calls
        PROVE  call'[c] \in CallRecords /\ ControlOK(c, call[c])'
    <3>1. CASE call[c].exec = e /\ Live(call[c])
      <4>1. Ended(call[c], "dead") \in CallRecords
        BY <1>b, EndedType DEF Pcs
      <4>2. ControlOK(c, Ended(call[c], "dead"))
        BY <3>1, <1>b, EndedControl DEF Live
      <4>3. Ended(call[c], "dead").pc = "dead"
        BY SMTT(60) DEF Ended, NoCall
      <4> QED
        BY <2>1, <3>1, <4>1, <4>2, <4>3 DEF ControlOK, Live
    <3>2. CASE ~(call[c].exec = e /\ Live(call[c]))
      <4>1. call'[c] = call[c]
        BY <2>1, <3>2
      <4>2. Live(call[c]) => call[c].exec \in up'
        BY <1>19, <1>b, <3>2 DEF Crash, ControlOK
      <4> QED
        BY <1>b, <4>1, <4>2 DEF ControlOK
    <3> QED
      BY <3>1, <3>2, SMTT(60)
  <2>3. call' \in [Calls -> CallRecords]
    BY <1>19, <2>2 DEF Crash
  <2>4. PresenceInv'
    <3>1. ASSUME row.status = "ABSENT", NEW c \in Calls
          PROVE  call'[c].pc \in {"idle", "init", "dead"} /\ ~Forced(call'[c])
      <4>1. /\ Ended(call[c], "dead").pc = "dead"
            /\ Ended(call[c], "dead").kind = call[c].kind
        BY DEF Ended, NoCall
      <4> QED
        BY <1>a, <2>1, <3>1, <4>1 DEF PresenceInv, Forced
    <3> QED
      BY <1>19, <1>a, <3>1 DEF Crash, PresenceInv
  <2> QED
    BY <1>19, <1>a, <2>2, <2>3, <2>4, SMTT(60) DEF Crash, TypeInv, TypeOK, ControlInv
<1>20. ASSUME NEW c \in Calls, WriteSuccess(c) \/ WriteError(c) \/ WriteCaught(c)
       PROVE  TypeInv'
  <2>1. Output(call[c].seen) \in Outputs
    BY <1>b, OutputType, CallFields
  <2>2. [s \in Steps |-> CancelErr] \in Outputs
    BY DEF Outputs
  <2>3. "SUCCESS" \in Complete /\ "ERROR" \in Complete
    BY DEF Complete
  <2> QED
    BY <1>20, <1>11, <2>1, <2>2, <2>3 DEF WriteSuccess, WriteError, WriteCaught
<1> QED
  BY <1>1, <1>2, <1>3, <1>4, <1>5, <1>6, <1>7, <1>8, <1>9, <1>10, <1>12, <1>13,
     <1>14, <1>15, <1>16, <1>17, <1>18, <1>19, <1>20 DEF Next, Run

\* Every reachable state is well typed, for any number of executors,
\* invocations, steps, crashes, lost acknowledgements and resumes.
THEOREM TypeCorrect == Spec => []TypeOK
<1>1. TypeInv => TypeOK
  BY SMTT(60) DEF TypeInv
<1> QED
  BY <1>1, InitType, StepType, PTL DEF Spec
-----------------------------------------------------------------------------
(* What a step may do to the records, to one invocation and to the row: all *)
(* the remaining invariants need to know of the actions.                    *)

Blanks == [s \in Steps |-> Blank]

Reset(k, j) == /\ j.step = 1 /\ j.seen = Blanks /\ j.pc \notin Running
               /\ j.pc \in Ahead => k.pc = "idle"

Moved(k, j) ==
    /\ j.step = k.step /\ j.seen = k.seen
    /\ j.pc \in Running =>
         j.pc # "error" /\ (k.step = 1 \/ k.pc \in Running \ {"error"})
    /\ j.pc \in Ahead \cup {"record"} => k.pc \in Ahead

Advance(k, j, n) ==
    /\ j.seen = [k.seen EXCEPT ![k.step] = n] /\ j.step = k.step + 1
    /\ j.pc = IF n.val \in FailVals THEN "error"
              ELSE IF k.step = NumSteps THEN "outcome" ELSE "check"

Recorded(k) ==
    /\ ops[k.step] = Blank \/ ops[k.step].at = k.new.at
    /\ ops' = [ops EXCEPT ![k.step] = IF @ = Blank THEN k.new ELSE @]

OpsEffect ==
    \/ ops' = ops
    \/ \E c \in Calls : /\ call[c].pc = "record" /\ Recorded(call[c])
                        /\ \/ call'[c] = call[c]
                           \/ Advance(call[c], call'[c], call[c].new)
                        /\ \A d \in Calls \ {c} : call'[d] = call[d]

ControlEffect(k, j) ==
    \/ j = k \/ Reset(k, j) \/ Moved(k, j)
    \/ /\ k.pc = "check" /\ ops[k.step] # Blank /\ ops' = ops
       /\ Advance(k, j, ops[k.step])
    \/ k.pc = "record" /\ Recorded(k) /\ Advance(k, j, k.new)

ResultEffect(k, j) ==
    /\ \/ j.result \in {k.result, NoOutput}
       \/ row'.status \in Complete /\ j.result = row'.output
    /\ j.pc = "caught" => k.pc = "caught" \/ row'.status = "CANCELLED"

CallEffect(k, j) == ControlEffect(k, j) /\ ResultEffect(k, j)

LEMMA SetEffect ==
  ASSUME TypeOK, NEW c \in Calls, NEW k, Set(c, k), CallEffect(call[c], k),
         NEW d \in Calls
  PROVE  CallEffect(call[d], call'[d])
  BY SMTT(60) DEF TypeOK, Set, CallEffect, ControlEffect, ResultEffect

LEMMA SameEffect ==
  ASSUME call' = call, NEW d \in Calls
  PROVE  CallEffect(call[d], call'[d])
  BY DEF CallEffect, ControlEffect, ResultEffect

LEMMA EndedEffect ==
  ASSUME NEW k \in CallRecords, NEW pc \in {"done", "dead"}
  PROVE  CallEffect(k, Ended(k, pc))
  BY DEF CallEffect, ControlEffect, ResultEffect, Reset, Ended, NoCall, Blanks,
     Running, Ahead

LEMMA LeftEffect ==
  ASSUME NEW k \in CallRecords, NEW i \in CallRecords, ResultEffect(i, k),
         k.step = i.step, k.seen = i.seen
  PROVE  CallEffect(i, Left(k))
<1>1. CASE k.owned
  <2>1. /\ Left(k).step = k.step /\ Left(k).seen = k.seen
        /\ Left(k).pc = "release" /\ Left(k).result = k.result
    BY <1>1, SMTT(60) DEF Left, CallRecords
  <2> QED
    BY <2>1 DEF CallEffect, ControlEffect, ResultEffect, Moved, Running, Ahead
<1>2. CASE ~k.owned
  <2>1. /\ Left(k).step = 1 /\ Left(k).seen = Blanks
        /\ Left(k).pc = "done" /\ Left(k).result = k.result
    BY <1>2 DEF Left, Ended, NoCall, Blanks
  <2> QED
    BY <2>1 DEF CallEffect, ControlEffect, ResultEffect, Reset, Running, Ahead
<1> QED
  BY <1>1, <1>2
LEMMA UpdEffect ==
  ASSUME NEW k \in CallRecords, NEW p, NEW q, NEW b, NEW o, NEW n,
         p \in Running => p # "error" /\ (k.step = 1 \/ k.pc \in Running \ {"error"}),
         p \in Ahead \cup {"record"} => k.pc \in Ahead,
         p = "caught" => row'.status = "CANCELLED"
  PROVE  CallEffect(k, Upd(k, p, q, b, o, n, k.result))
<1> DEFINE j == Upd(k, p, q, b, o, n, k.result)
<1>a. Updated(k, j, p, o, n, k.result)
  BY UpdKeeps
<1> HIDE DEF j
<1>1. j.pc = p /\ j.step = k.step /\ j.seen = k.seen /\ j.result = k.result
  BY <1>a DEF Updated
<1>2. CallEffect(k, j)
  BY <1>1 DEF CallEffect, ControlEffect, ResultEffect, Moved
<1> QED
  BY <1>2, SMTT(60) DEF j

LEMMA AdvancedEffect ==
  ASSUME NEW k \in CallRecords, NEW n,
         \/ k.pc = "check" /\ ops[k.step] # Blank /\ ops' = ops /\ n = ops[k.step]
         \/ k.pc = "record" /\ Recorded(k) /\ n = k.new
  PROVE  CallEffect(k, Advanced(k, n)) /\ Advance(k, Advanced(k, n), n)
<1> DEFINE j == Advanced(k, n)
<1>1. Advance(k, j, n) /\ j.result = k.result /\ j.pc # "caught"
  BY AdvancedFields, SMTT(60) DEF Advance
<1> HIDE DEF j
<1>2. CallEffect(k, j)
  BY <1>1, SMTT(60) DEF CallEffect, ControlEffect, ResultEffect
<1> QED
  BY <1>1, <1>2 DEF j

LEMMA StepEffect ==
  TypeInv /\ [Next]_vars =>
    OpsEffect /\ \A d \in Calls : CallEffect(call[d], call'[d])
<1> SUFFICES ASSUME TypeInv, [Next]_vars
             PROVE  OpsEffect /\ \A d \in Calls : CallEffect(call[d], call'[d])
  OBVIOUS
<1> DEFINE Goal == OpsEffect /\ \A d \in Calls : CallEffect(call[d], call'[d])
<1>a. TypeOK /\ ControlInv /\ PresenceInv
  BY DEF TypeInv
<1>b. \A c \in Calls : call[c] \in CallRecords /\ ControlOK(c, call[c])
  BY <1>a DEF TypeOK, ControlInv
<1>c. ASSUME ops' = ops, call' = call
      PROVE  Goal
  BY <1>c, SameEffect DEF OpsEffect
<1>d. ASSUME ops' = ops, NEW c \in Calls, NEW k, Set(c, k), CallEffect(call[c], k)
      PROVE  Goal
  <2>1. ASSUME NEW d \in Calls
        PROVE  CallEffect(call[d], call'[d])
    BY <1>a, <1>d, SetEffect
  <2> QED
    BY <1>d, <2>1 DEF OpsEffect
<1> HIDE DEF Goal
<1>1. CASE UNCHANGED vars
  <2>1. ops' = ops /\ call' = call
    BY <1>1 DEF vars
  <2> QED
    BY <2>1, <1>c DEF Goal
<1>2. ASSUME NEW c \in Clients, NEW e \in Executors, NEW kind \in Kinds,
             Request(c, e, kind)
      PROVE  Goal
  <2> DEFINE k == [NoCall EXCEPT !.pc = "init", !.kind = kind, !.exec = e]
  <2>1. k.pc = "init" /\ k.step = 1 /\ k.seen = Blanks /\ k.result = NoOutput
    BY DEF NoCall, Blanks
  <2>2. Set(c, k) /\ call[c].pc = "idle" /\ ops' = ops /\ c \in Calls
    BY <1>2, SMTT(60) DEF Request, Unused, Calls
  <2> HIDE DEF k
  <2>3. CallEffect(call[c], k)
    BY <2>1, <2>2 DEF CallEffect, ControlEffect, ResultEffect, Reset, Running, Ahead
  <2> QED
    BY <2>2, <2>3, <1>d
<1>3. ASSUME NEW c \in Dispatches, NEW e \in Executors, Dequeue(c, e)
      PROVE  Goal
  <2> DEFINE k == [NoCall EXCEPT !.pc = "dispatched", !.kind = "dequeue", !.exec = e]
  <2>1. k.pc = "dispatched" /\ k.step = 1 /\ k.seen = Blanks /\ k.result = NoOutput
    BY DEF NoCall, Blanks
  <2>2. Set(c, k) /\ call[c].pc = "idle" /\ ops' = ops /\ c \in Calls
    BY <1>3, SMTT(60) DEF Dequeue, Unused, Calls
  <2> HIDE DEF k
  <2>3. CallEffect(call[c], k)
    BY <2>1, <2>2 DEF CallEffect, ControlEffect, ResultEffect, Reset, Running, Ahead
  <2> QED
    BY <2>2, <2>3, <1>d
<1>e. ASSUME NEW c \in Dispatches, NEW e \in Executors, Unused(c), Snapshot(c, e),
             ops' = ops
      PROVE  Goal
  <2> DEFINE k == [NoCall EXCEPT !.pc = "snapshot", !.kind = "recover",
                                 !.exec = e, !.queued = row.queued]
  <2>1. k.pc = "snapshot" /\ k.step = 1 /\ k.seen = Blanks /\ k.result = NoOutput
    BY DEF NoCall, Blanks
  <2>2. Set(c, k) /\ call[c].pc = "idle" /\ c \in Calls
    BY <1>e DEF Snapshot, Unused, Calls
  <2> HIDE DEF k
  <2>3. CallEffect(call[c], k)
    BY <2>1, <2>2 DEF CallEffect, ControlEffect, ResultEffect, Reset, Running, Ahead
  <2> QED
    BY <1>e, <2>2, <2>3, <1>d
<1>4. ASSUME NEW c \in Dispatches, NEW e \in Executors, NEW x \in Executors,
             RecoverPending(c, e, x)
      PROVE  Goal
  BY <1>4, <1>e DEF RecoverPending
<1>5. ASSUME NEW e \in Executors, Restart(e)
      PROVE  Goal
  <2>1. CASE ListedAsPending(e)
    BY <2>1, <1>5, <1>e DEF Restart
  <2>2. CASE ~ListedAsPending(e)
    BY <2>2, <1>5, <1>c, SMTT(60) DEF Restart
  <2> QED
    BY <2>1, <2>2
<1>6. ASSUME Cancel \/ Resume \/ \E e \in Executors : DequeueUnacknowledged(e)
      PROVE  Goal
  BY <1>6, <1>c DEF Cancel, Resume, DequeueUnacknowledged, LoseAck
<1>7. ASSUME NEW c \in Calls, ReturnToQueue(c) \/ Release(c)
      PROVE  Goal
  <2>1. CallEffect(call[c], Ended(call[c], "done"))
    BY <1>b, EndedEffect
  <2> QED
    BY <1>7, <1>c, <1>d, <2>1 DEF ReturnToQueue, Release, LoseAck
<1>8. ASSUME NEW c \in Calls, ExecuteById(c)
      PROVE  Goal
  <2> DEFINE k == call[c]
             j == Upd(k, "init", row.queued, k.ran, k.owned, k.new, k.result)
  <2>1. k \in CallRecords /\ k.pc \in {"snapshot", "dispatched"}
    BY <1>8, <1>b DEF ExecuteById, At
  <2>2. /\ ops' = ops
        /\ \/ Set(c, [k EXCEPT !.pc = "init", !.queued = row.queued])
           \/ Set(c, Ended(k, "done"))
    BY <1>8 DEF ExecuteById
  <2> HIDE DEF k
  <2>3. [k EXCEPT !.pc = "init", !.queued = row.queued] = j
    BY <2>1 DEF Upd, CallRecords
  <2>4. CallEffect(k, j)
    <3>1. "init" \notin Running /\ k.pc \in Ahead
      BY <2>1 DEF Running, Ahead
    <3> QED
      BY <2>1, <3>1, UpdEffect
  <2>5. CallEffect(k, Ended(k, "done"))
    BY <2>1, EndedEffect
  <2> QED
    BY <2>2, <2>3, <2>4, <2>5, <1>d DEF k
<1>9. ASSUME NEW c \in Calls, InitWorkflow(c)
      PROVE  Goal
  <2> DEFINE k == call[c]
             h == Upd(k, "await", k.queued, k.ran, k.owned, k.new, k.result)
             i == Upd(k, "check", k.queued, TRUE, k.owned, k.new, k.result)
             j == Upd(k, "acquire", k.queued, TRUE, k.owned, k.new, k.result)
  <2>1. k \in CallRecords /\ ControlOK(c, k) /\ k.pc = "init"
    BY <1>9, <1>b DEF InitWorkflow, At
  <2>2. /\ ops' = ops
        /\ \/ call' = call
           \/ Set(c, Ended(k, "done"))
           \/ Set(c, [k EXCEPT !.pc = "await"])
           \/ Set(c, [k EXCEPT !.ran = TRUE, !.pc = "check"])
           \/ Set(c, [k EXCEPT !.ran = TRUE, !.pc = "acquire"])
    <3>1. \A r : \/ AfterInit(r, c) = Ended(k, "done")
                 \/ AfterInit(r, c) = [k EXCEPT !.pc = "await"]
                 \/ AfterInit(r, c) = [k EXCEPT !.ran = TRUE, !.pc = "check"]
                 \/ AfterInit(r, c) = [k EXCEPT !.ran = TRUE, !.pc = "acquire"]
      BY DEF AfterInit
    <3> HIDE DEF k
    <3> QED
      BY <1>9, <3>1 DEF InitWorkflow, LoseAck
  <2> HIDE DEF k
  <2>3. /\ [k EXCEPT !.pc = "await"] = h
        /\ [k EXCEPT !.ran = TRUE, !.pc = "check"] = i
        /\ [k EXCEPT !.ran = TRUE, !.pc = "acquire"] = j
    BY <2>1 DEF Upd, CallRecords
  <2>4. k.step = 1
    BY <2>1 DEF ControlOK, Running
  <2>5. CallEffect(k, h)
    BY <2>1, <2>4, UpdEffect DEF Running, Ahead
  <2>6. CallEffect(k, i)
    BY <2>1, <2>4, UpdEffect DEF Running, Ahead
  <2>7. CallEffect(k, j)
    BY <2>1, <2>4, UpdEffect DEF Running, Ahead
  <2>8. CallEffect(k, Ended(k, "done"))
    BY <2>1, EndedEffect
  <2> QED
    BY <2>2, <2>3, <2>5, <2>6, <2>7, <2>8, <1>c, <1>d, ZenonT(60) DEF k
<1>10. ASSUME NEW c \in Calls, Acquire(c)
       PROVE  Goal
  <2> DEFINE k == call[c]
             i == Upd(k, "await", k.queued, k.ran, k.owned, k.new, k.result)
             j == Upd(k, "check", k.queued, k.ran, TRUE, k.new, k.result)
  <2>1. k \in CallRecords /\ ControlOK(c, k) /\ k.pc = "acquire"
    BY <1>10, <1>b DEF Acquire, At
  <2>2. /\ ops' = ops
        /\ \/ Set(c, [k EXCEPT !.pc = "await"])
           \/ Set(c, [k EXCEPT !.pc = "check", !.owned = TRUE])
    BY <1>10 DEF Acquire
  <2> HIDE DEF k
  <2>3. /\ [k EXCEPT !.pc = "await"] = i
        /\ [k EXCEPT !.pc = "check", !.owned = TRUE] = j
    BY <2>1 DEF Upd, CallRecords
  <2>4. k.step = 1
    BY <2>1 DEF ControlOK, Running
  <2>5. CallEffect(k, i)
    BY <2>1, UpdEffect DEF Running, Ahead
  <2>6. CallEffect(k, j)
    BY <2>1, <2>4, UpdEffect DEF Running, Ahead
  <2> QED
    BY <2>2, <2>3, <2>5, <2>6, <1>d DEF k
<1>11. ASSUME NEW c \in Calls, CheckStep(c)
       PROVE  Goal
  <2> DEFINE k == call[c]
             j == Upd(k, "body", k.queued, k.ran, k.owned, k.new, k.result)
  <2>1. k \in CallRecords /\ k.pc = "check"
    BY <1>11, <1>b DEF CheckStep, At
  <2>2. /\ ops' = ops
        /\ \/ Set(c, Left(k))
           \/ ops[k.step] # Blank /\ Set(c, Advanced(k, ops[k.step]))
           \/ Set(c, [k EXCEPT !.pc = "body"])
    BY <1>11 DEF CheckStep
  <2> HIDE DEF k
  <2>3. [k EXCEPT !.pc = "body"] = j
    BY <2>1, UpdForms, ZenonT(60)
  <2>4. CallEffect(k, j)
    BY <2>1, UpdEffect DEF Running, Ahead
  <2>5. CallEffect(k, Left(k))
    BY <2>1, LeftEffect DEF ResultEffect
  <2>6. ops[k.step] # Blank => CallEffect(k, Advanced(k, ops[k.step]))
    BY <2>1, <2>2, AdvancedEffect
  <2> QED
    BY <2>2, <2>3, <2>4, <2>5, <2>6, <1>d DEF k
<1>12. ASSUME NEW c \in Calls, NEW v \in Vals, NEW s \in StampsOf[c], RunBody(c, v, s)
       PROVE  Goal
  <2> DEFINE k == call[c]
             n == [val |-> v, at |-> s]
             j == Upd(k, "record", k.queued, k.ran, k.owned, n, k.result)
  <2>1. k \in CallRecords /\ k.pc = "body"
    BY <1>12, <1>b DEF RunBody, At
  <2>2. ops' = ops /\ Set(c, [k EXCEPT !.pc = "record", !.new = n])
    BY <1>12 DEF RunBody
  <2> HIDE DEF k, n
  <2>3. [k EXCEPT !.pc = "record", !.new = n] = j
    BY <2>1, UpdForms, ZenonT(60)
  <2>4. CallEffect(k, j)
    BY <2>1, UpdEffect DEF Running, Ahead
  <2> QED
    BY <2>2, <2>3, <2>4, <1>d DEF k
<1>13. ASSUME NEW c \in Calls, RecordStep(c)
       PROVE  Goal
  <2> DEFINE k == call[c]
             j == Upd(k, "await", k.queued, k.ran, k.owned, Blank, k.result)
  <2>1. k \in CallRecords /\ k.pc = "record"
    BY <1>13, <1>b DEF RecordStep, At
  <2>2. \/ ops' = ops /\ Set(c, [k EXCEPT !.pc = "await", !.new = Blank])
        \/ Recorded(k) /\ (Set(c, Advanced(k, k.new)) \/ call' = call)
    BY <1>13 DEF RecordStep, Conflicts, Recorded, LoseAck
  <2> HIDE DEF k
  <2>3. CASE ops' = ops /\ Set(c, [k EXCEPT !.pc = "await", !.new = Blank])
    <3>1. [k EXCEPT !.pc = "await", !.new = Blank] = j
      BY <2>1, UpdForms, ZenonT(60)
    <3>2. CallEffect(k, j)
      BY <2>1, UpdEffect DEF Running, Ahead
    <3> QED
      BY <2>3, <3>1, <3>2, <1>d DEF k
  <2>4. CASE Recorded(k) /\ Set(c, Advanced(k, k.new))
    <3>1. CallEffect(k, Advanced(k, k.new)) /\ Advance(k, Advanced(k, k.new), k.new)
      BY <2>1, <2>4, AdvancedEffect
    <3>2. /\ call'[c] = Advanced(k, k.new)
          /\ \A d \in Calls \ {c} : call'[d] = call[d]
      BY <2>4, <1>a, SMTT(60) DEF Set, TypeOK
    <3>3. OpsEffect
      BY <2>1, <2>4, <3>1, <3>2, SMTT(60) DEF OpsEffect, k
    <3>4. \A d \in Calls : CallEffect(call[d], call'[d])
      BY <2>4, <3>1, <1>a, SetEffect DEF k
    <3> QED
      BY <3>3, <3>4 DEF Goal
  <2>5. CASE Recorded(k) /\ call' = call
    <3>1. OpsEffect
      BY <2>1, <2>5 DEF OpsEffect, k
    <3>2. \A d \in Calls : CallEffect(call[d], call'[d])
      BY <2>5, SameEffect
    <3> QED
      BY <3>1, <3>2 DEF Goal
  <2> QED
    BY <2>2, <2>3, <2>4, <2>5
<1>14. ASSUME NEW c \in Calls, NEW pc \in {"outcome", "error", "caught"},
              NEW st \in Complete, NEW out \in Outputs,
              st = "SUCCESS" => pc = "outcome",
              WriteOutcome(c, pc, st, out)
       PROVE  Goal
  <2> DEFINE k == call[c]
             i == Upd(k, "caught", k.queued, k.ran, k.owned, k.new, k.result)
             j == Upd(k, k.pc, k.queued, k.ran, k.owned, k.new, out)
  <2>1. k \in CallRecords /\ ControlOK(c, k) /\ k.pc = pc
    BY <1>14, <1>b DEF WriteOutcome, At
  <2>2. row \in RowRecords /\ row.status # "ABSENT"
    BY <1>a, <2>1 DEF PresenceInv, TypeOK
  <2>3. /\ ops' = ops
        /\ \/ /\ row.status = "CANCELLED" /\ row' = row /\ st = "SUCCESS"
              /\ Set(c, [k EXCEPT !.pc = "caught"])
           \/ Set(c, Left(k))
           \/ /\ row.status # "CANCELLED" /\ row' = Finalized(row, st, out)
              /\ Set(c, Left([k EXCEPT !.result = out]))
           \/ call' = call
    BY <1>14 DEF WriteOutcome, LoseAck
  <2> HIDE DEF k
  <2>4. CASE /\ row.status = "CANCELLED" /\ row' = row /\ st = "SUCCESS"
             /\ Set(c, [k EXCEPT !.pc = "caught"])
    <3>1. [k EXCEPT !.pc = "caught"] = i
      BY <2>1, UpdForms
    <3>2. k.pc = "outcome" /\ row'.status = "CANCELLED"
      BY <1>14, <2>1, <2>4
    <3>3. CallEffect(k, i)
      BY <2>1, <3>2, UpdEffect DEF Running, Ahead
    <3> QED
      BY <2>3, <2>4, <3>1, <3>3, <1>d, SMTT(60) DEF k
  <2>5. CASE Set(c, Left(k))
    <3>1. CallEffect(k, Left(k))
      BY <2>1, LeftEffect DEF ResultEffect
    <3> QED
      BY <2>3, <2>5, <3>1, <1>d DEF k
  <2>6. CASE /\ row.status # "CANCELLED" /\ row' = Finalized(row, st, out)
             /\ Set(c, Left([k EXCEPT !.result = out]))
    <3>1. [k EXCEPT !.result = out] = j
      BY <2>1, UpdForms, ZenonT(60)
    <3>2. j \in CallRecords
      BY <2>1, CallFields, UpdType, SMTT(60)
    <3>a. Updated(k, j, k.pc, k.owned, k.new, out)
      BY <2>1, UpdKeeps
    <3>4. row'.status = st /\ row'.output = out
      BY <2>2, <2>6, SMTT(60) DEF Finalized, RowRecords
    <3> HIDE DEF j
    <3>3. j.pc = k.pc /\ j.step = k.step /\ j.seen = k.seen /\ j.result = out
      BY <3>a DEF Updated
    <3>5. CallEffect(k, Left(j))
      BY <2>1, <3>2, <3>3, <3>4, LeftEffect DEF ResultEffect
    <3> QED
      BY <2>3, <2>6, <3>1, <3>5, <1>d, SMTT(60) DEF k
  <2>7. CASE call' = call
    BY <2>3, <2>7, <1>c
  <2> QED
    BY <2>3, <2>4, <2>5, <2>6, <2>7
<1>15. ASSUME NEW c \in Calls, WriteSuccess(c) \/ WriteError(c) \/ WriteCaught(c)
       PROVE  Goal
  <2>1. Output(call[c].seen) \in Outputs
    BY <1>b, OutputType, CallFields
  <2>2. [s \in Steps |-> CancelErr] \in Outputs
    BY DEF Outputs
  <2>3. "SUCCESS" \in Complete /\ "ERROR" \in Complete
    BY DEF Complete
  <2> QED
    BY <1>15, <1>14, <2>1, <2>2, <2>3 DEF WriteSuccess, WriteError, WriteCaught
<1>16. ASSUME NEW c \in Calls, AwaitResult(c)
       PROVE  Goal
  <2> DEFINE k == call[c]
             j == Upd(k, k.pc, k.queued, k.ran, k.owned, k.new, row.output)
  <2>1. k \in CallRecords /\ k.pc = "await"
    BY <1>16, <1>b DEF AwaitResult, At
  <2>2. /\ ops' = ops /\ row' = row
        /\ \/ Set(c, Left(k))
           \/ /\ row.status \in Complete
              /\ Set(c, Left([k EXCEPT !.result = row.output]))
    BY <1>16 DEF AwaitResult
  <2>3. row.output \in Outputs
    BY <1>a, SMTT(60) DEF TypeOK, RowRecords
  <2> HIDE DEF k
  <2>4. [k EXCEPT !.result = row.output] = j
    BY <2>1, UpdForms, ZenonT(60)
  <2>5. j \in CallRecords
    BY <2>1, <2>3, CallFields, UpdType
  <2>a. Updated(k, j, k.pc, k.owned, k.new, row.output)
    BY <2>1, UpdKeeps
  <2> HIDE DEF j
  <2>6. j.pc = k.pc /\ j.step = k.step /\ j.seen = k.seen /\ j.result = row.output
    BY <2>a DEF Updated
  <2>7. row.status \in Complete => CallEffect(k, Left(j))
    BY <2>1, <2>2, <2>5, <2>6, LeftEffect DEF ResultEffect
  <2>8. CallEffect(k, Left(k))
    BY <2>1, LeftEffect, SMTT(60) DEF ResultEffect
  <2> QED
    BY <2>2, <2>4, <2>7, <2>8, <1>d DEF k
<1>17. ASSUME NEW e \in Executors, Crash(e)
       PROVE  Goal
  <2>1. ops' = ops /\ \A c \in Calls : call'[c] \in {call[c], Ended(call[c], "dead")}
    BY <1>17 DEF Crash
  <2>2. \A c \in Calls : CallEffect(call[c], Ended(call[c], "dead"))
    BY <1>b, EndedEffect, SMTT(60)
  <2>3. \A c \in Calls : CallEffect(call[c], call[c])
    BY DEF CallEffect, ControlEffect, ResultEffect
  <2> QED
    BY <2>1, <2>2, <2>3 DEF Goal, OpsEffect
<1> QED
  BY <1>1, <1>2, <1>3, <1>4, <1>5, <1>6, <1>7, <1>8, <1>9, <1>10, <1>11, <1>12,
     <1>13, <1>15, <1>16, <1>17 DEF Next, Run, Goal
=============================================================================

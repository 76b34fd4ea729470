------------------------ MODULE WorkflowSafetyProofs ------------------------
(***************************************************************************)
(* Proofs, for every number of executors, invocations and steps, that all  *)
(* executions of a workflow see one history, that there is one outcome and *)
(* every caller gets it, that the rows implement DurableWorkflow, that a   *)
(* process runs a workflow once at a time and that one that can still run  *)
(* has attempts left.                                                      *)
(***************************************************************************)
EXTENDS WorkflowExecutionProofs

-----------------------------------------------------------------------------
(* One history: proofs that every execution of a workflow, however many    *)
(* there are, goes on with the recorded step results only, and that the    *)
(* recorded outcome is the one they determine.                             *)

LEMMA NewNotBlank ==
  ASSUME NEW c \in Calls, NEW k \in CallRecords, ControlOK(c, k), k.pc = "record"
  PROVE  /\ k.new # Blank /\ k.new.val \in Vals /\ k.new.at \in StampsOf[c]
         /\ k.step \in Steps
  BY ConstantsAssumption DEF ControlOK, Blank

LEMMA GrowOK ==
  ASSUME NEW k, NEW o, NEW p, HistoryOK(k, o),
         \A s \in Steps : o[s] # Blank => p[s] = o[s]
  PROVE  HistoryOK(k, p)
  BY DEF HistoryOK

LEMMA ResetOK ==
  ASSUME NEW c \in Calls, NEW k, NEW j, NEW o, Reset(k, j), StampOK(c, k, o),
         k.pc = "idle" => k.step = 1
  PROVE  HistoryOK(j, o) /\ StampOK(c, j, o)
<1>1. HistoryOK(j, o)
  BY ConstantsAssumption DEF Reset, HistoryOK, Blanks, Steps
<1>2. StampOK(c, j, o)
  BY DEF Reset, StampOK, Ahead, Running
<1> QED
  BY <1>1, <1>2

LEMMA MovedOK ==
  ASSUME NEW c \in Calls, NEW k \in CallRecords, NEW j, NEW o, Moved(k, j),
         HistoryOK(k, o), StampOK(c, k, o)
  PROVE  HistoryOK(j, o) /\ StampOK(c, j, o)
<1>1. HistoryOK(j, o)
  BY DEF Moved, HistoryOK, Running, Steps
<1>2. StampOK(c, j, o)
  BY DEF Moved, StampOK, Ahead
<1> QED
  BY <1>1, <1>2

LEMMA AdvanceOK ==
  ASSUME NEW c \in Calls, NEW k \in CallRecords, NEW j, NEW o, NEW n,
         k.step \in Steps, k.pc \in {"check", "record"},
         HistoryOK(k, o), o[k.step] = n, n # Blank, Advance(k, j, n),
         \A s \in Steps : o[s] # Blank /\ o[s].at \in StampsOf[c] => s <= k.step
  PROVE  HistoryOK(j, o) /\ StampOK(c, j, o)
<1>a. k.seen \in [Steps -> Entry] /\ k.step \in Nat /\ NumSteps \in Nat
  BY CallFields, ConstantsAssumption DEF Steps
<1>1. ASSUME NEW s \in Steps
      PROVE  /\ s < j.step => o[s] # Blank /\ j.seen[s] = o[s]
             /\ s >= j.step => j.seen[s] = Blank
  BY <1>1, <1>a DEF HistoryOK, Advance, Steps
<1>2. ASSUME NEW s \in Steps, s < j.step, j.pc \in Running
      PROVE  o[s].val \in FailVals <=> j.pc = "error" /\ s = j.step - 1
  <2>1. CASE s = k.step
    BY <1>2, <1>a, <2>1 DEF Advance, Steps
  <2>2. CASE s # k.step
    <3>1. s < k.step /\ k.pc \in Running /\ k.pc # "error"
      BY <1>2, <1>a, <2>2 DEF Advance, Steps, Running
    <3>2. o[s].val \notin FailVals
      BY <3>1 DEF HistoryOK
    <3> QED
      BY <1>a, <2>2, <3>2 DEF Advance
  <2> QED
    BY <2>1, <2>2
<1>3. HistoryOK(j, o)
  BY <1>1, <1>2 DEF HistoryOK
<1>4. StampOK(c, j, o)
  BY <1>a DEF StampOK, Advance, Steps, Ahead
<1> QED
  BY <1>3, <1>4

\* A recorded step stays as it is.
LEMMA OpsGrow ==
  ASSUME TypeInv, OpsEffect, NEW s \in Steps, ops[s] # Blank
  PROVE  ops'[s] = ops[s]
  BY DEF OpsEffect, Recorded, TypeInv, TypeOK

\* A step that becomes recorded is the current step of a recording invocation.
LEMMA OpsNew ==
  ASSUME TypeInv, OpsEffect, NEW s \in Steps, ops'[s] # ops[s]
  PROVE  \E c \in Calls :
           /\ call[c].pc = "record" /\ s = call[c].step /\ ops'[s] = call[c].new
           /\ \/ call'[c] = call[c]
              \/ Advance(call[c], call'[c], call[c].new)
           /\ \A d \in Calls \ {c} : call'[d] = call[d]
  BY DEF OpsEffect, Recorded, TypeInv, TypeOK

LEMMA RecordStepInv ==
  ASSUME TypeInv, OpsEffect, RecordInv
  PROVE  RecordInv'
<1> SUFFICES ASSUME NEW s \in Steps, ops'[s] # Blank
             PROVE  ops'[s].val \in Vals
  BY DEF RecordInv
<1>1. CASE ops'[s] = ops[s]
  BY <1>1 DEF RecordInv
<1>2. CASE ops'[s] # ops[s]
  <2>1. PICK c \in Calls : call[c].pc = "record" /\ ops'[s] = call[c].new
    BY <1>2, OpsNew
  <2>2. call[c] \in CallRecords /\ ControlOK(c, call[c])
    BY DEF TypeInv, TypeOK, ControlInv
  <2> QED
    BY <2>1, <2>2, NewNotBlank
<1> QED
  BY <1>1, <1>2

LEMMA HistoryStep ==
  ASSUME TypeInv, OpsEffect, \A d \in Calls : CallEffect(call[d], call'[d]),
         HistoryInv
  PROVE  HistoryInv'
<1> SUFFICES ASSUME DistinctStamps, NEW d \in Calls
             PROVE  HistoryOK(call'[d], ops') /\ StampOK(d, call'[d], ops')
  BY DEF HistoryInv, DistinctStamps
<1> DEFINE k == call[d]
           j == call'[d]
<1>1. /\ k \in CallRecords /\ ControlOK(d, k) /\ ControlEffect(k, j)
      /\ HistoryOK(k, ops) /\ StampOK(d, k, ops)
  BY DEF TypeInv, TypeOK, ControlInv, HistoryInv, CallEffect
<1>2. HistoryOK(k, ops')
  BY <1>1, OpsGrow, GrowOK
<1>3. ASSUME NEW s \in Steps, ops'[s] # ops[s]
      PROVE  \/ k.pc = "record" /\ s = k.step /\ ops'[s] = k.new
                /\ (j = k \/ Advance(k, j, k.new))
             \/ j = k /\ ops'[s].at \notin StampsOf[d]
  <2>1. PICK c \in Calls :
           /\ call[c].pc = "record" /\ s = call[c].step /\ ops'[s] = call[c].new
           /\ \/ call'[c] = call[c]
              \/ Advance(call[c], call'[c], call[c].new)
           /\ \A b \in Calls \ {c} : call'[b] = call[b]
    BY <1>3, OpsNew
  <2>2. CASE c = d
    BY <2>1, <2>2
  <2>3. CASE c # d
    <3>1. call[c] \in CallRecords /\ ControlOK(c, call[c])
      BY DEF TypeInv, TypeOK, ControlInv
    <3>2. ops'[s].at \in StampsOf[c]
      BY <2>1, <3>1, NewNotBlank
    <3> QED
      BY <2>1, <2>3, <3>2 DEF DistinctStamps
  <2> QED
    BY <2>2, <2>3
<1> HIDE DEF k, j
<1>4. CASE j = k
  <2>1. StampOK(d, k, ops')
    <3> SUFFICES ASSUME NEW s \in Steps, ops'[s] # Blank, ops'[s].at \in StampsOf[d]
                 PROVE  /\ k.pc \in Ahead => s < k.step
                        /\ k.pc = "record" =>
                             s < k.step \/ (s = k.step /\ ops'[s] = k.new)
      BY DEF StampOK
    <3>1. CASE ops'[s] = ops[s]
      BY <1>1, <3>1 DEF StampOK
    <3>2. CASE ops'[s] # ops[s]
      BY <1>3, <3>2 DEF Ahead
    <3> QED
      BY <3>1, <3>2
  <2> QED
    BY <1>2, <1>4, <2>1 DEF k, j
<1>5. CASE Reset(k, j) /\ ops' = ops
  <2>1. k.pc = "idle" => k.step = 1
    BY <1>1 DEF ControlOK, Running
  <2> QED
    BY <1>1, <1>5, <2>1, ResetOK DEF j
<1>6. CASE Moved(k, j) /\ ops' = ops
  BY <1>1, <1>6, MovedOK DEF j
<1>7. ASSUME NEW n, Advance(k, j, n), k.pc \in {"check", "record"},
             ops'[k.step] = n, n # Blank
      PROVE  HistoryOK(j, ops') /\ StampOK(d, j, ops')
  <2>1. k.step \in Steps /\ k.step \in Nat
    BY <1>1, <1>7 DEF ControlOK, Steps
  <2>2. ASSUME NEW s \in Steps, ops'[s] # Blank, ops'[s].at \in StampsOf[d]
        PROVE  s <= k.step
    <3>1. CASE ops'[s] = ops[s]
      BY <1>1, <1>7, <2>1, <2>2, <3>1 DEF StampOK, Ahead, Steps
    <3>2. CASE ops'[s] # ops[s]
      <4>1. s = k.step \/ j = k
        BY <1>3, <3>2
      <4>2. j.step # k.step
        BY <1>7, <2>1 DEF Advance
      <4> QED
        BY <2>1, <4>1, <4>2
    <3> QED
      BY <3>1, <3>2
  <2> QED
    BY <1>1, <1>2, <1>7, <2>1, <2>2, AdvanceOK
<1>8. k.pc = "record" => k.new # Blank /\ k.new.at \in StampsOf[d] /\ k.step \in Steps
  BY <1>1, NewNotBlank
<1>9. CASE ops' = ops
  <2>1. CASE k.pc = "check" /\ ops[k.step] # Blank /\ Advance(k, j, ops[k.step])
    BY <1>7, <1>9, <2>1 DEF j
  <2>2. CASE k.pc = "record" /\ Recorded(k) /\ Advance(k, j, k.new)
    <3>1. ops[k.step] # Blank /\ ops[k.step].at = k.new.at
      BY <1>8, <1>9, <2>2 DEF Recorded, TypeInv, TypeOK
    <3>2. ops[k.step] = k.new
      BY <1>1, <1>8, <2>2, <3>1 DEF StampOK, Steps
    <3> QED
      BY <1>7, <1>8, <1>9, <2>2, <3>2 DEF j
  <2> QED
    BY <1>1, <1>4, <1>5, <1>6, <1>9, <2>1, <2>2 DEF ControlEffect, j
<1>10. CASE ops' # ops
  <2>1. PICK s \in Steps : ops'[s] # ops[s]
    BY <1>10 DEF OpsEffect, Recorded, TypeInv, TypeOK
  <2>2. CASE j = k
    BY <2>2, <1>4
  <2>3. CASE k.pc = "record" /\ ops'[k.step] = k.new /\ Advance(k, j, k.new)
    BY <1>7, <1>8, <2>3 DEF j
  <2> QED
    BY <1>3, <2>1, <2>2, <2>3
<1> QED
  BY <1>9, <1>10

LEMMA OrderStep ==
  ASSUME TypeInv, OpsEffect, HistoryInv, StepsInOrder
  PROVE  StepsInOrder'
<1> SUFFICES ASSUME DistinctStamps, NEW s \in Steps, NEW u \in Steps, s < u,
                    ops'[u] # Blank
             PROVE  ops'[s] # Blank /\ ops'[s].val \notin FailVals
  BY DEF StepsInOrder, DistinctStamps
<1>1. ops[s] # Blank /\ ops[s].val \notin FailVals
  <2>1. CASE ops[u] # Blank
    BY <2>1 DEF StepsInOrder
  <2>2. CASE ops'[u] # ops[u]
    <3>1. PICK c \in Calls : call[c].pc = "record" /\ u = call[c].step
      BY <2>2, OpsNew
    <3> QED
      BY <3>1 DEF HistoryInv, HistoryOK, Running
  <2> QED
    BY <2>1, <2>2
<1> QED
  BY <1>1, OpsGrow

HistInv == TypeInv /\ RecordInv /\ HistoryInv /\ StepsInOrder

LEMMA HistInit == Init => HistInv
<1> SUFFICES ASSUME Init
             PROVE  HistInv
  OBVIOUS
<1>1. TypeInv
  BY InitType
<1>2. \A s \in Steps : ops[s] = Blank
  BY DEF Init
<1>3. RecordInv /\ StepsInOrder
  BY <1>2 DEF RecordInv, StepsInOrder
<1>4. \A c \in Calls : call[c].step = 1 /\ call[c].seen = Blanks
  BY DEF Init, NoCall, Blanks
<1>5. HistoryInv
  BY <1>2, <1>4, ConstantsAssumption DEF HistoryInv, HistoryOK, StampOK, Blanks, Steps
<1> QED
  BY <1>1, <1>3, <1>5 DEF HistInv

LEMMA HistStep == HistInv /\ [Next]_vars => HistInv'
<1> SUFFICES ASSUME HistInv, [Next]_vars
             PROVE  HistInv'
  OBVIOUS
<1>1. TypeInv /\ RecordInv /\ HistoryInv /\ StepsInOrder
  BY DEF HistInv
<1>2. OpsEffect /\ \A d \in Calls : CallEffect(call[d], call'[d])
  BY <1>1, StepEffect
<1>3. TypeInv'
  BY <1>1, StepType
<1>4. RecordInv'
  BY <1>1, <1>2, RecordStepInv
<1>5. HistoryInv'
  BY <1>1, <1>2, HistoryStep
<1>6. StepsInOrder'
  BY <1>1, <1>2, OrderStep
<1> QED
  BY <1>3, <1>4, <1>5, <1>6 DEF HistInv

\* Exactly-once steps: in every execution, for any number of executors,
\* crashes, recoveries and lost acknowledgements, the function goes on only
\* with results that are in operation_outputs.
THEOREM OneHistory == Spec => []ReplayExact
<1>1. HistInv => ReplayExact
  BY DEF HistInv, TypeInv, TypeOK, CallRecords, HistoryInv, HistoryOK, ReplayExact, Steps
<1> QED
  BY <1>1, HistInit, HistStep, PTL DEF Spec

\* The records of a workflow are always those of a prefix of one run of it.
THEOREM Ordered == Spec => []StepsInOrder
<1>1. HistInv => StepsInOrder
  BY DEF HistInv
<1> QED
  BY <1>1, HistInit, HistStep, PTL DEF Spec

\* No step of the system changes or loses a recorded step result.
THEOREM Durability == Spec => StepsDurable
<1>1. HistInv /\ [Next]_vars => [\A s \in Steps : ops[s] # Blank => ops'[s] = ops[s]]_vars
  <2> SUFFICES ASSUME HistInv, [Next]_vars, NEW s \in Steps, ops[s] # Blank
               PROVE  ops'[s] = ops[s]
    OBVIOUS
  <2>1. TypeInv
    BY DEF HistInv
  <2> QED
    BY <2>1, StepEffect, OpsGrow
<1> QED
  BY <1>1, HistInit, HistStep, PTL DEF Spec, StepsDurable

-----------------------------------------------------------------------------
(* One outcome: proofs that the outcome recorded for a workflow is the one *)
(* its recorded steps determine, that every caller gets that one, that it  *)
(* is never changed, and that a cancellation is left by a resume only.     *)

\* What a step may do to the status and the outcome in the row.
Kept == row'.status = row.status /\ row'.output = row.output

Reopened ==
    /\ row.status \notin Complete /\ row'.status \notin Complete
    /\ row.status = "CANCELLED" =>
         row'.status = "ENQUEUED" /\ resumes' = resumes + 1

Written ==
    /\ row.status # "CANCELLED" /\ ops' = ops
    /\ \E c \in Calls :
         \/ /\ call[c].pc = "outcome" /\ row'.status = "SUCCESS"
            /\ row'.output = Output(call[c].seen)
         \/ /\ call[c].pc = "error" /\ row'.status = "ERROR"
            /\ row'.output = Output(call[c].seen)
         \/ call[c].pc = "caught" /\ row'.status = "ERROR"

Rejected == ~InputsOk /\ row.status # "CANCELLED" /\ row'.status = "ERROR"

RowEffect == Kept \/ Reopened \/ Written \/ Rejected

LEMMA WriteEffect ==
  ASSUME TypeInv, NEW c \in Calls, NEW pc, NEW st, NEW out, st # "CANCELLED",
         WriteOutcome(c, pc, st, out)
  PROVE  \/ Kept
         \/ /\ row.status # "CANCELLED" /\ ops' = ops /\ call[c].pc = pc
            /\ row'.status = st /\ row'.output = out
<1>1. row \in RowRecords
  BY DEF TypeInv, TypeOK
<1>2. row' = row \/ (row.status # "CANCELLED" /\ row' = Finalized(row, st, out))
  BY DEF WriteOutcome
<1> QED
  BY <1>1, <1>2 DEF WriteOutcome, Finalized, Kept, At, RowRecords

LEMMA InitEffect ==
  ASSUME NEW r \in RowRecords, NEW c \in Calls, NEW k \in CallRecords,
         NEW q, q = DeadLettered(Upserted(r, c, k), c)
  PROVE  \/ q.status = r.status /\ q.output = r.output
         \/ r.status = "ABSENT" /\ q.status \notin Complete
         \/ r.status = "PENDING" /\ q.status \notin Complete
<1> DEFINE u == Upserted(r, c, k)
<1>1. CASE r.status = "ABSENT"
  <2>1. u.status \in {"PENDING", "ENQUEUED"}
    BY <1>1 DEF Upserted
  <2> HIDE DEF u
  <2>2. q.status = u.status \/ q.status = "MAX_RECOVERY_ATTEMPTS_EXCEEDED"
    <3>1. q = u \/ q = [u EXCEPT !.status = "MAX_RECOVERY_ATTEMPTS_EXCEEDED",
                                 !.queued = FALSE]
      BY DEF DeadLettered, u
    <3>2. u = [status |-> u.status, queued |-> u.queued, exec |-> u.exec,
               attempts |-> u.attempts, owner |-> u.owner, output |-> u.output]
      BY <1>1 DEF u, Upserted
    <3> QED
      BY <3>1, <3>2
  <2> QED
    BY <1>1, <2>1, <2>2 DEF Complete
<1>2. CASE r.status # "ABSENT"
  <2>1. u \in RowRecords
    BY <1>2, UpsertedType
  <2>2. u.status = r.status /\ u.output = r.output
    BY <1>2 DEF Upserted, RowRecords
  <2> HIDE DEF u
  <2>3. q = u \/ (u.status = "PENDING"
                  /\ q = [u EXCEPT !.status = "MAX_RECOVERY_ATTEMPTS_EXCEEDED",
                                   !.queued = FALSE])
    BY DEF DeadLettered, u
  <2>4. CASE q = u
    BY <2>2, <2>4
  <2>5. CASE u.status = "PENDING" /\ q = [u EXCEPT !.status = "MAX_RECOVERY_ATTEMPTS_EXCEEDED",
                                   !.queued = FALSE]
    BY <2>1, <2>2, <2>5 DEF RowRecords, Complete
  <2> QED
    BY <2>3, <2>4, <2>5
<1> QED
  BY <1>1, <1>2

LEMMA RowStep == TypeInv /\ [Next]_vars => RowEffect
<1> SUFFICES ASSUME TypeInv, [Next]_vars
             PROVE  RowEffect
  OBVIOUS
<1>a. row \in RowRecords
  BY DEF TypeInv, TypeOK
<1>b. \A c \in Calls : call[c] \in CallRecords
  BY DEF TypeInv, TypeOK
<1>1. CASE UNCHANGED vars
  BY <1>1 DEF vars, RowEffect, Kept
<1>2. ASSUME NEW c \in Calls, Acquire(c) \/ Release(c) \/ CheckStep(c) \/ AwaitResult(c)
      PROVE  RowEffect
  BY <1>2 DEF Acquire, Release, CheckStep, AwaitResult, RowEffect, Kept
<1>3. ASSUME NEW c \in Calls, NEW v \in Vals, NEW t \in StampsOf[c], RunBody(c, v, t)
      PROVE  RowEffect
  BY <1>3 DEF RunBody, RowEffect, Kept
<1>4. ASSUME NEW c \in Calls, ReturnToQueue(c)
      PROVE  RowEffect
  BY <1>4, <1>a DEF ReturnToQueue, Requeued, RowEffect, Kept, Reopened, RowRecords, Complete
<1>5. ASSUME NEW c \in Calls, ExecuteById(c)
      PROVE  RowEffect
  <2>1. CASE InputsOk
    BY <1>5, <2>1 DEF ExecuteById, RowEffect, Kept
  <2>2. CASE ~InputsOk
    <3>1. row' = Finalized(row, "ERROR", NoOutput)
      BY <1>5, <2>2 DEF ExecuteById
    <3> QED
      BY <1>a, <2>2, <3>1 DEF Finalized, RowEffect, Kept, Rejected, RowRecords
  <2> QED
    BY <2>1, <2>2
<1>6. ASSUME NEW c \in Calls, InitWorkflow(c)
      PROVE  RowEffect
  <2>1. row' = DeadLettered(Upserted(row, c, call[c]), c)
    BY <1>6 DEF InitWorkflow
  <2>2. \/ row'.status = row.status /\ row'.output = row.output
        \/ row.status = "ABSENT" /\ row'.status \notin Complete
        \/ row.status = "PENDING" /\ row'.status \notin Complete
    BY <1>a, <1>b, <2>1, InitEffect
  <2> QED
    BY <2>2 DEF RowEffect, Kept, Reopened, Complete
<1>7. ASSUME NEW c \in Calls, RecordStep(c)
      PROVE  RowEffect
  <2>1. row' = row \/ row' = [row EXCEPT !.exec = call[c].exec]
    BY <1>7 DEF RecordStep
  <2> QED
    BY <1>a, <2>1 DEF RowEffect, Kept, RowRecords
<1>8. ASSUME NEW c \in Calls, WriteSuccess(c) \/ WriteError(c) \/ WriteCaught(c)
      PROVE  RowEffect
  BY <1>8, WriteEffect
     DEF WriteSuccess, WriteError, WriteCaught, RowEffect, Written
<1>9. ASSUME NEW c \in Clients, NEW e \in Executors, NEW kind \in Kinds,
             Request(c, e, kind)
      PROVE  RowEffect
  BY <1>9 DEF Request, RowEffect, Kept
<1>10. ASSUME NEW c \in Dispatches, NEW e \in Executors, Dequeue(c, e)
       PROVE  RowEffect
  BY <1>10, <1>a DEF Dequeue, RowEffect, Reopened, RowRecords, Complete
<1>11. ASSUME NEW c \in Dispatches, NEW e \in Executors, NEW x \in Executors,
              RecoverPending(c, e, x)
       PROVE  RowEffect
  BY <1>11 DEF RecoverPending, RowEffect, Kept
<1>12. ASSUME NEW e \in Executors, DequeueUnacknowledged(e)
       PROVE  RowEffect
  BY <1>12, <1>a DEF DequeueUnacknowledged, RowEffect, Reopened, RowRecords, Complete
<1>13. ASSUME NEW e \in Executors, Crash(e) \/ Restart(e)
       PROVE  RowEffect
  BY <1>13 DEF Crash, Restart, RowEffect, Kept
<1>14. CASE Cancel
  BY <1>14, <1>a DEF Cancel, Cancelled, RowEffect, Kept, Reopened, RowRecords, Complete
<1>15. CASE Resume
  BY <1>15, <1>a DEF Resume, Resumed, RowEffect, Kept, Reopened, RowRecords, Complete
<1> QED
  BY <1>1, <1>2, <1>3, <1>4, <1>5, <1>6, <1>7, <1>8, <1>9, <1>10, <1>11, <1>12,
     <1>13, <1>14, <1>15 DEF Next, Run

\* Once the function ran to its end no execution records anything new.
LEMMA FinishedStable ==
  ASSUME HistInv, OpsEffect, DistinctStamps, Finished
  PROVE  ops' = ops
<1> SUFFICES ASSUME ops' # ops
             PROVE  FALSE
  OBVIOUS
<1>a. TypeInv /\ RecordInv /\ HistoryInv /\ StepsInOrder
  BY DEF HistInv
<1>1. PICK s \in Steps : ops'[s] # ops[s]
  BY <1>a DEF OpsEffect, Recorded, TypeInv, TypeOK
<1>2. ops[s] = Blank
  BY <1>a, <1>1, OpsGrow
<1>3. PICK c \in Calls : call[c].pc = "record" /\ s = call[c].step
  BY <1>a, <1>1, OpsNew
<1>4. PICK f \in Steps : ops[f].val \in FailVals
  BY <1>2 DEF Finished
<1>5. ops[f] # Blank
  BY <1>4, ConstantsAssumption DEF Blank
<1>6. ~(f < s)
  BY <1>a, <1>3, <1>4 DEF HistoryInv, HistoryOK, Running
<1>7. ~(s < f)
  BY <1>a, <1>2, <1>5 DEF StepsInOrder
<1> QED
  BY <1>2, <1>5, <1>6, <1>7 DEF Steps

\* What an execution that ran to its end is about to write.
LEMMA OutcomeOfSteps ==
  ASSUME HistInv, DistinctStamps, NEW c \in Calls, call[c].pc \in {"outcome", "error"}
  PROVE  /\ Finished /\ Output(call[c].seen) = Output(ops)
         /\ call[c].pc = "error" <=> SomeFailed
<1> DEFINE k == call[c]
<1>1. /\ k \in CallRecords /\ ControlOK(c, k) /\ HistoryOK(k, ops) /\ StepsInOrder
      /\ k.pc \in {"outcome", "error"}
  BY DEF HistInv, TypeInv, TypeOK, ControlInv, HistoryInv
<1> HIDE DEF k
<1>2. k.step \in 1..(NumSteps + 1) /\ NumSteps \in Nat
  BY <1>1, CallFields, ConstantsAssumption
<1>3. CASE k.pc = "outcome"
  <2>1. k.step = NumSteps + 1
    BY <1>1, <1>3 DEF ControlOK
  <2>2. \A s \in Steps : /\ ops[s] # Blank /\ k.seen[s] = ops[s]
                         /\ ops[s].val \notin FailVals
    BY <1>1, <1>2, <1>3, <2>1 DEF HistoryOK, Steps, Running
  <2> QED
    BY <1>3, <2>2 DEF Finished, SomeFailed, Output, k
<1>4. CASE k.pc = "error"
  <2>1. k.step > 1 /\ k.step - 1 \in Steps /\ k.step - 1 < k.step
    BY <1>1, <1>2, <1>4 DEF ControlOK, Steps
  <2>2. ops[k.step - 1].val \in FailVals
    BY <1>1, <1>4, <2>1 DEF HistoryOK, Running
  <2>3. ASSUME NEW s \in Steps
        PROVE  k.seen[s] = ops[s]
    <3>1. CASE s < k.step
      BY <1>1, <3>1 DEF HistoryOK
    <3>2. CASE s >= k.step
      <4>1. k.seen[s] = Blank
        BY <1>1, <3>2 DEF HistoryOK
      <4>2. k.step - 1 < s
        BY <1>2, <3>2 DEF Steps
      <4>3. ops[s] = Blank
        BY <1>1, <2>1, <2>2, <4>2 DEF StepsInOrder
      <4> QED
        BY <4>1, <4>3
    <3> QED
      BY <1>2, <3>1, <3>2 DEF Steps
  <2> QED
    BY <1>4, <2>1, <2>2, <2>3 DEF Finished, SomeFailed, Output, k
<1> QED
  BY <1>1, <1>3, <1>4

SafeInv == HistInv /\ OutcomeInv

LEMMA SafeInit == Init => SafeInv
<1> SUFFICES ASSUME Init
             PROVE  SafeInv
  OBVIOUS
<1>1. HistInv
  BY HistInit
<1>2. row.status = "ABSENT"
  BY DEF Init
<1>3. \A c \in Calls : call[c].result = NoOutput /\ call[c].pc = "idle"
  BY DEF Init, NoCall
<1>4. OutcomeInv
  BY <1>2, <1>3 DEF OutcomeInv, Complete
<1> QED
  BY <1>1, <1>4 DEF SafeInv

LEMMA OutcomeStep ==
  ASSUME SafeInv, RowEffect, OpsEffect, TypeInv',
         \A d \in Calls : CallEffect(call[d], call'[d])
  PROVE  OutcomeInv'
<1>a. HistInv /\ OutcomeInv
  BY DEF SafeInv
<1>b. ASSUME DistinctStamps, Finished
      PROVE  ops' = ops /\ Finished'
  <2>1. ops' = ops
    BY <1>a, <1>b, FinishedStable
  <2> QED
    BY <1>b, <2>1 DEF Finished
<1>1. ASSUME DistinctStamps, row'.status \in Complete,
             row'.status = "SUCCESS" \/ Orderly
      PROVE  /\ Finished' /\ row'.output = Output(ops')
             /\ row'.status = "ERROR" <=> SomeFailed'
  <2>1. CASE Kept
    <3>1. /\ Finished /\ row.output = Output(ops)
          /\ row.status = "ERROR" <=> SomeFailed
      BY <1>a, <1>1, <2>1 DEF Kept, OutcomeInv
    <3>2. ops' = ops /\ Finished'
      BY <1>1, <1>b, <3>1
    <3> QED
      BY <2>1, <3>1, <3>2 DEF Kept, SomeFailed
  <2>2. CASE Reopened
    BY <1>1, <2>2 DEF Reopened
  <2>3. CASE Written
    <3>1. PICK c \in Calls :
            \/ /\ call[c].pc = "outcome" /\ row'.status = "SUCCESS"
               /\ row'.output = Output(call[c].seen)
            \/ /\ call[c].pc = "error" /\ row'.status = "ERROR"
               /\ row'.output = Output(call[c].seen)
            \/ call[c].pc = "caught" /\ row'.status = "ERROR"
      BY <2>3 DEF Written
    <3>2. call[c].pc # "caught"
      BY <1>a, <1>1, <2>3, <3>1 DEF OutcomeInv, Written
    <3>3. /\ Finished /\ Output(call[c].seen) = Output(ops)
          /\ call[c].pc = "error" <=> SomeFailed
      BY <1>a, <1>1, <3>1, <3>2, OutcomeOfSteps
    <3>4. ops' = ops /\ Finished'
      BY <1>1, <1>b, <3>3
    <3> QED
      BY <3>1, <3>2, <3>3, <3>4 DEF SomeFailed
  <2>4. CASE Rejected
    BY <1>1, <2>4 DEF Rejected, Orderly
  <2> QED
    BY <2>1, <2>2, <2>3, <2>4 DEF RowEffect
<1>2. ASSUME Orderly, NEW c \in Calls, call'[c].result # NoOutput
      PROVE  Finished' /\ call'[c].result = Output(ops')
  <2>1. DistinctStamps
    BY <1>2 DEF Orderly
  <2>2. ResultEffect(call[c], call'[c])
    BY DEF CallEffect
  <2>3. CASE row'.status \in Complete /\ call'[c].result = row'.output
    BY <1>1, <1>2, <2>1, <2>3
  <2>4. CASE call'[c].result = call[c].result
    <3>1. Finished /\ call[c].result = Output(ops)
      BY <1>a, <1>2, <2>4 DEF OutcomeInv
    <3> QED
      BY <1>b, <2>1, <2>4, <3>1
  <2> QED
    BY <1>2, <2>2, <2>3, <2>4 DEF ResultEffect
<1>3. ASSUME Orderly, NEW c \in Calls, call'[c].pc = "caught"
      PROVE  row'.status = "CANCELLED"
  <2>1. ResultEffect(call[c], call'[c])
    BY DEF CallEffect
  <2>2. CASE call[c].pc = "caught"
    <3>1. row.status = "CANCELLED"
      BY <1>a, <1>3, <2>2 DEF OutcomeInv
    <3>2. ~Reopened
      <4>1. resumes \in 0..MaxResumes /\ resumes' \in 0..MaxResumes /\ MaxResumes = 0
        BY <1>a, <1>3 DEF HistInv, TypeInv, TypeOK, Orderly
      <4> QED
        BY <3>1, <4>1 DEF Reopened
    <3> QED
      BY <3>1, <3>2 DEF RowEffect, Kept, Written, Rejected
  <2> QED
    BY <1>3, <2>1, <2>2 DEF ResultEffect
<1>4. Orderly' = Orderly /\ DistinctStamps' = DistinctStamps /\ NoOutput' = NoOutput
  BY DEF Orderly, DistinctStamps, NoOutput
<1> QED
  BY <1>1, <1>2, <1>3, <1>4 DEF OutcomeInv, Orderly, DistinctStamps

LEMMA SafeStep == SafeInv /\ [Next]_vars => SafeInv'
<1> SUFFICES ASSUME SafeInv, [Next]_vars
             PROVE  SafeInv'
  OBVIOUS
<1>1. HistInv /\ TypeInv /\ OutcomeInv
  BY DEF SafeInv, HistInv
<1>2. HistInv' /\ TypeInv'
  BY <1>1, HistStep, StepType
<1>3. RowEffect /\ OpsEffect /\ \A d \in Calls : CallEffect(call[d], call'[d])
  BY <1>1, RowStep, StepEffect
<1>4. OutcomeInv'
  BY <1>2, <1>3, OutcomeStep
<1> QED
  BY <1>2, <1>4 DEF SafeInv

\* The outcome recorded for a workflow is the one its recorded steps determine,
\* whichever execution wrote it and however often it was written.
THEOREM OneOutcome == Spec => []OutcomeFromSteps
<1>1. SafeInv => OutcomeFromSteps
  BY DEF SafeInv, OutcomeInv, OutcomeFromSteps, Orderly
<1> QED
  BY <1>1, SafeInit, SafeStep, PTL DEF Spec

\* All callers that get a result of the workflow get the same one.
THEOREM OneResult == Spec => []ResultsAgree
<1>1. SafeInv => ResultsAgree
  BY DEF SafeInv, OutcomeInv, ResultsAgree, Orderly
<1> QED
  BY <1>1, SafeInit, SafeStep, PTL DEF Spec

\* A completed workflow never changes status or outcome, although
\* update_workflow_outcome overwrites both: a late execution writes the same.
THEOREM OutcomeKept == Spec => OutcomeDurable
<1>1. SafeInv /\ [Next]_vars =>
        [(DistinctStamps /\ InputsOk /\ MaxResumes = 0 /\ row.status \in Complete)
           => row'.status = row.status /\ row'.output = row.output]_vars
  <2> SUFFICES ASSUME SafeInv, [Next]_vars, Orderly, row.status \in Complete
               PROVE  row'.status = row.status /\ row'.output = row.output
    BY DEF Orderly
  <2>1. SafeInv' /\ RowEffect /\ OpsEffect
    BY SafeStep, RowStep, StepEffect DEF SafeInv, HistInv
  <2>2. DistinctStamps /\ Orderly' /\ DistinctStamps'
    BY DEF Orderly, DistinctStamps
  <2>3. /\ Finished /\ row.output = Output(ops)
        /\ row.status = "ERROR" <=> SomeFailed
    BY <2>2 DEF SafeInv, OutcomeInv
  <2>4. row'.status \in Complete
    BY <2>1 DEF RowEffect, Kept, Reopened, Written, Rejected, Complete, Orderly
  <2>5. /\ row'.output = Output(ops')
        /\ row'.status = "ERROR" <=> SomeFailed'
    BY <2>1, <2>2, <2>4 DEF SafeInv, OutcomeInv
  <2>6. ops' = ops
    BY <2>1, <2>2, <2>3, FinishedStable DEF SafeInv
  <2> QED
    BY <2>3, <2>4, <2>5, <2>6 DEF SomeFailed, Complete
<1> QED
  BY <1>1, SafeInit, SafeStep, PTL DEF Spec, OutcomeDurable

\* Only resume_workflow takes a workflow out of CANCELLED.
THEOREM CancelKept == Spec => CancelHolds
<1>1. SafeInv /\ [Next]_vars =>
        [row.status = "CANCELLED" =>
           \/ row'.status = "CANCELLED"
           \/ row'.status = "ENQUEUED" /\ resumes' = resumes + 1]_vars
  BY RowStep DEF SafeInv, HistInv, RowEffect, Kept, Reopened, Written, Rejected
<1> QED
  BY <1>1, SafeInit, SafeStep, PTL DEF Spec, CancelHolds

-----------------------------------------------------------------------------
(* WorkflowExecution implements DurableWorkflow: whatever crashes, second  *)
(* executions, recoveries and lost acknowledgements do, the rows behave as *)
(* one log of steps that grows in order and one outcome written once.      *)

Open == {"PENDING", "ENQUEUED"}
Exceeded == "MAX_RECOVERY_ATTEMPTS_EXCEEDED"

\* What a step does to the row of a workflow that is never resumed.
Inserted == row.status = "ABSENT" /\ row'.status \in Open /\ row'.output = NoOutput

Shifted ==
    /\ row'.output = row.output
    /\ \/ row.status \in Open /\ row'.status \in Open \cup {Exceeded}
       \/ row.status \in Open \cup {Exceeded} /\ row'.status = "CANCELLED"

LifeEffect ==
    \/ Kept
    \/ ops' = ops /\ (Inserted \/ Shifted \/ Written \/ Rejected)

LEMMA InsertEffect ==
  ASSUME NEW r \in RowRecords, NEW c \in Calls, NEW k \in CallRecords,
         NEW q, q = DeadLettered(Upserted(r, c, k), c)
  PROVE  \/ q.status = r.status /\ q.output = r.output
         \/ r.status = "ABSENT" /\ q.status \in Open /\ q.output = NoOutput
         \/ r.status = "PENDING" /\ q.status = Exceeded /\ q.output = r.output
<1> DEFINE u == Upserted(r, c, k)
<1>1. CASE r.status = "ABSENT"
  <2>1. u.status \in Open /\ u.output = NoOutput /\ u.owner = c
    BY <1>1 DEF Upserted, Open
  <2>2. q = u
    BY <2>1 DEF DeadLettered, Exhausted
  <2> QED
    BY <1>1, <2>1, <2>2
<1>2. CASE r.status # "ABSENT"
  <2>1. u \in RowRecords
    BY <1>2, UpsertedType
  <2>2. u.status = r.status /\ u.output = r.output
    BY <1>2 DEF Upserted, RowRecords
  <2> HIDE DEF u
  <2>3. q = u \/ (u.status = "PENDING"
                  /\ q = [u EXCEPT !.status = "MAX_RECOVERY_ATTEMPTS_EXCEEDED",
                                   !.queued = FALSE])
    BY DEF DeadLettered, u
  <2>4. CASE q = u
    BY <2>2, <2>4
  <2>5. CASE u.status = "PENDING" /\ q = [u EXCEPT !.status = "MAX_RECOVERY_ATTEMPTS_EXCEEDED",
                                   !.queued = FALSE]
    BY <2>1, <2>2, <2>5 DEF RowRecords, Exceeded
  <2> QED
    BY <2>3, <2>4, <2>5
<1> QED
  BY <1>1, <1>2

LEMMA LifeStep ==
  ASSUME TypeInv, TypeInv', MaxResumes = 0, [Next]_vars
  PROVE  LifeEffect
<1>a. row \in RowRecords
  BY DEF TypeInv, TypeOK
<1>b. \A c \in Calls : call[c] \in CallRecords
  BY DEF TypeInv, TypeOK
<1>1. CASE UNCHANGED vars
  BY <1>1 DEF vars, LifeEffect, Kept
<1>2. ASSUME NEW c \in Calls, Acquire(c) \/ Release(c) \/ CheckStep(c) \/ AwaitResult(c)
      PROVE  LifeEffect
  BY <1>2 DEF Acquire, Release, CheckStep, AwaitResult, LifeEffect, Kept
<1>3. ASSUME NEW c \in Calls, NEW v \in Vals, NEW t \in StampsOf[c], RunBody(c, v, t)
      PROVE  LifeEffect
  BY <1>3 DEF RunBody, LifeEffect, Kept
<1>4. ASSUME NEW c \in Calls, ReturnToQueue(c)
      PROVE  LifeEffect
  BY <1>4, <1>a DEF ReturnToQueue, Requeued, LifeEffect, Kept, Shifted, Open, RowRecords
<1>5. ASSUME NEW c \in Calls, ExecuteById(c)
      PROVE  LifeEffect
  <2>1. CASE InputsOk
    BY <1>5, <2>1 DEF ExecuteById, LifeEffect, Kept
  <2>2. CASE ~InputsOk
    <3>1. row' = Finalized(row, "ERROR", NoOutput) /\ ops' = ops
      BY <1>5, <2>2 DEF ExecuteById
    <3> QED
      BY <1>a, <2>2, <3>1 DEF Finalized, LifeEffect, Kept, Rejected, RowRecords
  <2> QED
    BY <2>1, <2>2
<1>6. ASSUME NEW c \in Calls, InitWorkflow(c)
      PROVE  LifeEffect
  <2>1. row' = DeadLettered(Upserted(row, c, call[c]), c) /\ ops' = ops
    BY <1>6 DEF InitWorkflow
  <2>2. \/ row'.status = row.status /\ row'.output = row.output
        \/ row.status = "ABSENT" /\ row'.status \in Open /\ row'.output = NoOutput
        \/ row.status = "PENDING" /\ row'.status = Exceeded /\ row'.output = row.output
    BY <1>a, <1>b, <2>1, InsertEffect
  <2> QED
    BY <2>1, <2>2 DEF LifeEffect, Kept, Inserted, Shifted, Open
<1>7. ASSUME NEW c \in Calls, RecordStep(c)
      PROVE  LifeEffect
  <2>1. row' = row \/ row' = [row EXCEPT !.exec = call[c].exec]
    BY <1>7 DEF RecordStep
  <2> QED
    BY <1>a, <2>1 DEF LifeEffect, Kept, RowRecords
<1>8. ASSUME NEW c \in Calls, WriteSuccess(c) \/ WriteError(c) \/ WriteCaught(c)
      PROVE  LifeEffect
  <2>1. Kept \/ Written
    BY <1>8, WriteEffect DEF WriteSuccess, WriteError, WriteCaught, Written
  <2>2. Written => ops' = ops
    BY DEF Written
  <2> QED
    BY <2>1, <2>2 DEF LifeEffect
<1>9. ASSUME NEW c \in Clients, NEW e \in Executors, NEW kind \in Kinds,
             Request(c, e, kind)
      PROVE  LifeEffect
  BY <1>9 DEF Request, LifeEffect, Kept
<1>10. ASSUME NEW c \in Dispatches, NEW e \in Executors, Dequeue(c, e)
       PROVE  LifeEffect
  BY <1>10, <1>a DEF Dequeue, LifeEffect, Shifted, Open, RowRecords
<1>11. ASSUME NEW c \in Dispatches, NEW e \in Executors, NEW x \in Executors,
              RecoverPending(c, e, x)
       PROVE  LifeEffect
  BY <1>11 DEF RecoverPending, LifeEffect, Kept
<1>12. ASSUME NEW e \in Executors, DequeueUnacknowledged(e)
       PROVE  LifeEffect
  BY <1>12, <1>a DEF DequeueUnacknowledged, LifeEffect, Shifted, Open, RowRecords
<1>13. ASSUME NEW e \in Executors, Crash(e) \/ Restart(e)
       PROVE  LifeEffect
  BY <1>13 DEF Crash, Restart, LifeEffect, Kept
<1>14. CASE Cancel
  BY <1>14, <1>a DEF Cancel, Cancelled, LifeEffect, Kept, Shifted, Open, Exceeded,
     RowRecords, Complete, Statuses
<1>15. ~Resume
  BY DEF Resume, TypeInv, TypeOK
<1> QED
  BY <1>1, <1>2, <1>3, <1>4, <1>5, <1>6, <1>7, <1>8, <1>9, <1>10, <1>11, <1>12,
     <1>13, <1>14, <1>15 DEF Next, Run

\* The row has no outcome before it exists.
AbsentInv == row.status = "ABSENT" => row.output = NoOutput

LEMMA AbsentStep ==
  ASSUME AbsentInv, LifeEffect
  PROVE  AbsentInv'
  BY DEF AbsentInv, LifeEffect, Kept, Inserted, Shifted, Written, Rejected, Open,
     Exceeded, NoOutput

\* The phase of every status.
LEMMA PhaseOf ==
  ASSUME row.status \in Statuses
  PROVE  /\ row.status = "ABSENT" => Phase = "absent"
         /\ row.status \in Open => Phase = "running"
         /\ row.status = "CANCELLED" => Phase = "cancelled"
         /\ row.status = Exceeded => Phase = "exhausted"
         /\ row.status \in Complete => Phase = "done"
  BY DEF Phase, Statuses, Open, Exceeded, Complete

LEMMA PhaseOfNext ==
  ASSUME row'.status \in Statuses
  PROVE  /\ row'.status = "ABSENT" => Phase' = "absent"
         /\ row'.status \in Open => Phase' = "running"
         /\ row'.status = "CANCELLED" => Phase' = "cancelled"
         /\ row'.status = Exceeded => Phase' = "exhausted"
         /\ row'.status \in Complete => Phase' = "done"
  BY DEF Phase, Statuses, Open, Exceeded, Complete

DurableVars == <<Phase, Output(ops), row.output>>

\* A step that the workflow records is the next one of the log, done once.
LEMMA LogStep ==
  ASSUME SafeInv, OpsEffect, Kept, Orderly, row'.status \in Statuses, ops' # ops
  PROVE  Durable!Next
<1>a. HistInv /\ TypeInv /\ RecordInv /\ HistoryInv /\ StepsInOrder /\ DistinctStamps
  BY DEF SafeInv, HistInv, Orderly
<1>b. row.status \in Statuses /\ ops \in [Steps -> Entry] /\ PresenceInv
  BY <1>a DEF TypeInv, TypeOK, RowRecords
<1>1. PICK s \in Steps : ops'[s] # ops[s]
  BY <1>a DEF OpsEffect, Recorded, TypeInv, TypeOK
<1>2. PICK c \in Calls : /\ call[c].pc = "record" /\ s = call[c].step
                          /\ ops'[s] = call[c].new
  BY <1>a, <1>1, OpsNew
<1>3. ops[s] = Blank
  BY <1>a, <1>1, OpsGrow
<1>4. call[c].new.val \in Vals
  BY <1>a, <1>2 DEF TypeInv, ControlInv, ControlOK
<1>5. ops' = [ops EXCEPT ![s] = call[c].new]
  <2>1. PICK d \in Calls : /\ call[d].pc = "record" /\ Recorded(call[d])
    BY DEF OpsEffect
  <2>2. \A t \in Steps : t # call[d].step => ops'[t] = ops[t]
    BY <1>b, <2>1 DEF Recorded
  <2>3. call[d].step = s
    BY <1>1, <2>2
  <2>4. ops' \in [Steps -> {ops'[t] : t \in Steps}] /\ \A t \in Steps : t # s => ops'[t] = ops[t]
    BY <1>b, <2>1, <2>2, <2>3 DEF Recorded
  <2> QED
    BY <1>b, <1>2, <2>4
<1>6. row.status \notin Complete \cup {"ABSENT"}
  <2>1. row.status # "ABSENT"
    BY <1>b, <1>2 DEF PresenceInv
  <2>2. ~Finished
    BY <1>a, FinishedStable
  <2> QED
    BY <2>1, <2>2, <1>a DEF SafeInv, OutcomeInv
<1>7. ASSUME NEW t \in Steps, t < s
      PROVE  ops[t].val # None /\ ops[t].val \notin FailVals
  <2>1. ops[t] # Blank /\ ops[t].val \notin FailVals
    BY <1>a, <1>2, <1>7 DEF HistoryInv, HistoryOK, Running
  <2> QED
    BY <1>a, <2>1, ConstantsAssumption DEF RecordInv
<1>8. Phase \notin {"absent", "done"} /\ Phase' = Phase
  <2>1. row.status \in Open \cup {"CANCELLED", Exceeded}
    BY <1>b, <1>6 DEF Statuses, Open, Exceeded, Complete
  <2> QED
    BY <1>b, <2>1, PhaseOf, PhaseOfNext DEF Kept
<1>9. Output(ops') = [Output(ops) EXCEPT ![s] = call[c].new.val]
  BY <1>b, <1>5 DEF Output
<1>10. /\ Output(ops)[s] = None
       /\ \A t \in 1..(s - 1) : Output(ops)[t] # None /\ Output(ops)[t] \notin FailVals
  <2>1. \A t \in 1..(s - 1) : t \in Steps /\ t < s
    BY ConstantsAssumption DEF Steps
  <2> QED
    BY <1>3, <1>7, <2>1 DEF Output, Blank
<1>11. Durable!DoStep(s, call[c].new.val)
  BY <1>8, <1>9, <1>10 DEF Durable!DoStep, Kept
<1> QED
  BY <1>4, <1>11 DEF Durable!Next, Durable!Steps, Steps

\* An outcome that is written is the one of the log, which is complete.
LEMMA OutcomeWritten ==
  ASSUME SafeInv, SafeInv', Orderly, Written, ops' = ops,
         row.status \notin Complete
  PROVE  Durable!Next
<1>a. HistInv /\ TypeInv /\ TypeInv' /\ RecordInv /\ OutcomeInv' /\ Orderly' /\ DistinctStamps'
  BY DEF SafeInv, HistInv, Orderly, DistinctStamps
<1>b. row.status \in Statuses /\ row'.status \in Statuses /\ PresenceInv
  BY <1>a DEF TypeInv, TypeOK, RowRecords
<1>1. row'.status \in Complete /\ row.status # "CANCELLED" /\ row.status # "ABSENT"
  BY <1>b DEF Written, Complete, PresenceInv
<1>2. Finished' /\ row'.output = Output(ops')
  BY <1>a, <1>1 DEF OutcomeInv
<1>3. Phase \in {"running", "exhausted"} /\ Phase' = "done"
  <2>1. row.status \in Open \cup {Exceeded}
    BY <1>b, <1>1 DEF Statuses, Open, Exceeded, Complete
  <2> QED
    BY <1>b, <1>1, <2>1, PhaseOf, PhaseOfNext
<1>4. Finished
  BY <1>2 DEF Finished
<1>5. \/ \E s \in Steps : Output(ops)[s] \in FailVals
      \/ \A s \in Steps : Output(ops)[s] # None
  BY <1>a, <1>4, ConstantsAssumption DEF Finished, RecordInv, Output
<1>6. Durable!LogComplete
  BY <1>5 DEF Durable!LogComplete, Durable!Steps, Steps
<1>7. Durable!Complete
  BY <1>2, <1>3, <1>6 DEF Durable!Complete
<1> QED
  BY <1>7 DEF Durable!Next

\* Submission, dead-lettering and cancellation are steps of the abstract
\* workflow; a dispatch and a return to the queue are not seen.
LEMMA RowMoves ==
  ASSUME TypeInv, TypeInv', AbsentInv, ops' = ops, Inserted \/ Shifted
  PROVE  Durable!Next \/ UNCHANGED DurableVars
<1>b. row.status \in Statuses /\ row'.status \in Statuses
  BY DEF TypeInv, TypeOK, RowRecords
<1>c. Output(ops') = Output(ops)
  OBVIOUS
<1>1. CASE Inserted
  <2>1. Phase = "absent" /\ Phase' = "running" /\ row'.output = row.output
    BY <1>1, <1>b, PhaseOf, PhaseOfNext DEF Inserted, AbsentInv
  <2> QED
    BY <1>c, <2>1 DEF Durable!Next, Durable!Submit
<1>2. CASE row'.output = row.output /\ row.status \in Open /\ row'.status \in Open
  <2>1. Phase = "running" /\ Phase' = "running"
    BY <1>2, <1>b, PhaseOf, PhaseOfNext
  <2> QED
    BY <1>2, <1>c, <2>1 DEF DurableVars
<1>3. CASE row'.output = row.output /\ row.status \in Open /\ row'.status = Exceeded
  <2>1. Phase = "running" /\ Phase' = "exhausted"
    BY <1>3, <1>b, PhaseOf, PhaseOfNext
  <2> QED
    BY <1>3, <1>c, <2>1 DEF Durable!Next, Durable!Exhaust
<1>4. CASE /\ row'.output = row.output /\ row.status \in Open \cup {Exceeded}
           /\ row'.status = "CANCELLED"
  <2>1. Phase \in {"running", "exhausted"} /\ Phase' = "cancelled"
    BY <1>4, <1>b, PhaseOf, PhaseOfNext
  <2> QED
    BY <1>4, <1>c, <2>1 DEF Durable!Next, Durable!Cancel
<1> QED
  BY <1>1, <1>2, <1>3, <1>4 DEF Shifted

LEMMA DurableStep ==
  ASSUME SafeInv, SafeInv', AbsentInv, Orderly, [Next]_vars
  PROVE  Durable!Next \/ UNCHANGED DurableVars
<1>a. HistInv /\ TypeInv /\ TypeInv' /\ OutcomeInv /\ OutcomeInv' /\ DistinctStamps
      /\ Orderly' /\ DistinctStamps' /\ InputsOk
  BY DEF SafeInv, HistInv, Orderly, DistinctStamps
<1>b. row.status \in Statuses /\ row'.status \in Statuses
  BY <1>a DEF TypeInv, TypeOK, RowRecords
<1>c. OpsEffect /\ LifeEffect
  BY <1>a, StepEffect, LifeStep DEF Orderly
<1>1. CASE ops' # ops
  BY <1>1, <1>b, <1>c, LogStep DEF LifeEffect
<1>2. CASE ops' = ops /\ Kept
  <2>1. Phase' = Phase
    BY <1>2 DEF Kept, Phase
  <2> QED
    BY <1>2, <2>1 DEF Kept, DurableVars
<1>3. CASE ops' = ops /\ (Inserted \/ Shifted)
  BY <1>3, <1>a, RowMoves
<1>4. CASE ops' = ops /\ Written
  <2>1. CASE row.status \notin Complete
    BY <1>4, <2>1, OutcomeWritten
  <2>2. CASE row.status \in Complete
    <3>1. row'.status \in Complete
      BY <1>4 DEF Written, Complete
    <3>2. row.output = Output(ops) /\ row'.output = Output(ops')
      BY <1>a, <2>2, <3>1 DEF OutcomeInv
    <3>3. Phase = "done" /\ Phase' = "done"
      BY <1>b, <2>2, <3>1, PhaseOf, PhaseOfNext
    <3> QED
      BY <1>4, <3>2, <3>3 DEF DurableVars
  <2> QED
    BY <2>1, <2>2
<1> QED
  BY <1>1, <1>2, <1>3, <1>4, <1>a, <1>c DEF LifeEffect, Rejected

\* The rows of a workflow implement DurableWorkflow, for any number of
\* executors, invocations, steps, crashes and lost acknowledgements, if no two
\* executions complete a step in the same instant, nothing is resumed, and the
\* persisted inputs can be read.
THEOREM Implements ==
  ASSUME Orderly
  PROVE  Spec => ImplementsDurable
<1>1. Init => SafeInv /\ AbsentInv /\ Durable!Init
  <2> SUFFICES ASSUME Init
               PROVE  SafeInv /\ AbsentInv /\ Durable!Init
    OBVIOUS
  <2>1. Phase = "absent"
    BY PhaseOf DEF Init, Statuses
  <2>2. Output(ops) = [s \in Steps |-> None]
    BY DEF Init, Output, Blank
  <2>3. Durable!Init
    BY <2>1, <2>2 DEF Init, Durable!Init, Durable!Steps, Steps, NoOutput
  <2> QED
    BY <2>3, SafeInit DEF Init, AbsentInv
<1>2. SafeInv /\ AbsentInv /\ [Next]_vars => (SafeInv /\ AbsentInv)'
  <2> SUFFICES ASSUME SafeInv, AbsentInv, [Next]_vars
               PROVE  (SafeInv /\ AbsentInv)'
    OBVIOUS
  <2>1. SafeInv' /\ TypeInv /\ TypeInv'
    BY SafeStep DEF SafeInv, HistInv
  <2>2. LifeEffect
    BY <2>1, LifeStep DEF Orderly
  <2> QED
    BY <2>1, <2>2, AbsentStep
<1>3. SafeInv /\ SafeInv' /\ AbsentInv /\ [Next]_vars => [Durable!Next]_DurableVars
  BY DurableStep
<1> QED
  BY <1>1, <1>2, <1>3, PTL DEF Spec, ImplementsDurable, Durable!Spec, DurableVars
-----------------------------------------------------------------------------
(* Who may run a workflow: proofs that in one process at most one          *)
(* invocation that went through ActiveWorkflowById runs the function, that *)
(* the map holds the workflow exactly while it does, and that no workflow  *)
(* that can still be dispatched has used up its recovery attempts.         *)

OneEach ==
    \A c, d \in Calls :
        call[c].owned /\ call[d].owned /\ call[c].exec = call[d].exec => c = d

MapExact == \A e : e \in active <=> \E c \in Calls : call[c].owned /\ call[c].exec = e

LEMMA OwnerForm == SingleOwner <=> OneEach /\ MapExact
<1> DEFINE S == {call[c].exec : c \in {d \in Calls : call[d].owned}}
<1>1. \A e : e \in S <=> \E c \in Calls : call[c].owned /\ call[c].exec = e
  OBVIOUS
<1>2. SingleOwner <=> OneEach /\ active = S
  BY DEF SingleOwner, OneEach
<1> HIDE DEF S
<1> QED
  BY <1>1, <1>2 DEF MapExact

\* An invocation that holds the map entry of its process keeps it, and one
\* that does not gets none.
Same(k, j) == j.owned = k.owned /\ (k.owned => j.exec = k.exec)

\* What a step does to the map entries.
OwnEffect ==
    \/ active' = active /\ \A d \in Calls : Same(call[d], call'[d])
    \/ \E c \in Calls :
         /\ ~call[c].owned /\ call[c].exec \notin active
         /\ call'[c].owned /\ call'[c].exec = call[c].exec
         /\ active' = active \cup {call[c].exec}
         /\ \A d \in Calls : d # c => call'[d] = call[d]
    \/ \E c \in Calls :
         /\ call[c].owned /\ ~call'[c].owned
         /\ active' = active \ {call[c].exec}
         /\ \A d \in Calls : d # c => call'[d] = call[d]
    \/ \E e \in Executors :
         /\ active' = active \ {e}
         /\ \A d \in Calls :
              IF call[d].owned /\ call[d].exec = e THEN ~call'[d].owned
              ELSE Same(call[d], call'[d])

LEMMA EffectKeeps ==
  ASSUME OneEach, MapExact, OwnEffect
  PROVE  OneEach' /\ MapExact'
<1>1. CASE active' = active /\ \A d \in Calls : Same(call[d], call'[d])
  BY <1>1 DEF OneEach, MapExact, Same
<1>2. ASSUME NEW c \in Calls, ~call[c].owned, call[c].exec \notin active,
             call'[c].owned, call'[c].exec = call[c].exec,
             active' = active \cup {call[c].exec},
             \A d \in Calls : d # c => call'[d] = call[d]
      PROVE  OneEach' /\ MapExact'
  BY <1>2 DEF OneEach, MapExact
<1>3. ASSUME NEW c \in Calls, call[c].owned, ~call'[c].owned,
             active' = active \ {call[c].exec},
             \A d \in Calls : d # c => call'[d] = call[d]
      PROVE  OneEach' /\ MapExact'
  BY <1>3 DEF OneEach, MapExact
<1>4. ASSUME NEW e \in Executors, active' = active \ {e},
             \A d \in Calls :
               IF call[d].owned /\ call[d].exec = e THEN ~call'[d].owned
               ELSE Same(call[d], call'[d])
      PROVE  OneEach' /\ MapExact'
  BY <1>4 DEF OneEach, MapExact, Same
<1> QED
  BY <1>1, <1>2, <1>3, <1>4 DEF OwnEffect

LEMMA SetSame ==
  ASSUME TypeOK, NEW c \in Calls, NEW k, Set(c, k) \/ call' = call, Same(call[c], k),
         active' = active
  PROVE  OwnEffect
<1>1. \A d \in Calls : Same(call[d], call'[d])
  BY DEF TypeOK, Set, Same
<1> QED
  BY <1>1 DEF OwnEffect

LEMMA LeftSame ==
  ASSUME NEW k \in CallRecords, NEW i, Same(i, k)
  PROVE  Same(i, Left(k))
<1>1. CASE k.owned
  BY <1>1 DEF Left, Same, CallRecords
<1>2. CASE ~k.owned
  <2>1. Left(k) = Ended(k, "done") /\ k.owned = FALSE
    BY <1>2 DEF Left, CallRecords
  <2>2. Ended(k, "done").owned = FALSE
    BY EndedFields
  <2> QED
    BY <2>1, <2>2 DEF Same
<1> QED
  BY <1>1, <1>2

LEMMA EndedSame ==
  ASSUME NEW k \in CallRecords, NEW pc, ~k.owned
  PROVE  Same(k, Ended(k, pc))
<1>1. k.owned = FALSE
  BY DEF CallRecords
<1> QED
  BY <1>1, EndedFields DEF Same

LEMMA AdvancedSame ==
  ASSUME NEW k \in CallRecords, NEW n
  PROVE  Same(k, Advanced(k, n))
  BY AdvancedFields DEF Same

LEMMA FreshSame ==
  ASSUME NEW k \in CallRecords, ~k.owned, NEW j, j.owned = FALSE
  PROVE  Same(k, j)
<1>1. k.owned = FALSE
  BY DEF CallRecords
<1> QED
  BY <1>1 DEF Same

LEMMA OwnStep == TypeInv /\ [Next]_vars => OwnEffect
<1> SUFFICES ASSUME TypeInv, [Next]_vars
             PROVE  OwnEffect
  OBVIOUS
<1>a. TypeOK /\ ControlInv
  BY DEF TypeInv
<1>b. \A c \in Calls : call[c] \in CallRecords /\ ControlOK(c, call[c])
  BY <1>a DEF TypeOK, ControlInv
<1>c. \A c \in Calls : call[c].owned => call[c].pc \in Running \cup {"await", "release"}
  BY <1>b DEF ControlOK
<1>d. ASSUME NEW c \in Calls, call[c].pc \in {"idle", "snapshot", "dispatched", "init", "acquire"}
      PROVE  ~call[c].owned
  BY <1>c, <1>d DEF Running
<1>e. ASSUME NEW c \in Calls, NEW pc
      PROVE  Same(call[c], [call[c] EXCEPT !.pc = pc])
  BY <1>b DEF Same, CallRecords
<1>1. CASE UNCHANGED vars
  BY <1>1 DEF vars, OwnEffect, Same
<1>2. ASSUME NEW c \in Calls, ReturnToQueue(c)
      PROVE  OwnEffect
  BY <1>2, <1>a, <1>b, <1>d, EndedSame, SetSame DEF ReturnToQueue, LoseAck, At
<1>3. ASSUME NEW c \in Calls, ExecuteById(c)
      PROVE  OwnEffect
  <2>1. Same(call[c], [call[c] EXCEPT !.pc = "init", !.queued = row.queued])
    BY <1>b DEF Same, CallRecords
  <2> QED
    BY <1>3, <1>a, <1>b, <1>d, <2>1, EndedSame, SetSame DEF ExecuteById, At
<1>4. ASSUME NEW c \in Calls, InitWorkflow(c)
      PROVE  OwnEffect
  <2> DEFINE r == Upserted(row, c, call[c])
  <2>1. ~call[c].owned /\ active' = active
    BY <1>4, <1>d DEF InitWorkflow, At
  <2>2. Same(call[c], Ended(call[c], "done"))
    BY <1>b, <2>1, EndedSame
  <2>3. \A p : Same(call[c], [call[c] EXCEPT !.ran = TRUE, !.pc = p])
    BY <1>b DEF Same, CallRecords
  <2>4. \/ Set(c, AfterInit(r, c))
        \/ call' = call
    BY <1>4 DEF InitWorkflow, LoseAck
  <2> HIDE DEF r
  <2>5. \/ AfterInit(r, c) = Ended(call[c], "done")
        \/ \E p : AfterInit(r, c) = [call[c] EXCEPT !.ran = TRUE, !.pc = p]
        \/ AfterInit(r, c) = [call[c] EXCEPT !.pc = "await"]
    BY DEF AfterInit
  <2>6. Same(call[c], AfterInit(r, c))
    BY <1>e, <2>2, <2>3, <2>5
  <2> QED
    BY <1>a, <2>1, <2>4, <2>6, SetSame
<1>5. ASSUME NEW c \in Calls, Acquire(c)
      PROVE  OwnEffect
  <2>1. CASE call[c].exec \in active
    BY <1>5, <1>a, <1>e, <2>1, SetSame DEF Acquire
  <2>2. CASE call[c].exec \notin active
    <3>1. call' = [call EXCEPT ![c] = [call[c] EXCEPT !.pc = "check", !.owned = TRUE]]
          /\ active' = active \cup {call[c].exec} /\ ~call[c].owned
      BY <1>5, <1>d, <2>2 DEF Acquire, Set, At
    <3>2. call'[c] = [call[c] EXCEPT !.pc = "check", !.owned = TRUE]
          /\ \A d \in Calls : d # c => call'[d] = call[d]
      BY <1>a, <3>1 DEF TypeOK
    <3>3. call'[c].owned /\ call'[c].exec = call[c].exec
      BY <1>b, <3>2 DEF CallRecords
    <3> QED
      BY <2>2, <3>1, <3>2, <3>3 DEF OwnEffect
  <2> QED
    BY <2>1, <2>2
<1>6. ASSUME NEW c \in Calls, Release(c)
      PROVE  OwnEffect
  <2>1. call[c].owned /\ active' = active \ {call[c].exec}
    BY <1>6, <1>b DEF Release, ControlOK, At
  <2>2. call'[c] = Ended(call[c], "done") /\ \A d \in Calls : d # c => call'[d] = call[d]
    BY <1>6, <1>a DEF Release, Set, TypeOK
  <2>3. ~call'[c].owned
    BY <1>b, <2>2, EndedFields
  <2> QED
    BY <2>1, <2>2, <2>3 DEF OwnEffect
<1>7. ASSUME NEW c \in Calls, CheckStep(c)
      PROVE  OwnEffect
  <2>1. Same(call[c], call[c])
    BY DEF Same
  <2> QED
    BY <1>7, <1>a, <1>b, <1>e, <2>1, LeftSame, AdvancedSame, SetSame DEF CheckStep
<1>8. ASSUME NEW c \in Calls, NEW v \in Vals, NEW t \in StampsOf[c], RunBody(c, v, t)
      PROVE  OwnEffect
  <2>1. Same(call[c], [call[c] EXCEPT !.pc = "record", !.new = [val |-> v, at |-> t]])
    BY <1>b DEF Same, CallRecords
  <2> QED
    BY <1>8, <1>a, <2>1, SetSame DEF RunBody
<1>9. ASSUME NEW c \in Calls, RecordStep(c)
      PROVE  OwnEffect
  <2>1. Same(call[c], [call[c] EXCEPT !.pc = "await", !.new = Blank])
    BY <1>b DEF Same, CallRecords
  <2>2. Same(call[c], Advanced(call[c], call[c].new))
    BY <1>b, AdvancedSame
  <2>3. active' = active
    BY <1>9 DEF RecordStep
  <2>4. \/ Set(c, [call[c] EXCEPT !.pc = "await", !.new = Blank])
        \/ Set(c, Advanced(call[c], call[c].new))
        \/ call' = call
    BY <1>9 DEF RecordStep, LoseAck
  <2> QED
    BY <1>a, <2>1, <2>2, <2>3, <2>4, SetSame
<1>10. ASSUME NEW c \in Calls, NEW pc, NEW st, NEW out, WriteOutcome(c, pc, st, out),
              out \in Outputs
       PROVE  OwnEffect
  <2>1. [call[c] EXCEPT !.result = out] \in CallRecords
        /\ Same(call[c], [call[c] EXCEPT !.result = out]) /\ Same(call[c], call[c])
    BY <1>10, <1>b DEF Same, CallRecords
  <2>2. /\ Same(call[c], Left([call[c] EXCEPT !.result = out]))
        /\ Same(call[c], Left(call[c]))
    BY <1>b, <2>1, LeftSame
  <2>3. active' = active
    BY <1>10 DEF WriteOutcome
  <2>4. \/ Set(c, [call[c] EXCEPT !.pc = "caught"])
        \/ Set(c, Left(call[c]))
        \/ Set(c, Left([call[c] EXCEPT !.result = out]))
        \/ call' = call
    BY <1>10 DEF WriteOutcome, LoseAck
  <2> QED
    BY <1>a, <1>e, <2>1, <2>2, <2>3, <2>4, SetSame
<1>11. ASSUME NEW c \in Calls, WriteSuccess(c) \/ WriteError(c) \/ WriteCaught(c)
       PROVE  OwnEffect
  <2>1. Output(call[c].seen) \in Outputs /\ [s \in Steps |-> CancelErr] \in Outputs
    BY <1>b, OutputType, CallFields DEF Outputs
  <2> QED
    BY <1>10, <1>11, <2>1 DEF WriteSuccess, WriteError, WriteCaught
<1>12. ASSUME NEW c \in Calls, AwaitResult(c)
       PROVE  OwnEffect
  <2>1. /\ [call[c] EXCEPT !.result = row.output] \in CallRecords
        /\ Same(call[c], [call[c] EXCEPT !.result = row.output]) /\ Same(call[c], call[c])
    BY <1>a, <1>b DEF Same, CallRecords, TypeOK, RowRecords
  <2>2. /\ Same(call[c], Left([call[c] EXCEPT !.result = row.output]))
        /\ Same(call[c], Left(call[c]))
    BY <1>b, <2>1, LeftSame
  <2> QED
    BY <1>12, <1>a, <2>2, SetSame DEF AwaitResult
<1>13. ASSUME NEW c \in Clients, NEW e \in Executors, NEW kind \in Kinds, Request(c, e, kind)
       PROVE  OwnEffect
  <2>1. c \in Calls /\ ~call[c].owned
    BY <1>13, <1>d DEF Request, Unused, Calls
  <2>2. [NoCall EXCEPT !.pc = "init", !.kind = kind, !.exec = e].owned = FALSE
    BY DEF NoCall
  <2> QED
    BY <1>13, <1>a, <1>b, <2>1, <2>2, FreshSame, SetSame DEF Request
<1>14. ASSUME NEW c \in Dispatches, NEW e \in Executors, Dequeue(c, e)
       PROVE  OwnEffect
  <2>1. c \in Calls /\ ~call[c].owned
    BY <1>14, <1>d DEF Dequeue, Unused, Calls
  <2>2. [NoCall EXCEPT !.pc = "dispatched", !.kind = "dequeue", !.exec = e].owned = FALSE
    BY DEF NoCall
  <2> QED
    BY <1>14, <1>a, <1>b, <2>1, <2>2, FreshSame, SetSame DEF Dequeue
<1>15. ASSUME NEW c \in Dispatches, NEW e \in Executors, Unused(c), Snapshot(c, e),
              active' = active
       PROVE  OwnEffect
  <2>1. c \in Calls /\ ~call[c].owned
    BY <1>15, <1>d DEF Unused, Calls
  <2>2. [NoCall EXCEPT !.pc = "snapshot", !.kind = "recover", !.exec = e,
                       !.queued = row.queued].owned = FALSE
    BY DEF NoCall
  <2> QED
    BY <1>15, <1>a, <1>b, <2>1, <2>2, FreshSame, SetSame DEF Snapshot
<1>16. ASSUME NEW c \in Dispatches, NEW e \in Executors, NEW x \in Executors,
              RecoverPending(c, e, x)
       PROVE  OwnEffect
  BY <1>15, <1>16 DEF RecoverPending
<1>17. ASSUME call' = call, active' = active
       PROVE  OwnEffect
  BY <1>17 DEF OwnEffect, Same
<1>18. ASSUME NEW e \in Executors, DequeueUnacknowledged(e) \/ Restart(e)
       PROVE  OwnEffect
  BY <1>15, <1>17, <1>18 DEF DequeueUnacknowledged, LoseAck, Restart
<1>19. ASSUME NEW e \in Executors, Crash(e)
       PROVE  OwnEffect
  <2>1. active' = active \ {e}
    BY <1>19 DEF Crash
  <2>2. ASSUME NEW d \in Calls
        PROVE  IF call[d].owned /\ call[d].exec = e THEN ~call'[d].owned
               ELSE Same(call[d], call'[d])
    <3>1. call'[d] = IF call[d].exec = e /\ Live(call[d])
                       THEN Ended(call[d], "dead") ELSE call[d]
      BY <1>19 DEF Crash
    <3>2. call[d].owned => Live(call[d])
      BY <1>c DEF Live, Running
    <3>3. Ended(call[d], "dead").owned = FALSE
      BY DEF Ended, NoCall
    <3>4. call[d].owned \in BOOLEAN
      BY <1>b, CallFields
    <3>5. CASE call[d].owned /\ call[d].exec = e
      BY <3>1, <3>2, <3>3, <3>5
    <3>6. CASE ~(call[d].owned /\ call[d].exec = e)
      BY <3>1, <3>3, <3>4, <3>6 DEF Same
    <3> QED
      BY <3>5, <3>6
  <2> QED
    BY <2>1, <2>2 DEF OwnEffect
<1>20. CASE Cancel \/ Resume
  BY <1>17, <1>20 DEF Cancel, Resume
<1> QED
  BY <1>1, <1>2, <1>3, <1>4, <1>5, <1>6, <1>7, <1>8, <1>9, <1>11, <1>12, <1>13,
     <1>14, <1>16, <1>18, <1>19, <1>20 DEF Next, Run

OwnInv == TypeInv /\ OneEach /\ MapExact

\* In one process at most one invocation that went through the map of active
\* workflows runs the function, and the map holds the workflow exactly while
\* it does, through crashes and restarts (_execute_workflow_wthread).
THEOREM OneOwner == Spec => []SingleOwner
<1>1. Init => OwnInv
  <2> SUFFICES ASSUME Init
               PROVE  OwnInv
    OBVIOUS
  <2>1. \A c \in Calls : call[c].owned = FALSE
    BY DEF Init, NoCall
  <2> QED
    BY <2>1, InitType DEF Init, OwnInv, OneEach, MapExact
<1>2. OwnInv /\ [Next]_vars => OwnInv'
  BY StepType, OwnStep, EffectKeeps DEF OwnInv
<1>3. OwnInv => SingleOwner
  BY OwnerForm DEF OwnInv
<1> QED
  BY <1>1, <1>2, <1>3, PTL DEF Spec

-----------------------------------------------------------------------------
(* Recovery attempts.                                                      *)

LEMMA UpsertBounded ==
  ASSUME NEW r \in RowRecords, NEW c \in Calls, NEW k \in CallRecords,
         Forced(k) => c \in Dispatches, r.status = "ABSENT" => ~Forced(k),
         r.status \in {"PENDING", "ENQUEUED"} => r.attempts <= MaxAttempts + 1,
         NEW q, q = DeadLettered(Upserted(r, c, k), c),
         q.status \in {"PENDING", "ENQUEUED"}
  PROVE  q.attempts <= MaxAttempts + 1
<1>a. MaxAttempts \in Nat /\ r.attempts \in Nat /\ r.owner \in Clients \cup {None}
  BY ConstantsAssumption DEF RowRecords
<1> DEFINE u == Upserted(r, c, k)
<1>1. CASE r.status = "ABSENT"
  <2>1. u.attempts \in {0, 1} /\ q = u
    BY <1>1, <1>a DEF Upserted, DeadLettered, Exhausted
  <2> QED
    BY <1>a, <2>1
<1>2. CASE r.status # "ABSENT"
  <2>1. u = [r EXCEPT !.attempts = IF r.status # "ENQUEUED" /\ Forced(k)
                                     THEN r.attempts + 1 ELSE r.attempts,
                      !.exec = IF RequestsQueue(k) THEN r.exec ELSE k.exec]
    BY <1>2 DEF Upserted, RowRecords
  <2>2. /\ u.status = r.status /\ u.owner = r.owner
        /\ u.attempts = IF r.status # "ENQUEUED" /\ Forced(k)
                          THEN r.attempts + 1 ELSE r.attempts
    BY <2>1 DEF RowRecords
  <2>3. DOMAIN u = DOMAIN r
    BY <2>1 DEF RowRecords
  <2> HIDE DEF u
  <2>4. q = u
    <3>1. CASE Exhausted(u, c) /\ u.status = "PENDING"
      <4>1. q = [u EXCEPT !.status = "MAX_RECOVERY_ATTEMPTS_EXCEEDED", !.queued = FALSE]
        BY <3>1 DEF DeadLettered, u
      <4>2. q.status = "MAX_RECOVERY_ATTEMPTS_EXCEEDED"
        BY <2>3, <4>1 DEF RowRecords
      <4> QED
        BY <4>2
    <3>2. CASE ~(Exhausted(u, c) /\ u.status = "PENDING")
      BY <3>2 DEF DeadLettered, u
    <3> QED
      BY <3>1, <3>2
  <2>5. CASE r.status = "PENDING" /\ Forced(k)
    <3>1. u.owner # c
      BY <1>a, <2>2, <2>5, ConstantsAssumption DEF Calls
    <3>2. ~Exhausted(u, c)
      <4>1. ~(Exhausted(u, c) /\ u.status = "PENDING")
        <5>1. ASSUME Exhausted(u, c) /\ u.status = "PENDING"
              PROVE  FALSE
          <6>1. u = [u EXCEPT !.status = "MAX_RECOVERY_ATTEMPTS_EXCEEDED", !.queued = FALSE]
            BY <2>4, <5>1 DEF DeadLettered, u
          <6>2. u.status = "MAX_RECOVERY_ATTEMPTS_EXCEEDED"
            BY <2>3, <6>1 DEF RowRecords
          <6> QED
            BY <5>1, <6>2
        <5> QED
          BY <5>1
      <4> QED
        BY <2>2, <2>5, <4>1
    <3> QED
      BY <1>a, <2>2, <2>4, <2>5, <3>1, <3>2 DEF Exhausted, Complete
  <2>6. CASE ~(r.status = "PENDING" /\ Forced(k))
    BY <1>a, <2>2, <2>4, <2>6
  <2> QED
    BY <2>5, <2>6
<1> QED
  BY <1>1, <1>2

LEMMA AttemptsStep ==
  ASSUME TypeInv, AttemptsBounded, [Next]_vars
  PROVE  AttemptsBounded'
<1>a. row \in RowRecords /\ \A c \in Calls : call[c] \in CallRecords /\ ControlOK(c, call[c])
  BY DEF TypeInv, TypeOK, ControlInv
<1>b. MaxAttempts \in Nat
  BY ConstantsAssumption
\* The row stays open only if it was open, with as many attempts.
<1>c. ASSUME row'.status \in {"PENDING", "ENQUEUED"} =>
               row'.attempts = 0 \/ (row.status \in {"PENDING", "ENQUEUED"}
                                     /\ row'.attempts = row.attempts)
      PROVE  AttemptsBounded'
  BY <1>b, <1>c DEF AttemptsBounded
<1>1. CASE UNCHANGED vars
  BY <1>1, <1>c DEF vars
<1>2. ASSUME NEW c \in Calls, Acquire(c) \/ Release(c) \/ CheckStep(c) \/ AwaitResult(c)
      PROVE  AttemptsBounded'
  BY <1>2, <1>c DEF Acquire, Release, CheckStep, AwaitResult
<1>3. ASSUME NEW c \in Calls, NEW v \in Vals, NEW t \in StampsOf[c], RunBody(c, v, t)
      PROVE  AttemptsBounded'
  BY <1>3, <1>c DEF RunBody
<1>4. ASSUME NEW c \in Calls, ReturnToQueue(c)
      PROVE  AttemptsBounded'
  BY <1>4, <1>a, <1>c DEF ReturnToQueue, Requeued, RowRecords
<1>5. ASSUME NEW out, NEW st \in Complete, row' = row \/ row' = Finalized(row, st, out)
      PROVE  AttemptsBounded'
  BY <1>5, <1>a, <1>c DEF Finalized, RowRecords, Complete
<1>6. ASSUME NEW c \in Calls, ExecuteById(c)
      PROVE  AttemptsBounded'
  BY <1>5, <1>6 DEF ExecuteById, Complete
<1>7. ASSUME NEW c \in Calls, InitWorkflow(c)
      PROVE  AttemptsBounded'
  <2>1. row' = DeadLettered(Upserted(row, c, call[c]), c)
    BY <1>7 DEF InitWorkflow
  <2>2. /\ Forced(call[c]) => c \in Dispatches
        /\ row.status = "ABSENT" => ~Forced(call[c])
    BY <1>a DEF ControlOK, TypeInv, PresenceInv
  <2>3. row'.status \in {"PENDING", "ENQUEUED"} => row'.attempts <= MaxAttempts + 1
    BY <1>a, <2>1, <2>2, UpsertBounded DEF AttemptsBounded
  <2> QED
    BY <2>3 DEF AttemptsBounded
<1>8. ASSUME NEW c \in Calls, RecordStep(c)
      PROVE  AttemptsBounded'
  <2>1. row' = row \/ row' = [row EXCEPT !.exec = call[c].exec]
    BY <1>8 DEF RecordStep
  <2> QED
    BY <1>a, <1>c, <2>1 DEF RowRecords
<1>9. ASSUME NEW c \in Calls, WriteSuccess(c) \/ WriteError(c) \/ WriteCaught(c)
      PROVE  AttemptsBounded'
  BY <1>5, <1>9 DEF WriteSuccess, WriteError, WriteCaught, WriteOutcome, Complete
<1>10. ASSUME NEW c \in Clients, NEW e \in Executors, NEW kind \in Kinds, Request(c, e, kind)
       PROVE  AttemptsBounded'
  BY <1>10, <1>c DEF Request
<1>11. ASSUME NEW c \in Dispatches, NEW e \in Executors, Dequeue(c, e)
       PROVE  AttemptsBounded'
  BY <1>11, <1>a, <1>c DEF Dequeue, RowRecords
<1>12. ASSUME NEW c \in Dispatches, NEW e \in Executors, NEW x \in Executors,
              RecoverPending(c, e, x)
       PROVE  AttemptsBounded'
  BY <1>12, <1>c DEF RecoverPending
<1>13. ASSUME NEW e \in Executors, DequeueUnacknowledged(e)
       PROVE  AttemptsBounded'
  BY <1>13, <1>a, <1>c DEF DequeueUnacknowledged, RowRecords
<1>14. ASSUME NEW e \in Executors, Crash(e) \/ Restart(e)
       PROVE  AttemptsBounded'
  BY <1>14, <1>c DEF Crash, Restart
<1>15. CASE Cancel
  BY <1>15, <1>a, <1>c DEF Cancel, Cancelled, RowRecords, Complete
<1>16. CASE Resume
  BY <1>16, <1>a, <1>c DEF Resume, Resumed, RowRecords, Complete
<1> QED
  BY <1>1, <1>2, <1>3, <1>4, <1>6, <1>7, <1>8, <1>9, <1>10, <1>11, <1>12, <1>13,
     <1>14, <1>15, <1>16 DEF Next, Run

\* A workflow that can still be dispatched has attempts left, however often its
\* upsert was retried: the dead-letter test of _insert_workflow_status leaves
\* no exhausted row PENDING or ENQUEUED.
THEOREM AttemptsLeft == Spec => []AttemptsBounded
<1>1. Init => TypeInv /\ AttemptsBounded
  BY InitType DEF Init, AttemptsBounded
<1>2. TypeInv /\ AttemptsBounded /\ [Next]_vars => (TypeInv /\ AttemptsBounded)'
  BY StepType, AttemptsStep
<1> QED
  BY <1>1, <1>2, PTL DEF Spec

=============================================================================

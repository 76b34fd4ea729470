------------------------ MODULE WorkflowAttemptsProofs ----------------------
(***************************************************************************)
(* Proofs, for every number of executors, invocations and steps, that a    *)
(* workflow is executed no more often than its recovery attempts, its      *)
(* returns to the queue and the lost executors account for.                *)
(***************************************************************************)
EXTENDS WorkflowExecutionProofs, FiniteSetTheorems

-----------------------------------------------------------------------------
(* How often a workflow is executed.                                       *)

\* What a step leaves as it was of an invocation, as far as counting goes.
Quiet(k, j) ==
    /\ j.kind = k.kind /\ j.ran = k.ran
    /\ k.pc = "done" => j.pc = "done"
    /\ k.pc # "idle" => j.pc # "idle"
    /\ j.queued => k.queued \/ k.pc \in {"dispatched", "snapshot"}
    /\ j.pc = "dispatched" => k.pc = "dispatched"
    /\ j.pc = "snapshot" => k.pc = "snapshot" /\ j.queued = k.queued
    /\ j.pc = "init" => \/ k.pc \in {"init", "dispatched"}
                        \/ k.pc = "snapshot" /\ ~k.queued

QuietRow ==
    /\ row'.attempts = row.attempts /\ row'.owner = row.owner
    /\ row'.status = "ENQUEUED" => row.status = "ENQUEUED" /\ row'.queued = row.queued
    /\ row'.queued => row.queued
    /\ row'.status = "ABSENT" <=> row.status = "ABSENT"

QuietStep ==
    /\ QuietRow
    /\ \A d \in Calls : Quiet(call[d], call'[d])
    /\ lost' \in {lost, lost + 1}

\* A new invocation c.
Fresh(c) ==
    /\ call[c].pc = "idle" /\ call'[c].ran = FALSE
    /\ \A d \in Calls \ {c} : call'[d] = call[d]
    /\ lost' = lost

Requested(c) ==
    /\ Fresh(c) /\ row' = row /\ c \in Clients
    /\ call'[c].pc = "init" /\ call'[c].kind \in {"start", "call", "enqueue"}
    /\ call'[c].queued = FALSE

Dequeued(c) ==
    /\ Fresh(c) /\ c \in Dispatches
    /\ row.status = "ENQUEUED" /\ row'.status = "PENDING"
    /\ row'.attempts = row.attempts /\ row'.owner = row.owner
    /\ row'.queued = row.queued
    /\ call'[c].pc = "dispatched" /\ call'[c].kind = "dequeue"

Listed(c) ==
    /\ Fresh(c) /\ row' = row /\ c \in Dispatches
    /\ row.status = "PENDING"
    /\ call'[c].pc = "snapshot" /\ call'[c].kind = "recover"
    /\ call'[c].queued = row.queued

LEMMA SetQuiet ==
  ASSUME call \in [Calls -> CallRecords], NEW c \in Calls, NEW j,
         Set(c, j), Quiet(call[c], j)
  PROVE  \A d \in Calls : Quiet(call[d], call'[d])
  BY DEF Set, Quiet

LEMMA EndedQuiet ==
  ASSUME NEW k \in CallRecords, NEW pc \in {"done", "dead"}, k.pc # "done"
  PROVE  Quiet(k, Ended(k, pc))
<1>1. Ended(k, pc).pc = pc /\ Ended(k, pc).kind = k.kind /\ Ended(k, pc).ran = k.ran
  BY EndedFields
<1>2. Ended(k, pc).queued = FALSE
  BY DEF Ended, NoCall
<1> QED
  BY <1>1, <1>2 DEF Quiet

LEMMA UpdQuiet ==
  ASSUME NEW k \in CallRecords, NEW p, NEW o, NEW n, NEW r,
         p \notin {"idle", "dispatched", "snapshot", "init"}, k.pc # "done"
  PROVE  Quiet(k, Upd(k, p, k.queued, k.ran, o, n, r))
<1> DEFINE j == Upd(k, p, k.queued, k.ran, o, n, r)
<1>1. j.pc = p /\ j.kind = k.kind /\ j.ran = k.ran /\ j.queued = k.queued
  BY UpdFields
<1> HIDE DEF j
<1> QED
  BY <1>1 DEF Quiet, j

LEMMA LeftQuiet ==
  ASSUME NEW k \in CallRecords, k.pc # "done"
  PROVE  Quiet(k, Left(k))
<1>1. [k EXCEPT !.pc = "release"]
        = Upd(k, "release", k.queued, k.ran, k.owned, k.new, k.result)
  BY UpdForms, ZenonT(60)
<1> QED
  BY <1>1, EndedQuiet, UpdQuiet DEF Left

\* A call that is given a result stays where it was.
AsBefore(k, j) ==
    j.pc = k.pc /\ j.kind = k.kind /\ j.ran = k.ran /\ j.queued = k.queued

LEMMA ResultKeeps ==
  ASSUME NEW k \in CallRecords, NEW r
  PROVE  AsBefore(k, Upd(k, k.pc, k.queued, k.ran, k.owned, k.new, r))
  BY UpdFields DEF AsBefore

LEMMA ResultQuiet ==
  ASSUME NEW k \in CallRecords, k.pc # "done", NEW out \in Outputs
  PROVE  Quiet(k, Left([k EXCEPT !.result = out]))
<1> DEFINE j == Upd(k, k.pc, k.queued, k.ran, k.owned, k.new, out)
<1>1. [k EXCEPT !.result = out] = j
  BY UpdForms, ZenonT(60)
<1>2. j \in CallRecords
  BY CallFields, UpdType, SMTT(60)
<1>a. AsBefore(k, j)
  BY ResultKeeps
<1> HIDE DEF j
<1>3. j.pc = k.pc /\ j.kind = k.kind /\ j.ran = k.ran /\ j.queued = k.queued
  BY <1>a DEF AsBefore
<1>4. Left(j).pc \in {"release", "done"} /\ Quiet(j, Left(j))
  <2>1. Ended(j, "done").pc = "done"
    BY <1>2, EndedFields
  <2>2. [j EXCEPT !.pc = "release"].pc = "release"
    BY <1>2 DEF CallRecords
  <2> QED
    BY <1>2, <1>3, <2>1, <2>2, LeftQuiet DEF Left
<1> QED
  BY <1>1, <1>3, <1>4 DEF Quiet

LEMMA AdvancedQuiet ==
  ASSUME NEW k \in CallRecords, NEW n, k.pc # "done"
  PROVE  Quiet(k, Advanced(k, n))
<1> DEFINE j == Advanced(k, n)
<1>1. j.kind = k.kind /\ j.ran = k.ran /\ j.pc \in {"error", "outcome", "check"}
  BY AdvancedFields
<1>2. j.queued = k.queued
  BY DEF Advanced, CallRecords
<1> HIDE DEF j
<1> QED
  BY <1>1, <1>2 DEF Quiet, j

\* Every step is quiet, starts an invocation, returns the workflow to its
\* queue, is an upsert, or resumes the workflow.
Tally ==
    \/ QuietStep
    \/ \E c \in Calls : \/ Requested(c) \/ Dequeued(c) \/ Listed(c)
                        \/ ReturnToQueue(c) \/ InitWorkflow(c)
    \/ Resume

LEMMA TallyStep ==
  ASSUME TypeInv, [Next]_vars
  PROVE  Tally
<1>a. /\ call \in [Calls -> CallRecords] /\ row \in RowRecords
      /\ lost \in Nat
  BY ConstantsAssumption DEF TypeInv, TypeOK
<1>b. \A c \in Calls : call[c] \in CallRecords /\ ControlOK(c, call[c])
  BY DEF TypeInv, TypeOK, ControlInv
<1>c. \A c \in Calls : Quiet(call[c], call[c])
  BY DEF Quiet
\* A step that replaces one record, or none, and leaves the row as quiet.
<1>d. ASSUME NEW c \in Calls, NEW j, QuietRow, lost' \in {lost, lost + 1},
             call' = call \/ (Set(c, j) /\ Quiet(call[c], j))
      PROVE  Tally
  <2>1. \A d \in Calls : Quiet(call[d], call'[d])
    BY <1>a, <1>c, <1>d, SetQuiet
  <2> QED
    BY <1>d, <2>1 DEF Tally, QuietStep
<1>e. ASSUME row' = row
      PROVE  QuietRow
  BY <1>a, <1>e DEF QuietRow, RowRecords
<1>f. ASSUME NEW st \in Complete, NEW out, row' = row \/ row' = Finalized(row, st, out)
      PROVE  QuietRow
  BY <1>a, <1>f DEF QuietRow, Finalized, RowRecords, Complete
<1>1. CASE UNCHANGED vars
  BY <1>1, <1>c, <1>e DEF vars, Tally, QuietStep
<1>2. ASSUME NEW c \in Calls, Acquire(c)
      PROVE  Tally
  <2> DEFINE k == call[c]
  <2>1. k \in CallRecords /\ k.pc = "acquire" /\ row' = row /\ lost' = lost
    BY <1>2, <1>b DEF Acquire, At
  <2>2. \/ Set(c, [k EXCEPT !.pc = "await"])
        \/ Set(c, [k EXCEPT !.pc = "check", !.owned = TRUE])
    BY <1>2 DEF Acquire
  <2> HIDE DEF k
  <2>3. /\ [k EXCEPT !.pc = "await"]
             = Upd(k, "await", k.queued, k.ran, k.owned, k.new, k.result)
        /\ [k EXCEPT !.pc = "check", !.owned = TRUE]
             = Upd(k, "check", k.queued, k.ran, TRUE, k.new, k.result)
    BY <2>1, UpdForms, ZenonT(60)
  <2>4. Quiet(k, [k EXCEPT !.pc = "await"])
    BY <2>1, <2>3, UpdQuiet
  <2>5. Quiet(k, [k EXCEPT !.pc = "check", !.owned = TRUE])
    <3>1. Quiet(k, Upd(k, "check", k.queued, k.ran, TRUE, k.new, k.result))
      <4>1. "check" \notin {"idle", "dispatched", "snapshot", "init"} /\ k.pc # "done"
        BY <2>1
      <4> QED
        BY <2>1, <4>1, UpdQuiet, ZenonT(60)
    <3> QED
      BY <2>3, <3>1
  <2> QED
    BY <1>d, <1>e, <2>1, <2>2, <2>4, <2>5 DEF k
<1>3. ASSUME NEW c \in Calls, Release(c)
      PROVE  Tally
  <2>1. Quiet(call[c], Ended(call[c], "done"))
    BY <1>3, <1>b, EndedQuiet DEF Release, At
  <2> QED
    BY <1>3, <1>d, <1>e, <2>1 DEF Release
<1>4. ASSUME NEW c \in Calls, CheckStep(c)
      PROVE  Tally
  <2> DEFINE k == call[c]
  <2>1. k \in CallRecords /\ k.pc = "check" /\ row' = row /\ lost' = lost
    BY <1>4, <1>b DEF CheckStep, At
  <2>2. \/ Set(c, Left(k))
        \/ Set(c, Advanced(k, ops[k.step]))
        \/ Set(c, [k EXCEPT !.pc = "body"])
    BY <1>4 DEF CheckStep
  <2> HIDE DEF k
  <2>3. [k EXCEPT !.pc = "body"]
          = Upd(k, "body", k.queued, k.ran, k.owned, k.new, k.result)
    BY <2>1, UpdForms, ZenonT(60)
  <2>4. /\ Quiet(k, Left(k)) /\ Quiet(k, Advanced(k, ops[k.step]))
        /\ Quiet(k, [k EXCEPT !.pc = "body"])
    BY <2>1, <2>3, UpdQuiet, LeftQuiet, AdvancedQuiet
  <2> QED
    BY <1>d, <1>e, <2>1, <2>2, <2>4 DEF k
<1>5. ASSUME NEW c \in Calls, NEW v \in Vals, NEW s \in StampsOf[c], RunBody(c, v, s)
      PROVE  Tally
  <2> DEFINE k == call[c]
             n == [val |-> v, at |-> s]
  <2>1. k \in CallRecords /\ k.pc = "body" /\ row' = row /\ lost' = lost
    BY <1>5, <1>b DEF RunBody, At
  <2>2. Set(c, [k EXCEPT !.pc = "record", !.new = n])
    BY <1>5 DEF RunBody
  <2> HIDE DEF k, n
  <2>3. [k EXCEPT !.pc = "record", !.new = n]
          = Upd(k, "record", k.queued, k.ran, k.owned, n, k.result)
    BY <2>1, UpdForms, ZenonT(60)
  <2>4. Quiet(k, [k EXCEPT !.pc = "record", !.new = n])
    BY <2>1, <2>3, UpdQuiet
  <2> QED
    BY <1>d, <1>e, <2>1, <2>2, <2>4 DEF k
<1>6. ASSUME NEW c \in Calls, RecordStep(c)
      PROVE  Tally
  <2> DEFINE k == call[c]
  <2>1. k \in CallRecords /\ k.pc = "record" /\ lost' \in {lost, lost + 1}
    BY <1>6, <1>b DEF RecordStep, At, LoseAck
  <2>2. \/ Set(c, [k EXCEPT !.pc = "await", !.new = Blank])
        \/ Set(c, Advanced(k, k.new))
        \/ call' = call
    BY <1>6 DEF RecordStep, LoseAck
  <2>3. row' = row \/ row' = [row EXCEPT !.exec = k.exec]
    BY <1>6 DEF RecordStep
  <2>4. QuietRow
    BY <1>a, <2>3 DEF QuietRow, RowRecords
  <2> HIDE DEF k
  <2>5. [k EXCEPT !.pc = "await", !.new = Blank]
          = Upd(k, "await", k.queued, k.ran, k.owned, Blank, k.result)
    BY <2>1, UpdForms, ZenonT(60)
  <2>6. /\ Quiet(k, [k EXCEPT !.pc = "await", !.new = Blank])
        /\ Quiet(k, Advanced(k, k.new))
    BY <2>1, <2>5, UpdQuiet, AdvancedQuiet
  <2> QED
    BY <1>d, <2>1, <2>2, <2>4, <2>6 DEF k
<1>7. ASSUME NEW c \in Calls, NEW pc \in {"outcome", "error", "caught"},
             NEW st \in Complete, NEW out \in Outputs, WriteOutcome(c, pc, st, out)
      PROVE  Tally
  <2> DEFINE k == call[c]
  <2>1. k \in CallRecords /\ k.pc = pc /\ lost' \in {lost, lost + 1}
    BY <1>7, <1>b DEF WriteOutcome, At, LoseAck
  <2>2. \/ Set(c, [k EXCEPT !.pc = "caught"])
        \/ Set(c, Left(k))
        \/ Set(c, Left([k EXCEPT !.result = out]))
        \/ call' = call
    BY <1>7 DEF WriteOutcome, LoseAck
  <2>3. QuietRow
    BY <1>7, <1>f DEF WriteOutcome
  <2> HIDE DEF k
  <2>4. [k EXCEPT !.pc = "caught"]
          = Upd(k, "caught", k.queued, k.ran, k.owned, k.new, k.result)
    BY <2>1, UpdForms, ZenonT(60)
  <2>5. /\ Quiet(k, [k EXCEPT !.pc = "caught"]) /\ Quiet(k, Left(k))
        /\ Quiet(k, Left([k EXCEPT !.result = out]))
    BY <2>1, <2>4, UpdQuiet, LeftQuiet, ResultQuiet
  <2> QED
    BY <1>d, <2>1, <2>2, <2>3, <2>5 DEF k
<1>8. ASSUME NEW c \in Calls, WriteSuccess(c) \/ WriteError(c) \/ WriteCaught(c)
      PROVE  Tally
  <2>1. Output(call[c].seen) \in Outputs
    BY <1>b, OutputType, CallFields
  <2>2. [s \in Steps |-> CancelErr] \in Outputs
    BY DEF Outputs
  <2>3. "SUCCESS" \in Complete /\ "ERROR" \in Complete
    BY DEF Complete
  <2> QED
    BY <1>8, <1>7, <2>1, <2>2, <2>3 DEF WriteSuccess, WriteError, WriteCaught
<1>9. ASSUME NEW c \in Calls, AwaitResult(c)
      PROVE  Tally
  <2> DEFINE k == call[c]
  <2>1. k \in CallRecords /\ k.pc = "await" /\ row' = row /\ lost' = lost
    BY <1>9, <1>b DEF AwaitResult, At
  <2>2. Set(c, Left(k)) \/ Set(c, Left([k EXCEPT !.result = row.output]))
    BY <1>9 DEF AwaitResult
  <2>3. row.output \in Outputs
    BY <1>a DEF RowRecords
  <2> HIDE DEF k
  <2>4. Quiet(k, Left(k)) /\ Quiet(k, Left([k EXCEPT !.result = row.output]))
    BY <2>1, <2>3, LeftQuiet, ResultQuiet
  <2> QED
    BY <1>d, <1>e, <2>1, <2>2, <2>4 DEF k
<1>10. ASSUME NEW c \in Calls, ExecuteById(c)
       PROVE  Tally
  <2> DEFINE k == call[c]
             j == Upd(k, "init", row.queued, k.ran, k.owned, k.new, k.result)
  <2>1. /\ k \in CallRecords /\ lost' = lost
        /\ k.pc = "dispatched" \/ (k.pc = "snapshot" /\ ~k.queued)
    BY <1>10, <1>b DEF ExecuteById, At
  <2>2. \/ Set(c, [k EXCEPT !.pc = "init", !.queued = row.queued]) /\ row' = row
        \/ /\ Set(c, Ended(k, "done"))
           /\ row' = Finalized(row, "ERROR", NoOutput)
    BY <1>10 DEF ExecuteById
  <2>3. QuietRow
    BY <1>f, <2>2 DEF Complete
  <2> HIDE DEF k
  <2>4. [k EXCEPT !.pc = "init", !.queued = row.queued] = j
    BY <2>1, UpdForms, ZenonT(60)
  <2>5. j.pc = "init" /\ j.kind = k.kind /\ j.ran = k.ran
    BY <2>1, UpdFields
  <2> HIDE DEF j
  <2>6. Quiet(k, j) /\ Quiet(k, Ended(k, "done"))
    BY <2>1, <2>5, EndedQuiet DEF Quiet
  <2> QED
    BY <1>d, <2>1, <2>2, <2>3, <2>4, <2>6 DEF k
\* A new record kn for an unused invocation.
<1>g. ASSUME NEW c \in Calls, NEW kn, Unused(c), Set(c, kn), kn.ran = FALSE, lost' = lost
      PROVE  Fresh(c) /\ call'[c] = kn
  BY <1>a, <1>g DEF Fresh, Set, Unused
<1>11. ASSUME NEW c \in Clients, NEW e \in Executors, NEW kind \in Kinds, Request(c, e, kind)
       PROVE  Tally
  <2> DEFINE kn == [NoCall EXCEPT !.pc = "init", !.kind = kind, !.exec = e]
  <2>1. kn.pc = "init" /\ kn.kind = kind /\ kn.ran = FALSE /\ kn.queued = FALSE
    BY DEF NoCall
  <2>2. c \in Calls
    BY DEF Calls
  <2>3. /\ Unused(c) /\ Set(c, kn) /\ lost' = lost /\ row' = row
        /\ kind \in {"start", "call", "enqueue"}
    BY <1>11 DEF Request
  <2> HIDE DEF kn
  <2>4. Requested(c)
    BY <1>g, <2>1, <2>2, <2>3 DEF Requested
  <2> QED
    BY <2>2, <2>4 DEF Tally
<1>12. ASSUME NEW c \in Dispatches, NEW e \in Executors, Dequeue(c, e)
       PROVE  Tally
  <2> DEFINE kn == [NoCall EXCEPT !.pc = "dispatched", !.kind = "dequeue", !.exec = e]
  <2>1. kn.pc = "dispatched" /\ kn.kind = "dequeue" /\ kn.ran = FALSE
    BY DEF NoCall
  <2>2. c \in Calls
    BY DEF Calls
  <2>3. /\ Unused(c) /\ Set(c, kn) /\ lost' = lost /\ row.status = "ENQUEUED"
        /\ row' = [row EXCEPT !.status = "PENDING", !.exec = e]
    BY <1>12 DEF Dequeue
  <2> HIDE DEF kn
  <2>4. /\ row'.status = "PENDING" /\ row'.attempts = row.attempts
        /\ row'.owner = row.owner /\ row'.queued = row.queued
    BY <1>a, <2>3 DEF RowRecords
  <2>5. Dequeued(c)
    BY <1>g, <2>1, <2>2, <2>3, <2>4 DEF Dequeued
  <2> QED
    BY <2>2, <2>5 DEF Tally
<1>13. ASSUME NEW c \in Dispatches, NEW e \in Executors, Unused(c), Snapshot(c, e),
              row' = row, lost' = lost, row.status = "PENDING"
       PROVE  Tally
  <2> DEFINE kn == [NoCall EXCEPT !.pc = "snapshot", !.kind = "recover",
                                  !.exec = e, !.queued = row.queued]
  <2>1. /\ kn.pc = "snapshot" /\ kn.kind = "recover" /\ kn.ran = FALSE
        /\ kn.queued = row.queued
    BY DEF NoCall
  <2>2. c \in Calls
    BY DEF Calls
  <2>3. Set(c, kn)
    BY <1>13 DEF Snapshot
  <2> HIDE DEF kn
  <2>4. Listed(c)
    BY <1>13, <1>g, <2>1, <2>2, <2>3 DEF Listed
  <2> QED
    BY <2>2, <2>4 DEF Tally
<1>14. ASSUME NEW c \in Dispatches, NEW e \in Executors, NEW x \in Executors,
              RecoverPending(c, e, x)
       PROVE  Tally
  BY <1>13, <1>14 DEF RecoverPending, ListedAsPending
<1>15. ASSUME NEW e \in Executors, DequeueUnacknowledged(e)
       PROVE  Tally
  <2>1. /\ call' = call /\ lost' = lost + 1 /\ row.status = "ENQUEUED"
        /\ row' = [row EXCEPT !.status = "PENDING", !.exec = e]
    BY <1>15 DEF DequeueUnacknowledged, LoseAck
  <2>2. QuietRow
    BY <1>a, <2>1 DEF QuietRow, RowRecords
  <2> QED
    BY <1>c, <2>1, <2>2 DEF Tally, QuietStep
<1>16. ASSUME NEW e \in Executors, Restart(e)
       PROVE  Tally
  <2>1. CASE call' = call
    BY <1>16, <1>c, <1>e, <2>1 DEF Restart, Tally, QuietStep
  <2>2. CASE call' # call
    BY <1>16, <1>13, <2>2 DEF Restart, ListedAsPending
  <2> QED
    BY <2>1, <2>2
<1>17. ASSUME NEW e \in Executors, Crash(e)
       PROVE  Tally
  <2>1. row' = row /\ lost' = lost
    BY <1>17 DEF Crash
  <2>2. ASSUME NEW d \in Calls
        PROVE  Quiet(call[d], call'[d])
    <3>1. \/ call'[d] = call[d]
          \/ Live(call[d]) /\ call'[d] = Ended(call[d], "dead")
      BY <1>17 DEF Crash
    <3> QED
      BY <3>1, <1>b, <1>c, EndedQuiet DEF Live
  <2> QED
    BY <1>e, <2>1, <2>2 DEF Tally, QuietStep
<1>18. CASE Cancel
  <2>1. QuietRow
    BY <1>18, <1>a DEF Cancel, Cancelled, QuietRow, RowRecords, Complete
  <2> QED
    BY <1>18, <1>c, <2>1 DEF Cancel, Tally, QuietStep
<1>19. ASSUME NEW c \in Calls, Run(c)
       PROVE  Tally
  BY <1>19, <1>2, <1>3, <1>4, <1>5, <1>6, <1>8, <1>9, <1>10 DEF Run, Tally
<1> QED
  BY <1>1, <1>11, <1>12, <1>14, <1>15, <1>16, <1>17, <1>18, <1>19 DEF Next, Tally

\* What the upsert of c does, and who goes on to run the function.
Upsert(c) ==
    LET k == call[c]
    IN  /\ k.pc = "init"
        /\ \/ /\ row.status = "ABSENT" /\ c \in Clients /\ ~Forced(k)
              /\ row'.owner = c
              /\ row'.status = IF k.kind = "enqueue" THEN "ENQUEUED" ELSE "PENDING"
              /\ row'.queued = (k.kind = "enqueue")
              /\ row'.attempts = IF k.kind = "enqueue" THEN 0 ELSE 1
           \/ /\ row.status # "ABSENT" /\ row'.status # "ABSENT"
              /\ row'.owner = row.owner
              /\ row'.attempts = IF row.status # "ENQUEUED" /\ Forced(k)
                                   THEN row.attempts + 1 ELSE row.attempts
              /\ row'.status = "ENQUEUED" =>
                   row.status = "ENQUEUED" /\ row'.queued = row.queued
              /\ row'.queued => row.queued
        /\ \/ call' = call /\ lost' = lost + 1
           \/ /\ lost' = lost
              /\ \A d \in Calls \ {c} : call'[d] = call[d]
              /\ call'[c].kind = k.kind /\ (call'[c].queued => k.queued)
              /\ call'[c].pc \in {"done", "await", "check", "acquire"}
              /\ \/ call'[c].ran = k.ran
                 \/ /\ call'[c].ran = TRUE /\ call'[c].pc # "done"
                    /\ k.kind # "enqueue"
                    /\ \/ row'.owner = c
                       \/ Forced(k) /\ row'.attempts <= MaxAttempts + 1

LEMMA UpsertEffect ==
  ASSUME TypeInv, QueueInv, NEW c \in Calls, InitWorkflow(c)
  PROVE  Upsert(c)
<1> DEFINE k == call[c]
           u == Upserted(row, c, k)
<1>a. /\ call \in [Calls -> CallRecords] /\ row \in RowRecords /\ k \in CallRecords
      /\ k.pc = "init" /\ ControlOK(c, k)
  BY DEF TypeInv, TypeOK, ControlInv, InitWorkflow, At
<1>b. row.status = "ABSENT" => c \in Clients /\ ~Forced(k)
  BY <1>a DEF TypeInv, PresenceInv, ControlOK, Calls
<1>c. k.queued => Forced(k)
  BY DEF QueueInv
<1>d. /\ row' = DeadLettered(u, c)
      /\ \/ Set(c, AfterInit(u, c)) /\ lost' = lost
         \/ call' = call /\ lost' = lost + 1
  BY DEF InitWorkflow, LoseAck
<1>e. MaxAttempts \in Nat /\ row.attempts \in Nat
  BY <1>a, ConstantsAssumption DEF RowRecords
<1>f. u \in RowRecords
  BY <1>a, <1>b, UpsertedType
<1>g. \/ /\ row.status = "ABSENT" /\ u.owner = c
         /\ u.status = IF k.kind = "enqueue" THEN "ENQUEUED" ELSE "PENDING"
         /\ u.queued = (k.kind = "enqueue")
         /\ u.attempts = IF k.kind = "enqueue" THEN 0 ELSE 1
      \/ /\ row.status # "ABSENT" /\ u.status = row.status
         /\ u.owner = row.owner /\ u.queued = row.queued
         /\ u.attempts = IF row.status # "ENQUEUED" /\ Forced(k)
                           THEN row.attempts + 1 ELSE row.attempts
  <2>1. CASE row.status = "ABSENT"
    <3>1. RequestsQueue(k) <=> k.kind = "enqueue"
      BY <1>b, <1>c, <2>1 DEF RequestsQueue
    <3>2. RequestsQueue(k) \in BOOLEAN
      BY <1>a DEF RequestsQueue, CallRecords
    <3> QED
      BY <2>1, <3>1, <3>2 DEF Upserted
  <2>2. CASE row.status # "ABSENT"
    BY <2>2, <1>a DEF Upserted, RowRecords
  <2> QED
    BY <2>1, <2>2
<1> HIDE DEF u, k
<1>h. /\ row'.owner = u.owner /\ row'.attempts = u.attempts
      /\ \/ row'.status = u.status /\ row'.queued = u.queued
         \/ /\ Exhausted(u, c) /\ u.status = "PENDING"
            /\ row'.status = "MAX_RECOVERY_ATTEMPTS_EXCEEDED" /\ row'.queued = FALSE
  BY <1>d, <1>f DEF DeadLettered, RowRecords
<1>1. \/ /\ row.status = "ABSENT" /\ c \in Clients /\ ~Forced(k)
         /\ row'.owner = c
         /\ row'.status = IF k.kind = "enqueue" THEN "ENQUEUED" ELSE "PENDING"
         /\ row'.queued = (k.kind = "enqueue")
         /\ row'.attempts = IF k.kind = "enqueue" THEN 0 ELSE 1
      \/ /\ row.status # "ABSENT" /\ row'.status # "ABSENT"
         /\ row'.owner = row.owner
         /\ row'.attempts = IF row.status # "ENQUEUED" /\ Forced(k)
                              THEN row.attempts + 1 ELSE row.attempts
         /\ row'.status = "ENQUEUED" =>
              row.status = "ENQUEUED" /\ row'.queued = row.queued
         /\ row'.queued => row.queued
  BY <1>b, <1>g, <1>h DEF Exhausted
<1>2. ASSUME Set(c, AfterInit(u, c)), lost' = lost
      PROVE  /\ \A d \in Calls \ {c} : call'[d] = call[d]
             /\ call'[c].kind = k.kind /\ (call'[c].queued => k.queued)
             /\ call'[c].pc \in {"done", "await", "check", "acquire"}
             /\ \/ call'[c].ran = k.ran
                \/ /\ call'[c].ran = TRUE /\ call'[c].pc # "done"
                   /\ k.kind # "enqueue"
                   /\ \/ row'.owner = c
                      \/ Forced(k) /\ row'.attempts <= MaxAttempts + 1
  <2>1. call'[c] = AfterInit(u, c) /\ \A d \in Calls \ {c} : call'[d] = call[d]
    BY <1>2, <1>a DEF Set
  <2> DEFINE j == Ended(k, "done")
             runs == /\ k.kind # "enqueue"
                     /\ ShouldExecute(u, c, k)
                     /\ u.status \notin Complete
  <2>2. \/ AfterInit(u, c) = Ended(k, "done")
        \/ AfterInit(u, c) = [k EXCEPT !.pc = "await"]
        \/ /\ AfterInit(u, c) = [k EXCEPT !.ran = TRUE, !.pc = "check"]
           /\ runs /\ ~Exhausted(u, c)
        \/ /\ AfterInit(u, c) = [k EXCEPT !.ran = TRUE, !.pc = "acquire"]
           /\ runs /\ ~Exhausted(u, c)
    BY DEF AfterInit, k
  <2>3. j.pc = "done" /\ j.kind = k.kind /\ j.ran = k.ran
    BY <1>a, EndedFields
  <2>4. j.queued = FALSE
    BY DEF Ended, NoCall
  <2>5. runs /\ ~Exhausted(u, c) =>
          /\ k.kind # "enqueue"
          /\ row'.owner = c \/ (Forced(k) /\ row'.attempts <= MaxAttempts + 1)
    <3>1. u.attempts \in Nat
      BY <1>f DEF RowRecords
    <3> QED
      BY <1>e, <1>h, <3>1 DEF ShouldExecute, Exhausted
  <2>6. CASE AfterInit(u, c) = Ended(k, "done")
    BY <2>1, <2>3, <2>4, <2>6
  <2>7. ASSUME NEW b, NEW p \in {"await", "check", "acquire"},
               AfterInit(u, c) = [k EXCEPT !.ran = b, !.pc = p]
        PROVE  /\ call'[c].kind = k.kind /\ call'[c].queued = k.queued
               /\ call'[c].pc = p /\ call'[c].ran = b
    BY <1>a, <2>1, <2>7 DEF CallRecords
  <2>8. CASE AfterInit(u, c) = [k EXCEPT !.pc = "await"]
    <3>1. [k EXCEPT !.pc = "await"] = [k EXCEPT !.ran = k.ran, !.pc = "await"]
      BY <1>a DEF CallRecords
    <3> QED
      BY <2>1, <2>7, <2>8, <3>1
  <2>9. CASE /\ runs /\ ~Exhausted(u, c)
             /\ \/ AfterInit(u, c) = [k EXCEPT !.ran = TRUE, !.pc = "check"]
                \/ AfterInit(u, c) = [k EXCEPT !.ran = TRUE, !.pc = "acquire"]
    <3> HIDE DEF runs
    <3>1. /\ call'[c].kind = k.kind /\ call'[c].queued = k.queued
          /\ call'[c].pc \in {"check", "acquire"} /\ call'[c].ran = TRUE
      BY <2>7, <2>9
    <3> QED
      BY <2>1, <2>5, <2>9, <3>1
  <2> QED
    BY <2>2, <2>6, <2>8, <2>9
<1> QED
  BY <1>a, <1>d, <1>1, <1>2 DEF Upsert, k

LEMMA QueueStep ==
  ASSUME TypeInv, QueueInv, [Next]_vars
  PROVE  QueueInv'
<1>a. \A c \in Calls : call[c] \in CallRecords /\ ControlOK(c, call[c])
  BY DEF TypeInv, TypeOK, ControlInv
<1>b. /\ resumes \in Nat /\ resumes' \in {resumes, resumes + 1}
      /\ row \in RowRecords /\ None \notin Calls /\ Clients \subseteq Calls
      /\ Dispatches \subseteq Calls /\ Clients \cap Dispatches = {}
  <2>1. resumes' \in {resumes, resumes + 1}
    BY DEF Next, Run, vars, Acquire, Release, CheckStep, RunBody, RecordStep,
       WriteSuccess, WriteError, WriteCaught, WriteOutcome, AwaitResult,
       ExecuteById, ReturnToQueue, InitWorkflow, Request, Dequeue,
       RecoverPending, DequeueUnacknowledged, Crash, Restart, Cancel, Resume
  <2> QED
    BY <2>1, ConstantsAssumption DEF TypeInv, TypeOK, Calls
<1>c. resumes' = 0 => resumes = 0
  BY <1>b
<1>1. CASE QuietStep
  BY <1>1, <1>a, <1>b, <1>c DEF QuietStep, QuietRow, Quiet, QueueInv, Forced, Unused
<1>2. ASSUME NEW c \in Calls, Requested(c) \/ Dequeued(c) \/ Listed(c)
      PROVE  QueueInv'
  <2>1. row.status # "ABSENT" => row.owner # c
    BY <1>2 DEF Requested, Dequeued, Listed, Fresh, QueueInv, Unused
  <2>2. CASE Requested(c)
    BY <2>1, <2>2, <1>a, <1>b, <1>c DEF Requested, Fresh, QueueInv, Forced, Unused
  <2>3. CASE Dequeued(c)
    BY <2>1, <2>3, <1>a, <1>b, <1>c DEF Dequeued, Fresh, QueueInv, Forced, Unused
  <2>4. CASE Listed(c)
    BY <2>1, <2>4, <1>a, <1>b, <1>c DEF Listed, Fresh, QueueInv, Forced, Unused
  <2> QED
    BY <1>2, <2>2, <2>3, <2>4
<1>3. ASSUME NEW c \in Calls, ReturnToQueue(c)
      PROVE  QueueInv'
  <2>1. /\ row'.owner = row.owner /\ row'.queued = row.queued
        /\ row'.status = row.status \/ (row.status = "PENDING" /\ row'.status = "ENQUEUED"
                                        /\ row.queued)
    BY <1>3, <1>b DEF ReturnToQueue, Requeued, RowRecords
  <2>2. \A d \in Calls : Quiet(call[d], call'[d])
    <3>1. CASE call' = call
      BY <3>1 DEF Quiet
    <3>2. CASE Set(c, Ended(call[c], "done"))
      BY <1>3, <3>2, <1>a, EndedQuiet, SetQuiet DEF ReturnToQueue, At, TypeInv, TypeOK
    <3> QED
      BY <1>3, <3>1, <3>2 DEF ReturnToQueue, LoseAck
  <2> QED
    BY <2>1, <2>2, <1>a, <1>b, <1>c DEF Quiet, QueueInv, Forced, Unused
<1>4. ASSUME NEW c \in Calls, InitWorkflow(c)
      PROVE  QueueInv'
  <2>1. Upsert(c)
    BY <1>4, UpsertEffect
  <2>2. \A d \in Calls :
          /\ call'[d].kind = call[d].kind
          /\ call'[d].queued => call[d].queued
          /\ call[d].pc # "idle" => call'[d].pc # "idle"
          /\ call'[d].pc \in {"idle", "snapshot", "dispatched", "init"} =>
               call'[d].pc = call[d].pc /\ call'[d].queued = call[d].queued
               /\ call'[d].ran = call[d].ran
    BY <2>1 DEF Upsert
  <2>3. row'.status # "ABSENT"
    BY <2>1 DEF Upsert
  <2>4. CASE row.status = "ABSENT"
    <3>1. /\ row'.owner = c /\ c \in Clients /\ call[c].pc = "init"
          /\ row'.status = IF call[c].kind = "enqueue" THEN "ENQUEUED" ELSE "PENDING"
          /\ row'.queued = (call[c].kind = "enqueue")
      BY <2>1, <2>4 DEF Upsert
    <3>2. \A d \in Calls : call[d].kind # "recover"
      BY <2>4 DEF TypeInv, PresenceInv, Forced
    <3>3. \A d \in Calls : ~Forced(call[d])
      BY <2>4 DEF TypeInv, PresenceInv
    <3>4. \A d \in Calls :
            /\ call'[d].pc = "snapshot" => call'[d].kind = "recover"
            /\ call'[d].pc = "dispatched" => call'[d].kind = "dequeue"
            /\ call'[d].pc \in {"idle", "snapshot", "dispatched", "init"} => ~call'[d].ran
            /\ call'[d].queued => Forced(call'[d])
            /\ call'[d].kind \notin {"recover", "dequeue"}
      BY <2>2, <3>2, <3>3 DEF QueueInv, Forced
    <3>5. ~Unused(c)'
      BY <2>2, <3>1 DEF Unused
    <3>6. row'.queued => call'[c].kind = "enqueue"
      BY <2>2, <3>1
    <3> QED
      BY <2>3, <3>1, <3>4, <3>5, <3>6 DEF QueueInv, Unused
  <2>5. CASE row.status # "ABSENT"
    <3>1. /\ row'.owner = row.owner /\ (row'.queued => row.queued)
          /\ row'.status = "ENQUEUED" =>
               row.status = "ENQUEUED" /\ row'.queued = row.queued
      BY <2>1, <2>5 DEF Upsert
    <3> QED
      BY <2>2, <2>3, <2>5, <3>1, <1>a, <1>b, <1>c DEF QueueInv, Forced, Unused
  <2> QED
    BY <2>4, <2>5
<1>5. CASE Resume
  <2>1. /\ call' = call /\ resumes' # 0 /\ row'.owner = row.owner
        /\ row'.status = "ABSENT" <=> row.status = "ABSENT"
    BY <1>5, <1>b DEF Resume, Resumed, RowRecords, Complete
  <2> QED
    BY <2>1, <1>b DEF QueueInv, Forced, Unused
<1> QED
  BY <1>1, <1>2, <1>3, <1>4, <1>5, TallyStep DEF Tally

LEMMA Tallied ==
  /\ IsFiniteSet(Ran) /\ IsFiniteSet(Returns) /\ IsFiniteSet(InFlight)
  /\ Cardinality(Ran) \in Nat /\ Cardinality(Returns) \in Nat
  /\ Cardinality(InFlight) \in Nat
<1>1. Ran \subseteq Calls /\ Returns \subseteq Calls /\ InFlight \subseteq Calls
  BY DEF Ran, Returns, InFlight
<1> QED
  BY <1>1, ConstantsAssumption, FS_Subset, FS_CardinalityType

LEMMA TalliedNext ==
  /\ IsFiniteSet(Ran') /\ IsFiniteSet(Returns') /\ IsFiniteSet(InFlight')
  /\ Cardinality(Ran') \in Nat /\ Cardinality(Returns') \in Nat
  /\ Cardinality(InFlight') \in Nat
<1>1. Ran' \subseteq Calls /\ Returns' \subseteq Calls /\ InFlight' \subseteq Calls
  BY DEF Ran, Returns, InFlight
<1> QED
  BY <1>1, ConstantsAssumption, FS_Subset, FS_CardinalityType

LEMMA ExecutionsStep ==
  ASSUME TypeInv, QueueInv, ExecutionsInv, [Next]_vars
  PROVE  ExecutionsInv'
<1> SUFFICES ASSUME resumes' = 0
             PROVE  ExecutionsInv'
  BY DEF ExecutionsInv
<1> DEFINE R == Cardinality(Ran)
           F == Cardinality(InFlight)
           RN == Cardinality(Ran')
           FN == Cardinality(InFlight')
           T == Cardinality(Returns)
           TN == Cardinality(Returns')
           C == Counted
           U == Uncounted
           CN == Counted'
           UN == Uncounted'
           n == row.attempts
           m == row'.attempts
           Owes(c) == row.owner = c /\ call[c].kind # "enqueue" /\ call[c].pc = "init"
           OwesN(c) == row'.owner = c /\ call'[c].kind # "enqueue" /\ call'[c].pc = "init"
<1>a. \A c \in Calls : call[c] \in CallRecords /\ ControlOK(c, call[c])
  BY DEF TypeInv, TypeOK, ControlInv
<1>b. /\ row \in RowRecords /\ None \notin Calls /\ Clients \subseteq Calls
      /\ Dispatches \subseteq Calls /\ Clients \cap Dispatches = {}
      /\ MaxAttempts \in Nat /\ lost \in Nat /\ n \in Nat /\ resumes \in Nat
  BY ConstantsAssumption DEF TypeInv, TypeOK, Calls, RowRecords
<1>c. R \in Nat /\ T \in Nat /\ F \in Nat /\ RN \in Nat /\ TN \in Nat /\ FN \in Nat
  BY Tallied, TalliedNext
<1>d. resumes = 0
  <2>1. resumes' \in {resumes, resumes + 1}
    BY DEF Next, Run, vars, Acquire, Release, CheckStep, RunBody, RecordStep,
       WriteSuccess, WriteError, WriteCaught, WriteOutcome, AwaitResult,
       ExecuteById, ReturnToQueue, InitWorkflow, Request, Dequeue,
       RecoverPending, DequeueUnacknowledged, Crash, Restart, Cancel, Resume
  <2> QED
    BY <1>b, <2>1
<1>e. ~Resume
  BY <1>b DEF Resume
<1>f. /\ R <= C + U
      /\ R + F <= C + U + (IF row.status = "ENQUEUED" THEN 0 ELSE 1)
  BY <1>d DEF ExecutionsInv
<1>g. \A c \in Clients : Owes(c) => R + 1 <= C + U
  BY <1>d DEF ExecutionsInv
<1>h. /\ C = IF n <= MaxAttempts THEN n ELSE MaxAttempts + 1
      /\ CN = IF m <= MaxAttempts THEN m ELSE MaxAttempts + 1
      /\ U = T + lost /\ UN = TN + lost'
  BY DEF Counted, Uncounted
<1>i. C \in Nat /\ U \in Nat
  BY <1>b, <1>c, <1>h
<1>j. ASSUME RN <= CN + UN,
             RN + FN <= CN + UN
                          + (IF row'.status = "ENQUEUED" THEN 0 ELSE 1),
             \A c \in Clients : OwesN(c) => RN + 1 <= CN + UN
      PROVE  ExecutionsInv'
  BY <1>j DEF ExecutionsInv
\* Nothing is executed, and no dispatch is put in flight.
<1>k. ASSUME RN = R, FN <= F, CN \in Nat, UN \in Nat,
             CN >= C, UN >= U,
             row'.status = "ENQUEUED" => row.status = "ENQUEUED",
             \A c \in Clients : OwesN(c) => Owes(c)
      PROVE  ExecutionsInv'
  <2> HIDE DEF R, F, RN, FN, C, U, CN, UN, Owes, OwesN
  <2>a. /\ RN = R /\ FN <= F /\ CN \in Nat /\ UN \in Nat
        /\ C <= CN /\ U <= UN
    BY <1>i, <1>k
  <2>b. row'.status = "ENQUEUED" => row.status = "ENQUEUED"
    BY <1>k
  <2>1. RN <= CN + UN
    BY <1>c, <1>f, <1>i, <2>a
  <2>2. RN + FN <= CN + UN
                     + (IF row'.status = "ENQUEUED" THEN 0 ELSE 1)
    BY <1>c, <1>f, <1>i, <2>a, <2>b
  <2>3. ASSUME NEW c \in Clients, OwesN(c)
        PROVE  RN + 1 <= CN + UN
    <3>1. R + 1 <= C + U
      BY <1>g, <1>k, <2>3
    <3> QED
      BY <1>c, <1>i, <2>a, <3>1
  <2> QED
    BY <1>j, <2>1, <2>2, <2>3
<1>1. CASE QuietStep
  <2>1. Ran' = Ran /\ Returns \subseteq Returns' /\ InFlight' \subseteq InFlight
    BY <1>1, <1>a DEF QuietStep, Quiet, Ran, Returns, InFlight, QueueInv
  <2>2. TN >= T /\ FN <= F /\ RN = R
    BY <2>1, Tallied, TalliedNext, FS_Subset
  <2>3. \A c \in Clients : OwesN(c) => Owes(c)
    BY <1>1, <1>a, <1>b DEF QuietStep, QuietRow, Quiet, QueueInv, ControlOK, Forced
  <2>4. /\ m = n /\ lost' \in {lost, lost + 1}
        /\ row'.status = "ENQUEUED" => row.status = "ENQUEUED"
    BY <1>1 DEF QuietStep, QuietRow
  <2> HIDE DEF R, T, F, RN, TN, FN, C, U, CN, UN, n, m, Owes, OwesN
  <2>5. CN \in Nat /\ CN >= C
    BY <1>b, <1>h, <1>i, <2>4
  <2>6. UN \in Nat /\ UN >= U
    <3>1. UN = TN + lost \/ UN = TN + (lost + 1)
      <4>1. UN = TN + lost'
        BY <1>h
      <4>2. lost' = lost \/ lost' = lost + 1
        BY <2>4
      <4> QED
        BY <4>1, <4>2, Zenon
    <3> QED
      BY <1>b, <1>c, <1>h, <2>2, <3>1
  <2> QED
    BY <1>k, <2>2, <2>3, <2>4, <2>5, <2>6
<1>2. ASSUME NEW c \in Calls, Requested(c) \/ Listed(c)
      PROVE  ExecutionsInv'
  <2>1. row.owner # c
    BY <1>2, <1>b DEF Requested, Listed, Fresh, QueueInv, Unused
  <2>2. Ran' = Ran /\ Returns' = Returns /\ InFlight' = InFlight
    BY <1>2, <1>a DEF Requested, Listed, Fresh, Ran, Returns, InFlight, QueueInv
  <2>3. \A d \in Clients : OwesN(d) => Owes(d)
    BY <1>2, <1>b, <2>1 DEF Requested, Listed, Fresh
  <2>4. row' = row /\ lost' = lost
    BY <1>2 DEF Requested, Listed, Fresh
  <2>5. RN = R /\ TN = T /\ FN = F /\ m = n
    BY <2>2, <2>4
  <2> HIDE DEF R, T, F, RN, TN, FN, C, U, CN, UN, n, m, Owes, OwesN
  <2>6. CN = C /\ UN = U
    BY <1>h, <2>4, <2>5
  <2> QED
    BY <1>c, <1>i, <1>k, <2>3, <2>4, <2>5, <2>6
<1>3. ASSUME NEW c \in Calls, Dequeued(c)
      PROVE  ExecutionsInv'
  <2>1. /\ Ran' = Ran /\ Returns' = Returns /\ c \notin InFlight
        /\ InFlight' = InFlight \cup {c}
    BY <1>3, <1>a DEF Dequeued, Fresh, Ran, Returns, InFlight, QueueInv
  <2>2. RN = R /\ TN = T /\ FN = F + 1
    BY <2>1, Tallied, FS_AddElement
  <2>3. \A d \in Clients : OwesN(d) => Owes(d)
    BY <1>3, <1>b DEF Dequeued, Fresh
  <2>4. m = n /\ lost' = lost /\ row.status = "ENQUEUED" /\ row'.status # "ENQUEUED"
    BY <1>3 DEF Dequeued, Fresh
  <2> HIDE DEF R, T, F, RN, TN, FN, C, U, CN, UN, n, m, Owes, OwesN
  <2>5. CN = C /\ UN = U
    BY <1>h, <2>2, <2>4
  <2>6. RN + FN <= CN + UN
                     + (IF row'.status = "ENQUEUED" THEN 0 ELSE 1)
    BY <1>c, <1>f, <1>i, <2>2, <2>4, <2>5
  <2> QED
    BY <1>f, <1>g, <1>j, <2>2, <2>3, <2>5, <2>6
<1>4. ASSUME NEW c \in Calls, ReturnToQueue(c)
      PROVE  ExecutionsInv'
  <2>1. call[c].pc = "snapshot" /\ call[c].kind = "recover" /\ ~call[c].ran
    BY <1>4 DEF ReturnToQueue, At, QueueInv
  <2>2. row'.owner = row.owner /\ m = n
    BY <1>4, <1>b DEF ReturnToQueue, Requeued, RowRecords
  <2>3. RN = R /\ FN = F /\ TN + lost' = T + lost + 1 /\ lost' \in Nat
    <3>1. CASE call' = call /\ lost' = lost + 1
      <4>1. Ran' = Ran /\ InFlight' = InFlight /\ Returns' = Returns
        BY <3>1 DEF Ran, InFlight, Returns
      <4>2. RN = R /\ FN = F /\ TN = T
        BY <4>1
      <4> HIDE DEF R, T, F, RN, TN, FN, C, U, CN, UN
      <4> QED
        BY <1>b, <1>c, <3>1, <4>2
    <3>2. CASE Set(c, Ended(call[c], "done")) /\ lost' = lost
      <4>1. /\ call'[c] = Ended(call[c], "done")
            /\ \A d \in Calls \ {c} : call'[d] = call[d]
        BY <3>2 DEF Set, TypeInv, TypeOK
      <4>2. /\ call'[c].pc = "done" /\ call'[c].kind = "recover"
            /\ call'[c].ran = call[c].ran
        <5>1. LET j == Ended(call[c], "done")
              IN  j.pc = "done" /\ j.kind = call[c].kind /\ j.ran = call[c].ran
          BY <1>a, EndedFields
        <5> QED
          BY <2>1, <4>1, <5>1
      <4>3. /\ Ran' = Ran /\ InFlight' = InFlight /\ c \notin Returns
            /\ Returns' = Returns \cup {c}
        BY <2>1, <4>1, <4>2 DEF Ran, InFlight, Returns
      <4>4. RN = R /\ FN = F /\ TN = T + 1
        BY <4>3, Tallied, FS_AddElement
      <4> HIDE DEF R, T, F, RN, TN, FN, C, U, CN, UN
      <4> QED
        BY <1>b, <1>c, <3>2, <4>4
    <3> QED
      BY <1>4, <3>1, <3>2 DEF ReturnToQueue, LoseAck
  <2>4. \A d \in Clients : OwesN(d) => Owes(d)
    <3>1. CASE call' = call
      BY <2>2, <3>1
    <3>2. CASE Set(c, Ended(call[c], "done"))
      <4>1. /\ call'[c] = Ended(call[c], "done")
            /\ \A d \in Calls \ {c} : call'[d] = call[d]
        BY <3>2 DEF Set, TypeInv, TypeOK
      <4>2. call'[c].pc = "done"
        <5>1. Ended(call[c], "done").pc = "done"
          BY <1>a, EndedFields
        <5> QED
          BY <4>1, <5>1
      <4> QED
        BY <1>b, <2>2, <4>1, <4>2
    <3> QED
      BY <1>4, <3>1, <3>2 DEF ReturnToQueue, LoseAck
  <2> HIDE DEF R, T, F, RN, TN, FN, C, U, CN, UN, n, m, Owes, OwesN
  <2>5. CN = C /\ UN = U + 1
    BY <1>b, <1>c, <1>h, <2>2, <2>3
  <2>6. /\ RN <= CN + UN
        /\ RN + FN <= CN + UN
                        + (IF row'.status = "ENQUEUED" THEN 0 ELSE 1)
    BY <1>c, <1>f, <1>i, <2>3, <2>5
  <2>7. ASSUME NEW d \in Clients, OwesN(d)
        PROVE  RN + 1 <= CN + UN
    <3>1. R + 1 <= C + U
      BY <1>g, <2>4, <2>7
    <3> QED
      BY <1>c, <1>i, <2>3, <2>5, <3>1
  <2> QED
    BY <1>j, <2>6, <2>7
<1>5. ASSUME NEW c \in Calls, InitWorkflow(c)
      PROVE  ExecutionsInv'
  <2>1. Upsert(c) /\ ~call[c].ran /\ call[c].pc = "init"
    BY <1>5, UpsertEffect DEF QueueInv, InitWorkflow, At
  <2>2. m \in Nat
    BY <1>b, <2>1 DEF Upsert
  \* The insert: nothing ran yet.
  <2>3. CASE row.status = "ABSENT"
    <3>1. /\ Ran = {} /\ InFlight = {}
      BY <2>3 DEF QueueInv, TypeInv, PresenceInv, Ran, InFlight, Forced
    <3>2. R = 0 /\ F = 0
      BY <3>1, FS_EmptySet
    <3>3. /\ row'.owner = c /\ c \in Clients /\ ~Forced(call[c])
          /\ row'.status = IF call[c].kind = "enqueue" THEN "ENQUEUED" ELSE "PENDING"
          /\ m = IF call[c].kind = "enqueue" THEN 0 ELSE 1
      BY <2>1, <2>3 DEF Upsert
    <3>4. CASE call' = call /\ lost' = lost + 1
      <4>1. Ran' = Ran /\ InFlight' = InFlight /\ Returns' = Returns
        BY <3>4 DEF Ran, InFlight, Returns
      <4>2. RN = 0 /\ FN = 0 /\ TN = T
        BY <3>2, <4>1
      <4>3. \A d \in Clients : OwesN(d) => m = 1
        BY <3>3, <3>4
      <4> HIDE DEF R, T, F, RN, TN, FN, C, U, CN, UN, n, m, Owes, OwesN
      <4>4. CN = m /\ UN = U + 1
        BY <1>b, <1>c, <1>h, <3>3, <3>4, <4>2
      <4> QED
        BY <1>i, <1>j, <2>2, <3>3, <4>2, <4>3, <4>4
    <3>5. CASE /\ lost' = lost /\ \A d \in Calls \ {c} : call'[d] = call[d]
               /\ call'[c].pc \in {"done", "await", "check", "acquire"}
               /\ call'[c].kind = call[c].kind
               /\ \/ call'[c].ran = call[c].ran
                  \/ call'[c].ran = TRUE /\ call[c].kind # "enqueue"
      <4>1. /\ InFlight' = {} /\ Returns' = Returns
            /\ Ran' = {} \/ (Ran' = {c} /\ call[c].kind # "enqueue")
        BY <2>1, <3>1, <3>3, <3>5 DEF Ran, InFlight, Returns, Forced
      <4>2. FN = 0 /\ TN = T /\ (RN = 0 \/ (RN = 1 /\ m = 1))
        BY <3>3, <4>1, FS_EmptySet, FS_Singleton
      <4>3. \A d \in Clients : ~OwesN(d)
        BY <3>3, <3>5
      <4> HIDE DEF R, T, F, RN, TN, FN, C, U, CN, UN, n, m, Owes, OwesN
      <4>4. CN = m /\ UN = U
        BY <1>b, <1>c, <1>h, <3>3, <3>5, <4>2
      <4> QED
        BY <1>i, <1>j, <2>2, <3>3, <4>2, <4>3, <4>4
    <3> QED
      BY <2>1, <3>4, <3>5 DEF Upsert
  <2>4. CASE row.status # "ABSENT"
    <3>1. /\ row'.owner = row.owner
          /\ m = IF row.status # "ENQUEUED" /\ Forced(call[c]) THEN n + 1 ELSE n
          /\ row'.status = "ENQUEUED" => row.status = "ENQUEUED"
      BY <2>1, <2>4 DEF Upsert
    <3>2. CASE call' = call /\ lost' = lost + 1
      <4>1. Ran' = Ran /\ InFlight' = InFlight /\ Returns' = Returns
        BY <3>2 DEF Ran, InFlight, Returns
      <4>2. RN = R /\ FN = F /\ TN = T
        BY <4>1
      <4>3. \A d \in Clients : OwesN(d) => Owes(d)
        BY <3>1, <3>2
      <4> HIDE DEF R, T, F, RN, TN, FN, C, U, CN, UN, n, m, Owes, OwesN
      <4>4. /\ CN \in Nat /\ CN >= C
            /\ UN \in Nat /\ UN >= U
        BY <1>b, <1>c, <1>h, <2>2, <3>1, <3>2, <4>2
      <4> QED
        BY <1>c, <1>k, <3>1, <4>2, <4>3, <4>4
    <3>3. CASE /\ lost' = lost /\ \A d \in Calls \ {c} : call'[d] = call[d]
               /\ call'[c].pc \in {"done", "await", "check", "acquire"}
               /\ call'[c].kind = call[c].kind
               /\ call'[c].ran = call[c].ran
      <4>1. /\ Ran' = Ran /\ InFlight' \subseteq InFlight
            /\ Returns \subseteq Returns'
        BY <2>1, <3>3 DEF Ran, InFlight, Returns
      <4>2. RN = R /\ FN <= F /\ TN >= T
        BY <4>1, Tallied, TalliedNext, FS_Subset
      <4>3. \A d \in Clients : OwesN(d) => Owes(d)
        BY <1>b, <3>1, <3>3
      <4> HIDE DEF R, T, F, RN, TN, FN, C, U, CN, UN, n, m, Owes, OwesN
      <4>4. /\ CN \in Nat /\ CN >= C
            /\ UN \in Nat /\ UN >= U
        BY <1>b, <1>c, <1>h, <2>2, <3>1, <3>3, <4>2
      <4> QED
        BY <1>k, <3>1, <4>2, <4>3, <4>4
    \* c runs the function: it was counted, or in flight, or the inserter.
    <3>4. CASE /\ lost' = lost /\ \A d \in Calls \ {c} : call'[d] = call[d]
               /\ call'[c].pc \in {"await", "check", "acquire"}
               /\ call'[c].kind = call[c].kind
               /\ call'[c].ran = TRUE
               /\ call[c].kind # "enqueue"
               /\ \/ row'.owner = c
                  \/ Forced(call[c]) /\ m <= MaxAttempts + 1
      <4>1. /\ Ran' = Ran \cup {c} /\ c \notin Ran /\ Returns' = Returns
            /\ InFlight' = InFlight \ {c}
        BY <2>1, <3>4 DEF Ran, InFlight, Returns
      <4>2. /\ RN = R + 1 /\ TN = T
            /\ FN = IF c \in InFlight THEN F - 1 ELSE F
        BY <4>1, Tallied, FS_AddElement, FS_RemoveElement
      <4>3. \A d \in Clients : OwesN(d) => d # c /\ Owes(d)
        BY <1>b, <3>1, <3>4
      <4>4. Forced(call[c]) => c \in Dispatches /\ row.owner \in Clients
        BY <1>a, <2>4 DEF ControlOK, QueueInv
      <4>5. CASE Forced(call[c])
        <5>1. row.owner # c
          BY <1>b, <4>4, <4>5
        <5>2. m <= MaxAttempts + 1
          BY <3>1, <3>4, <5>1
        <5>3. CASE row.status = "ENQUEUED"
          <6>1. call[c].kind = "dequeue" /\ c \in InFlight
            <7>1. row.queued
              BY <1>d, <5>3 DEF QueueInv
            <7>2. call[c].kind # "recover"
              BY <1>d, <2>1, <7>1 DEF QueueInv
            <7> QED
              BY <2>1, <4>5, <7>2 DEF Forced, InFlight
          <6>2. m = n /\ FN = F - 1
            BY <3>1, <4>2, <5>3, <6>1
          <6>3. \A d \in Clients : ~OwesN(d)
            <7>1. row.queued /\ call[row.owner].kind = "enqueue"
              BY <1>d, <5>3 DEF QueueInv
            <7> QED
              BY <4>3, <7>1
          <6>4. F >= 1
            BY <6>1, Tallied, FS_EmptySet
          <6> HIDE DEF R, T, F, RN, TN, FN, C, U, CN, UN, n, m, Owes, OwesN
          <6>5. CN = C /\ UN = U
            BY <1>h, <3>4, <4>2, <6>2
          <6>6. /\ RN <= CN + UN
                /\ RN + FN <= CN + UN
            BY <1>c, <1>f, <1>i, <4>2, <5>3, <6>2, <6>4, <6>5
          <6>7. CN \in Nat /\ UN \in Nat
            BY <1>i, <6>5
          <6>8. RN + FN <= CN + UN
                             + (IF row'.status = "ENQUEUED" THEN 0 ELSE 1)
            BY <1>c, <6>6, <6>7
          <6> QED
            BY <1>j, <6>3, <6>6, <6>8
        <5>4. CASE row.status # "ENQUEUED"
          <6>1. m = n + 1 /\ row'.status # "ENQUEUED"
            BY <3>1, <4>5, <5>4
          <6> HIDE DEF R, T, F, RN, TN, FN, C, U, CN, UN, n, m, Owes, OwesN
          <6>2. CN = C + 1 /\ UN = U
            BY <1>b, <1>h, <3>4, <4>2, <5>2, <6>1
          <6>3. FN <= F
            BY <1>c, <4>2
          <6>4. /\ RN <= CN + UN
                /\ RN + FN <= CN + UN
                                + (IF row'.status = "ENQUEUED" THEN 0 ELSE 1)
            BY <1>c, <1>f, <1>i, <4>2, <5>4, <6>1, <6>2, <6>3
          <6>5. ASSUME NEW d \in Clients, OwesN(d)
                PROVE  RN + 1 <= CN + UN
            <7>1. R + 1 <= C + U
              BY <1>g, <4>3, <6>5
            <7> QED
              BY <1>c, <1>i, <4>2, <6>2, <7>1
          <6> QED
            BY <1>j, <6>4, <6>5
        <5> QED
          BY <5>3, <5>4
      <4>6. CASE ~Forced(call[c])
        <5>1. row.owner = c /\ c \in Clients /\ Owes(c)
          BY <2>1, <2>4, <3>1, <3>4, <4>6 DEF QueueInv
        <5>2. \A d \in Clients : ~OwesN(d)
          BY <3>1, <4>3, <5>1
        <5>3. row'.status # "ENQUEUED"
          <6>1. ~row.queued
            BY <1>d, <3>4, <5>1 DEF QueueInv
          <6> QED
            BY <1>d, <3>1, <6>1 DEF QueueInv
        <5>4. m = n
          BY <3>1, <4>6
        <5>5. FN = 0 /\ F = 0
          <6>1. \A d \in Calls : call[d].kind # "dequeue"
            BY <1>d, <3>4, <5>1 DEF QueueInv
          <6>2. InFlight = {}
            BY <6>1 DEF InFlight
          <6> QED
            BY <4>1, <6>2, FS_EmptySet
        <5>6. R + 1 <= C + U
          BY <1>g, <5>1
        <5> HIDE DEF R, T, F, RN, TN, FN, C, U, CN, UN, n, m, Owes, OwesN
        <5>7. CN = C /\ UN = U
          BY <1>h, <3>4, <4>2, <5>4
        <5>8. RN <= CN + UN /\ RN + FN <= CN + UN + 1
          BY <1>c, <1>i, <4>2, <5>5, <5>6, <5>7
        <5> QED
          BY <1>j, <5>2, <5>3, <5>8
      <4> QED
        BY <4>5, <4>6
    <3> QED
      BY <2>1, <3>2, <3>3, <3>4 DEF Upsert
  <2> QED
    BY <2>3, <2>4
<1> QED
  BY <1>1, <1>2, <1>3, <1>4, <1>5, <1>e, TallyStep DEF Tally

ExecInv == TypeInv /\ QueueInv /\ ExecutionsInv

\* Unless it is resumed, a workflow is executed at most max_recovery_attempts
\* + 1 times, and once more for every recovery that returned it to its queue
\* and every lost acknowledgement (_insert_workflow_status, clear_queue_assignment).
THEOREM ExecutionsLimited == Spec => []ExecutionsBounded
<1>1. Init => ExecInv
  <2> SUFFICES ASSUME Init
               PROVE  ExecInv
    OBVIOUS
  <2>1. \A c \in Calls : call[c] = NoCall
    BY DEF Init
  <2>2. /\ NoCall.pc = "idle" /\ NoCall.kind = "start" /\ NoCall.ran = FALSE
        /\ NoCall.queued = FALSE
    BY DEF NoCall
  <2>3. /\ row.status = "ABSENT" /\ row.owner = None /\ row.queued = FALSE
        /\ row.attempts = 0 /\ lost = 0
    BY DEF Init
  <2>4. QueueInv
    BY <2>1, <2>2, <2>3 DEF QueueInv, Forced
  <2>5. Ran = {} /\ InFlight = {} /\ Returns = {}
    BY <2>1, <2>2 DEF Ran, InFlight, Returns
  <2>6. ExecutionsInv
    BY <2>1, <2>2, <2>3, <2>5, FS_EmptySet, ConstantsAssumption
       DEF ExecutionsInv, Counted, Uncounted, Calls
  <2> QED
    BY <2>4, <2>6, InitType DEF ExecInv
<1>2. ExecInv /\ [Next]_vars => ExecInv'
  BY StepType, QueueStep, ExecutionsStep DEF ExecInv
<1>3. ExecInv => ExecutionsBounded
  <2> SUFFICES ASSUME ExecInv, resumes = 0
               PROVE  Cardinality(Ran) <= MaxAttempts + 1 + Cardinality(Returns) + lost
    BY DEF ExecutionsBounded
  <2>1. Cardinality(Ran) <= Counted + Uncounted
    BY DEF ExecInv, ExecutionsInv
  <2>2. /\ MaxAttempts \in Nat /\ row.attempts \in Nat /\ lost \in Nat
    BY ConstantsAssumption DEF ExecInv, TypeInv, TypeOK, RowRecords
  <2> QED
    BY <2>1, <2>2, Tallied DEF Counted, Uncounted
<1> QED
  BY <1>1, <1>2, <1>3, PTL DEF Spec
=============================================================================

----------------------- MODULE TransactionalStepProofs -----------------------
(***************************************************************************)
(* Exactly-once transactions, for any number of executions, crashes, lost  *)
(* answers and failures: the function of a transactional step takes effect *)
(* once, together with its output, and the workflow goes on with that      *)
(* output. The second part needs a @DBOS.transaction: the step of a        *)
(* datasource may record the failure of a retry instead.                   *)
(***************************************************************************)
EXTENDS TransactionalStep, TLAPS

Pcs == {"start", "check", "body", "commit", "error", "record", "done", "parked"}
Outs == Outcomes \cup {None, IntegrityError, ConnectionError}

Types ==
    /\ effects \in Nat
    /\ output \in Outcomes \cup {None, IntegrityError}
    /\ step \in Outs
    /\ exec \in [Executions -> [pc : Pcs, out : Outs]]

\* What an execution holds when it is about to commit, or to record an error:
\* a value comes with an effect, an error does not.
HandInv ==
    \A x \in Executions :
        /\ exec[x].pc = "commit" => exec[x].out \in Vals
        /\ exec[x].pc = "error" =>
               exec[x].out \in Errors \/ (Datasource /\ exec[x].out = IntegrityError)

EffectInv == Types /\ HandInv /\ AppliedOnce

\* What a transaction is about to record is what the database keeps, and an
\* error raised by the insert of an output is never kept.
TruthInv ==
    /\ output \in Outcomes \cup {None}
    /\ StepAgrees
    /\ \A x \in Executions : exec[x].pc = "record" => exec[x].out = output /\ output # None

\* The effect of Go on the execution that takes the step and on the others.
LEMMA GoEffect ==
  ASSUME Types, NEW x \in Executions, NEW pc \in Pcs, NEW out \in Outs, Go(x, pc, out)
  PROVE  /\ exec' \in [Executions -> [pc : Pcs, out : Outs]]
         /\ exec'[x].pc = pc /\ exec'[x].out = out
         /\ \A y \in Executions : y # x => exec'[y] = exec[y]
  BY DEF Types, Go

LEMMA Distinct ==
  ASSUME StepAssumption
  PROVE  /\ Vals \subseteq Outs /\ Errors \subseteq Outs
         /\ None \in Outs /\ IntegrityError \in Outs /\ ConnectionError \in Outs
         /\ None \notin Vals /\ IntegrityError \notin Vals /\ Vals \cap Errors = {}
         /\ None \notin Errors /\ None # IntegrityError /\ Retry \in Pcs
         /\ Retry \notin {"commit", "error", "record"}
  BY DEF StepAssumption, Outs, Outcomes, Retry, Pcs

\* Every step of an execution moves it, and leaves the databases as they are,
\* keeps an outcome, or records the step.
Moved(x) ==
    \E pc \in Pcs, out \in Outs :
        /\ Go(x, pc, out)
        /\ pc = "commit" => out \in Vals
        /\ pc = "error" => out \in Errors \/ (Datasource /\ out = IntegrityError)
        /\ \/ /\ UNCHANGED <<effects, output, step>>
              /\ ~Datasource /\ pc = "record" => out = output /\ output # None
           \/ /\ output = None /\ UNCHANGED step
              /\ \/ output' \in Vals /\ effects' = effects + 1
                 \/ /\ UNCHANGED effects
                    /\ output' \in Errors \/ (Datasource /\ output' = IntegrityError)
              /\ ~Datasource /\ pc = "record" => out = output'
           \/ /\ step = None /\ UNCHANGED <<effects, output>>
              /\ pc = "done" /\ step' = out
              /\ exec[x].pc = "record" /\ exec[x].out = out

LEMMA StepMoves ==
  ASSUME StepAssumption, Types, HandInv, NEW x \in Executions, Run(x) \/ Crash(x)
  PROVE  Moved(x)
<1> USE Distinct
<1>a. exec[x].pc \in Pcs /\ exec[x].out \in Outs
  BY DEF Types
<1>1. CASE CheckStep(x)
  BY <1>1 DEF CheckStep, Types, Moved, Pcs
<1>2. CASE CheckOutput(x)
  <2>1. output \in Outs
    BY DEF Types, Outs
  <2> QED
    BY <1>2, <2>1 DEF CheckOutput, Moved, Pcs
<1>3. CASE Body(x)
  BY <1>3 DEF Body, Moved, Pcs
<1>4. CASE Commit(x)
  <2>1. exec[x].out \in Vals
    BY <1>4 DEF Commit, HandInv
  <2>2. CASE output = None
    BY <1>4, <1>a, <2>1, <2>2 DEF Commit, Moved, Pcs
  <2>3. CASE output # None
    BY <1>4, <1>a, <2>1, <2>3 DEF Commit, Moved, Pcs
  <2> QED
    BY <2>2, <2>3
<1>5. CASE RecordError(x)
  <2>1. exec[x].out \in Errors \/ (Datasource /\ exec[x].out = IntegrityError)
    BY <1>5 DEF RecordError, HandInv
  <2>2. UNCHANGED <<effects, step>>
    BY <1>5 DEF RecordError
  <2>3. CASE output = None /\ output' = exec[x].out /\ Go(x, "record", exec[x].out)
    BY <1>a, <2>1, <2>2, <2>3 DEF Moved, Pcs
  <2>4. CASE /\ output # None /\ UNCHANGED output
             /\ IF Datasource THEN Go(x, "record", IntegrityError) ELSE Go(x, "parked", None)
    BY <2>1, <2>2, <2>4 DEF Moved, Pcs
  <2>5. CASE /\ output' \in IF output = None THEN {None, exec[x].out} ELSE {output}
             /\ Go(x, IF Datasource THEN "record" ELSE "done", ConnectionError)
    <3>1. CASE output' = output
      BY <2>1, <2>2, <2>5, <3>1 DEF Moved, Pcs
    <3>2. CASE output = None /\ output' = exec[x].out
      BY <2>1, <2>2, <2>5, <3>2 DEF Moved, Pcs
    <3> QED
      BY <2>5, <3>1, <3>2
  <2> QED
    BY <1>5, <2>3, <2>4, <2>5 DEF RecordError
<1>6. CASE Record(x)
  BY <1>6, <1>a DEF Record, Moved, Pcs
<1>7. CASE Crash(x)
  <2>1. Go(x, "start", None)
    BY <1>7 DEF Crash, Go, Start
  <2> QED
    BY <1>7, <2>1 DEF Crash, Moved, Pcs
<1> QED
  BY <1>1, <1>2, <1>3, <1>4, <1>5, <1>6, <1>7 DEF Run

LEMMA NextMoves ==
  ASSUME StepAssumption, Types, HandInv, [Next]_vars
  PROVE  (\E x \in Executions : Moved(x)) \/ UNCHANGED <<effects, output, step, exec>>
  BY StepMoves DEF Next, Finished, vars

LEMMA InitEffects == StepAssumption /\ Init => EffectInv
  BY Distinct DEF StepAssumption, Init, EffectInv, Types, HandInv, AppliedOnce, Start, Pcs

LEMMA StepEffects ==
  ASSUME StepAssumption, EffectInv, [Next]_vars
  PROVE  EffectInv'
<1>a. Types /\ HandInv /\ AppliedOnce
  BY DEF EffectInv
<1>1. CASE UNCHANGED <<effects, output, step, exec>>
  BY <1>1, <1>a DEF EffectInv, Types, HandInv, AppliedOnce
<1>2. ASSUME NEW x \in Executions, Moved(x)
      PROVE  EffectInv'
  <2>1. PICK pc \in Pcs, out \in Outs :
            /\ Go(x, pc, out)
            /\ pc = "commit" => out \in Vals
            /\ pc = "error" => out \in Errors \/ (Datasource /\ out = IntegrityError)
    BY <1>2 DEF Moved
  <2>2. /\ exec' \in [Executions -> [pc : Pcs, out : Outs]]
        /\ exec'[x].pc = pc /\ exec'[x].out = out
        /\ \A y \in Executions : y # x => exec'[y] = exec[y]
    BY <1>a, <2>1, GoEffect
  <2>3. HandInv'
    BY <1>a, <2>1, <2>2 DEF HandInv
  <2>4. \/ UNCHANGED <<effects, output>>
        \/ output = None /\ output' \in Vals /\ effects' = effects + 1
        \/ output = None /\ output' \in Errors \cup {IntegrityError} /\ effects' = effects
    BY <1>2 DEF Moved
  <2>5. /\ effects' \in Nat /\ output' \in Outcomes \cup {None, IntegrityError} /\ AppliedOnce'
    BY <1>a, <2>4, Distinct DEF Types, AppliedOnce, Outcomes
  <2>6. step' \in Outs
    BY <1>2, <1>a DEF Moved, Types
  <2> QED
    BY <2>2, <2>3, <2>5, <2>6 DEF EffectInv, Types
<1> QED
  BY <1>1, <1>2, <1>a, NextMoves

\* The function of a transactional step takes effect exactly once when its
\* output is kept and not at all when its error is, of a @DBOS.transaction
\* (invoke_tx) as of the step of a datasource (run_tx_step).
THEOREM EffectOnce ==
  ASSUME StepAssumption
  PROVE  Spec => []AppliedOnce
<1>1. Init => EffectInv
  BY InitEffects
<1>2. EffectInv /\ [Next]_vars => EffectInv'
  BY StepEffects
<1>3. EffectInv => AppliedOnce
  BY DEF EffectInv
<1> QED
  BY <1>1, <1>2, <1>3, PTL DEF Spec

-----------------------------------------------------------------------------
(* The source of truth of a @DBOS.transaction.                             *)

LEMMA InitTruth == StepAssumption /\ Init => TruthInv
  BY Distinct DEF StepAssumption, Init, TruthInv, StepAgrees, Start

LEMMA StepTruth ==
  ASSUME StepAssumption, ~Datasource, EffectInv, TruthInv, [Next]_vars
  PROVE  TruthInv'
<1>a. Types /\ HandInv
  BY DEF EffectInv
<1>1. CASE UNCHANGED <<effects, output, step, exec>>
  BY <1>1 DEF TruthInv, StepAgrees
<1>2. ASSUME NEW x \in Executions, Moved(x)
      PROVE  TruthInv'
  <2>1. PICK pc \in Pcs, out \in Outs :
            /\ Go(x, pc, out)
            /\ \/ /\ UNCHANGED <<output, step>>
                  /\ pc = "record" => out = output /\ output # None
               \/ /\ output = None /\ UNCHANGED step
                  /\ output' \in Outcomes
                  /\ pc = "record" => out = output'
               \/ /\ UNCHANGED output /\ pc = "done"
                  /\ step' = out /\ exec[x].pc = "record" /\ exec[x].out = out
    BY <1>2 DEF Moved, Outcomes
  <2>2. /\ exec'[x].pc = pc /\ exec'[x].out = out
        /\ \A y \in Executions : y # x => exec'[y] = exec[y]
    BY <1>a, <2>1, GoEffect
  <2>3. None \notin Outcomes
    BY Distinct DEF Outcomes
  <2>4. output' \in Outcomes \cup {None}
    BY <2>1 DEF TruthInv
  <2>5. StepAgrees'
    BY <2>1 DEF TruthInv, StepAgrees
  <2>6. \A y \in Executions :
            exec'[y].pc = "record" => exec'[y].out = output' /\ output' # None
    BY <2>1, <2>2, <2>3 DEF TruthInv
  <2> QED
    BY <2>4, <2>5, <2>6 DEF TruthInv
<1> QED
  BY <1>1, <1>2, <1>a, NextMoves

\* The outcome recorded for a @DBOS.transaction in the system database is the
\* one its function had in the application's database (invoke_tx).
THEOREM OneTruth ==
  ASSUME StepAssumption, ~Datasource
  PROVE  Spec => []StepAgrees
<1>1. Init => EffectInv /\ TruthInv
  BY InitEffects, InitTruth
<1>2. EffectInv /\ TruthInv /\ [Next]_vars => (EffectInv /\ TruthInv)'
  BY StepEffects, StepTruth
<1>3. TruthInv => StepAgrees
  BY DEF TruthInv
<1> QED
  BY <1>1, <1>2, <1>3, PTL DEF Spec

Promise == INSTANCE ExactlyOnce WITH Good <- Vals, outcome <- output, answer <- step

\* The promise that a @DBOS.transaction implements.
ImplementsExactlyOnce == Promise!Spec

\* A @DBOS.transaction implements ExactlyOnce (invoke_tx): every step of its
\* executions settles it once together with its effect, answers with what it
\* settled on, or changes neither database.
THEOREM TransactionImplements ==
  ASSUME StepAssumption, ~Datasource
  PROVE  Spec => ImplementsExactlyOnce
<1>1. Init => EffectInv /\ TruthInv /\ Promise!Init
  BY InitEffects, InitTruth DEF Init, Promise!Init
<1>2. EffectInv /\ TruthInv /\ [Next]_vars => (EffectInv /\ TruthInv)'
  BY StepEffects, StepTruth
<1>3. EffectInv /\ TruthInv /\ [Next]_vars => [Promise!Next]_<<effects, output, step>>
  <2> SUFFICES ASSUME EffectInv, TruthInv, [Next]_vars
               PROVE  [Promise!Next]_<<effects, output, step>>
    OBVIOUS
  <2>1. Types /\ HandInv
    BY DEF EffectInv
  <2>2. CASE UNCHANGED <<effects, output, step, exec>>
    BY <2>2
  <2>3. ASSUME NEW x \in Executions, Moved(x)
        PROVE  [Promise!Next]_<<effects, output, step>>
    <3>1. CASE UNCHANGED <<effects, output, step>>
      BY <3>1
    <3>2. CASE /\ output = None /\ UNCHANGED step
               /\ \/ output' \in Vals /\ effects' = effects + 1
                  \/ output' \in Errors /\ UNCHANGED effects
      BY <3>2, Distinct DEF Promise!Next, Promise!Settle, Outcomes
    <3>3. CASE /\ step = None /\ UNCHANGED <<effects, output>>
               /\ exec[x].pc = "record" /\ step' = exec[x].out
      BY <3>3 DEF Promise!Next, Promise!Answer, TruthInv
    <3> QED
      BY <2>3, <3>1, <3>2, <3>3 DEF Moved
  <2> QED
    BY <2>1, <2>2, <2>3, NextMoves
<1> QED
  BY <1>1, <1>2, <1>3, PTL DEF Spec, ImplementsExactlyOnce, Promise!Spec
=============================================================================

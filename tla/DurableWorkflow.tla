--------------------------- MODULE DurableWorkflow ---------------------------
(***************************************************************************)
(* What DBOS promises about a workflow, free of processes, retries and     *)
(* recovery: one log of step results that only grows, and one outcome that *)
(* the log determines and that is written once. WorkflowExecution is shown *)
(* to implement this specification.                                        *)
(***************************************************************************)
EXTENDS Naturals

CONSTANTS NumSteps, Vals, FailVals, None

VARIABLES
    phase,      \* where the workflow is in its life
    log,        \* step -> its result, None until the step is done
    outcome     \* the recorded outcome

Steps == 1..NumSteps

Init ==
    /\ phase = "absent"
    /\ log = [s \in Steps |-> None]
    /\ outcome = [s \in Steps |-> None]

\* The log holds all the steps that the function executes.
LogComplete ==
    \/ \E s \in Steps : log[s] \in FailVals
    \/ \A s \in Steps : log[s] # None

Submit ==
    /\ phase = "absent"
    /\ phase' = "running"
    /\ UNCHANGED <<log, outcome>>

\* The next step is done, once: a step already in flight when the workflow is
\* cancelled or dead-lettered may still be.
DoStep(s, v) ==
    /\ phase \notin {"absent", "done"}
    /\ log[s] = None
    /\ \A t \in 1..(s - 1) : log[t] # None /\ log[t] \notin FailVals
    /\ log' = [log EXCEPT ![s] = v]
    /\ UNCHANGED <<phase, outcome>>

\* The function's end is recorded, with the outcome the log determines. An
\* execution that outlived the dead-lettering of its workflow may record it too.
Complete ==
    /\ phase \in {"running", "exhausted"}
    /\ LogComplete
    /\ phase' = "done"
    /\ outcome' = log
    /\ UNCHANGED log

Cancel ==
    /\ phase \in {"running", "exhausted"}
    /\ phase' = "cancelled"
    /\ UNCHANGED <<log, outcome>>

\* Too many recoveries.
Exhaust ==
    /\ phase = "running"
    /\ phase' = "exhausted"
    /\ UNCHANGED <<log, outcome>>

Resume ==
    /\ phase \in {"cancelled", "exhausted"}
    /\ phase' = "running"
    /\ UNCHANGED <<log, outcome>>

Next ==
    \/ Submit \/ Complete \/ Cancel \/ Exhaust \/ Resume
    \/ \E s \in Steps, v \in Vals : DoStep(s, v)

Spec == Init /\ [][Next]_<<phase, log, outcome>>
=============================================================================

----------------------------- MODULE ExactlyOnce -----------------------------
(***************************************************************************)
(* What a transactional step promises: its function takes effect in the    *)
(* application's database at most once, together with the outcome it had,  *)
(* and the outcome the workflow goes on with is that one.                  *)
(***************************************************************************)
EXTENDS Naturals

CONSTANTS Outcomes, Good, None

VARIABLES effects, outcome, answer

Init == effects = 0 /\ outcome = None /\ answer = None

\* The function commits, or fails for good.
Settle ==
    /\ outcome = None /\ outcome' \in Outcomes
    /\ effects' = IF outcome' \in Good THEN effects + 1 ELSE effects
    /\ UNCHANGED answer

Answer ==
    /\ outcome # None /\ answer = None /\ answer' = outcome
    /\ UNCHANGED <<effects, outcome>>

Next == Settle \/ Answer

Spec == Init /\ [][Next]_<<effects, outcome, answer>>
=============================================================================

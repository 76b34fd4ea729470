------------------------ MODULE MCWorkflowExecution ------------------------
EXTENDS WorkflowExecution, TLC

CONSTANTS e1, e2, c1, c2, d1, d2, ok1, ok2, fail

MCExecutors == {e1, e2}
OneClient == {c1}
TwoClients == {c1, c2}
OneDispatch == {d1}
TwoDispatches == {d1, d2}
MCVals == {ok1, ok2, fail}

\* Every completion at an instant of its own, or all at the same one.
DistinctTimes == [c \in Calls |-> {c}]
SameTime == [c \in Calls |-> {1}]

Symmetry == Permutations(MCExecutors) \cup Permutations(Clients)
                \cup Permutations(Dispatches) \cup Permutations({ok1, ok2})
=============================================================================

SPECIFICATION Spec
CONSTANTS
    e1 = e1  e2 = e2  c1 = c1  c2 = c2  d1 = d1  d2 = d2
    ok1 = ok1  ok2 = ok2  fail = fail
    Executors <- MCExecutors
    Clients <- OneClient
    Dispatches <- TwoDispatches
    NumSteps = 2
    Vals <- MCVals
    FailVals = {fail}
    StampsOf <- DistinctTimes
    MaxAttempts = 1
    InputsOk = TRUE
    FalseDeath = TRUE
    MaxCrashes = 0
    MaxLost = 0
    MaxResumes = 1
    None = None
    CancelErr = CancelErr
SYMMETRY Symmetry
INVARIANTS
    OutcomeFromSteps AttemptsBounded
PROPERTIES
    CancelHolds

SPECIFICATION TransactingSpec
CONSTANTS
    None = None
    Consumers = {"a", "b"}
    Messages = 3
    MaxFaults = 2
    MaxLaunches = 1
    Nobody = None
INVARIANT StepsOfTasksRunAsSteps

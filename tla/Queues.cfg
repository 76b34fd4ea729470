SPECIFICATION MCSpec
CONSTANTS
    None = None
    Executors = {"e1", "e2"}
    Workflows = {"w1", "w2"}
    Partition <- MixedPartition
    Priority <- MixedPriority
    WfVersion <- MixedVersion
    ExecVersion <- MixedExecutors
    LatestVersion = "v2"
    Delays = {0, 1}
    Concurrency = 1
    WorkerConcurrency = None
    Limit = None
    Period = None
    PromptThreads = FALSE
    MaxTime = 1
    MaxCancels = 0
    MaxCrashes = 1
INVARIANTS
      RegistrySound
PROPERTIES
    QueuesServed

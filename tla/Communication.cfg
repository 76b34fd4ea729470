SPECIFICATION MCSpec
CONSTANTS
    None = None
    Processes = {"p1"}
    Executions = {"x1"}
    ProcOf <- OneProcess
    RecvTopics <- TwoRecvs
    Sends = {"s1", "s2"}
    Batch <- Batches
    TopicOf <- OneTopic
    Key <- FirstKeyed
    InWorkflow = {"s2"}
    Timeout = 1
    ListenNotify = TRUE
    Gathered = FALSE
    MaxCancels = 0
    SameInstant = FALSE
    MaxTime = 2
    MaxCrashes = 1
    MaxLost = 1
    MaxDrops = 0
INVARIANTS
     EventsAgree 
PROPERTIES
    WaitsKept WaitersReturn

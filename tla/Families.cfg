SPECIFICATION MCSpec
CONSTANTS
    None = None
    Unset = Unset
    Off = Off
    Workflows = {"r", "a", "b", "c"}
    Root = "r"
    Kids <- Branching
    MaxCrashes = 1
    MaxCancels = 0
    MaxResumes = 1
    MaxCascades = 1
    GC = FALSE
INVARIANTS
    CascadeReaches ChildrenReplayed
PROPERTIES
    DeadlinesKept FamiliesEnd

SPECIFICATION Spec
CONSTANTS
    None = None
    Consumers = {"a", "b"}
    Messages = 3
    MaxFaults = 2
    MaxLaunches = 1
    Nobody = None
INVARIANTS
    SchemaRight MessagesKept IdsKept
PROPERTIES
     ContextsKept 

SPECIFICATION Spec
CONSTANT None = None
PROPERTIES
     CleansOnly ManagementEnds

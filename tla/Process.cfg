SPECIFICATION Spec
CONSTANT None = None
INVARIANTS
    RequestsAnswered
PROPERTIES
     ProcessProgresses

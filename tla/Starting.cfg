SPECIFICATION Spec
CONSTANT None = None

    
PROPERTIES
     StartersProgress

SPECIFICATION Spec
CONSTANTS
    None = None
    CancelErr = CancelErr
    Exceeded = Exceeded
    SerializeError = SerializeError
    IntegrityError = IntegrityError
    ConnectionError = ConnectionError

    
PROPERTIES
     EffectsOnce StepsEnd

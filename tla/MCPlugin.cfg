SPECIFICATION MCSpec
CONSTANTS
    Null = Null
    scalar = scalar
    datum = datum
    U32Max = 3
    Scalar <- MCScalar
    Entity = {1}
    Registration <- MCRegistration
    Prepended <- MCPrepended
    Appended <- MCAppended
    Writable <- MCWritable
INVARIANTS
    RegistryAgrees
    AdvanceAnswers
    PluginServes
    StreamAsWritten
PROPERTIES
    RegistrationPermanent
    
    
    TimersOnTime
CHECK_DEADLOCK FALSE

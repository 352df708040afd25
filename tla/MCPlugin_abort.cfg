SPECIFICATION CodeSpec
CONSTANTS
    Null = Null
    scalar = scalar
    datum = datum
    U32Max = 3
    Scalar <- MCScalar
    Entity = {1}
    Registration <- MCRegistration
    Prepended <- MCPrepended
    Appended <- MCAppended
    Writable <- MCWritable
INVARIANT
    NewsystemAnswers
CHECK_DEADLOCK FALSE

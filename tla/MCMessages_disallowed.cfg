SPECIFICATION DataSpec
CONSTANTS
    Null = Null
    U32Max = 3
    d1 = d1
    d2 = d2
    Component <- MCComponent
    Datum = {d1, d2}
    Writes <- MCWrites
    Expected <- NoExpectation
    Crashed = Crashed
INVARIANT ListHidesDisallowed
CHECK_DEADLOCK FALSE

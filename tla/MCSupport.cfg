SPECIFICATION MCSpec
CONSTANTS
    Limit = 3
    SizeMax = 7
    MaxSeen = 5
    Entity = {1, 2}
    Builtin <- MCBuiltin
    Name = {"nonce", "other"}
    Component = {"systems"}
    Missing = Missing
    Addr = {a1, a2, a3}
SYMMETRY Symmetry
INVARIANTS
    NewestRetained
    TraceExact
    TalFreesTrees
    TimersInOrder
    IoLoopSound

SPECIFICATION MCSpec
CONSTANTS
    Null = Null
    U32Max = 3
    c1 = c1
    c2 = c2
    Client <- MCClient
    Account = {1, 2, 3}
    MaxFunds = 1

    
PROPERTIES
    ImplementsAtomic
    NoSpuriousFailure
    SomeoneFinishes
    CommandEnds

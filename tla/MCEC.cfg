SPECIFICATION MCSpec
CONSTANTS
    Null = Null
    U32Max = 2
    Component = {c1, c2}
    Datum = {d1, d2}
INVARIANTS
    NoEmptyRow
    BoundsExact
    HtableFindsMembers
    
    
PROPERTIES
    ImplementsCells
    IntmapIsDictionary
    StrmapIsDictionary

SPECIFICATION MCSpec
CONSTANTS
    x = x
    y = y
    v1 = v1
    v2 = v2
    Absent = Absent
    Names <- MCNames
    Values <- MCValues
    MaxDepth = 5
INVARIANTS
    TypeOK
    SingleBinding
    RootStaysEmpty
PROPERTIES
    EnclosingNamesStable
    ImplementsFlatStore

SPECIFICATION Spec
CONSTANTS
    u = u
    Absent = Absent
    Names <- MCNames
    Values <- LualikeValues
    IntLimit = 4
    Significands = 4
    Ulps = {1, 2, 4, 8}
    UnitsInOne = 4
    StringCount = 2
    Expressions <- MCExpressions
    Statements <- MCStatements
    Programs <- MCPrograms
INVARIANTS
    TypeOK
    AgreesWithSemantics

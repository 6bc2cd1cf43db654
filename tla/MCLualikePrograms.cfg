SPECIFICATION FairSpec
CONSTANTS
    x = x
    y = y
    Absent = Absent
    Names <- MCNames
    Values <- LualikeValues
    IntLimit = 2
    Significands = 2
    Ulps = {1, 2, 4}
    UnitsInOne = 2
    StringCount = 1
    Expressions <- MCExpressions
    Statements <- MCStatements
    Programs <- MCPrograms
INVARIANTS
    ScopeDiscipline
    AgreesWithSemantics
PROPERTIES
    ReturnAndThrowAreFinal
    UsesScopeChain
    Termination

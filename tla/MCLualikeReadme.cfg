SPECIFICATION FairSpec
CONSTANTS
    Absent = Absent
    Names <- MCNames
    Values <- LualikeValues
    IntLimit = 8
    Significands = 8
    Ulps = {1, 2, 4, 8, 16}
    UnitsInOne = 8
    StringCount = 1
    Expressions <- MCExpressions
    Statements <- MCStatements
    Programs <- MCPrograms
INVARIANT
    PrintsSeven

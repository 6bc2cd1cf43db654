SPECIFICATION Spec
CONSTANTS
    IntLimit = 5
    Significands = 4
    Ulps = {1, 2, 4, 8}
    UnitsInOne = 4
    StringCount = 1
    x = x
    y = y
    Vars <- MCVars
    Copy = Copy
SYMMETRY MCSymmetry
INVARIANTS
    QuotientsAndRemainders
    ComparisonIsAnOrder
PROPERTIES
    ImplementsValueUpdates

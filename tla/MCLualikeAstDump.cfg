SPECIFICATION Spec
CONSTANTS
    IntLimit = 2
    Significands = 2
    Ulps = {1, 2, 4}
    UnitsInOne = 2
    StringCount = 2
    Trees <- MCTrees
INVARIANTS
    TextDeterminesTree
CHECK_DEADLOCK FALSE

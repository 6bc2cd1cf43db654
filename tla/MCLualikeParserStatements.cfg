SPECIFICATION FairSpec
CONSTANTS
    Sources <- MCSources
    ArgOrders = {"ltr"}
    MaxPhrases = 4
INVARIANTS
    AcceptsExactlyTheGrammar
    StatementsCoverTheSource
    StatementsFitTheirTokens
PROPERTIES
    EveryStepIsProgress
    Termination

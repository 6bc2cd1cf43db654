SPECIFICATION Spec
CONSTANTS
    Sources <- MCSources
    ArgOrders = {"ltr", "rtl"}
    MaxTokens = 5
INVARIANTS
    TypeOK
    BoundedRecursion
    AcceptsExactlyTheGrammar
    ExpressionsAreTrees
    ExpressionsFitTheirTokens

SPECIFICATION Spec
CONSTANTS
    Alphabetic <- MCAlphabetic
    Numeric <- MCNumeric
    Spaces <- MCSpaces
    Others <- MCOthers
    kKeywordsMap <- MCKeywords
    Texts <- MCTexts
    MaxShort = 4
INVARIANTS
    TypeOK
    NothingIsSkipped
    TokensAreLongestLexemes
    FailuresAreReal
PROPERTIES
    Termination

SPECIFICATION Spec
CONSTANTS
    SizeLimit = 1000
    Alphabetic <- MCAlphabetic
    Numeric <- MCNumeric
    Spaces <- MCSpaces
    Others <- MCOthers
    kKeywordsMap <- MCKeywords
    Texts <- MCTexts
    Names <- MCNames
    Absent = Absent
    IntLimit = 16
    Significands = 32
    Ulps = {1, 2, 4, 8, 16, 32, 64}
    UnitsInOne = 32
    StringCount = 3
    DigitValue <- MCDigitValue
    StoiLimit = 16
    StringRank <- MCStringRank
    Entries <- MCEntries
INVARIANTS
    ErrorsNameTheCulprit
    ErrorsShowTheirSource
    ResultsAreMeanings
PROPERTIES
    EveryCallReturns

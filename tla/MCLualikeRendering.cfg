SPECIFICATION Spec
CONSTANTS
    SizeLimit = 1000
    MaxText = 3
    Characters <- MCCharacters
    Texts <- MCTexts
    MessageTexts <- MCMessages
    Offsets <- MCOffsets
    CallStacks <- MCCallStacks
    Foreigns <- MCForeigns
    MaxChain = 2
INVARIANTS
    CaretsMarkTheSpan
    SnippetQuotesTheContext
    RenderingsAreComplete
CHECK_DEADLOCK FALSE

SPECIFICATION Spec
CONSTANTS
    Memories <- MCMemories
    Size <- MCSize
    RefSize <- MCRefSize
    RetrieverCost <- MCRetrieverCost
    MaxTotalChars = 20
    MaxRetrievals = 4
    MaxTotalMemories = 3
    MaxCharsPerRetrieval = 10
    MaxMemoriesPerRetrieval = 2
    MaxRestarts = 2
CHECK_DEADLOCK FALSE
INVARIANTS
    ShownWithinBudget
    PromptWithinCeiling
    NothingSentTwice
    LedgerCoversPrompts

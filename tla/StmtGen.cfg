CONSTANTS
    Names = {x}
    Vals <- MCVals
    NULL = NULL
    MaxBlocks = 6
    MaxFrames = 5
SPECIFICATION Spec
INVARIANTS
    TypeOK
    InsertInSync
    ScopeMatchesNesting
    FunctionsAreClosed
    EveryBlockIsReached
    NoCodeAfterTerminator
    NoDanglingBranchUnlessEarly
    TerminatorTracksReturns
PROPERTIES
    LeftBlocksAreFinal
    ErasesOnlyEmptyBlocks

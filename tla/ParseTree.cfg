CONSTANTS
    Pieces <- MCPieces
    MaxPieces = 5
    MaxDepth = 20
    Slots = 7
SPECIFICATION FairSpec
INVARIANTS
    TypeOK
    OneOwner
    NothingFreedIsRead
    RootIsProgram
    FollowsGrammar
    YieldIsSource
    ElseBelongsToNearestIf
PROPERTIES
    IsNodeStore
    Ends

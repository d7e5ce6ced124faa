CONSTANT MaxNodes = 7
SPECIFICATION Spec
INVARIANTS
    TypeOK
    CastsAreSound
    NeverPanics
    ListsKeepSourceOrder
    ReturnsWholeNodes

CONSTANTS
    Names = {x}
    Vals <- MCVals
    NULL = NULL
    MaxBlocks = 6
    MaxFrames = 5
SPECIFICATION Spec
INVARIANT NoDanglingBranch

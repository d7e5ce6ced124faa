CONSTANTS
    Symbols <- MCSymbols
    Strict = FALSE
    MaxNodes = 3
SPECIFICATION Spec
INVARIANTS
    TypeOK
    OperandsAreOwn
    NoUnderflowUnlessNested
PROPERTY LeftoversStay

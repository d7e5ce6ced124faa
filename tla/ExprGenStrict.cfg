CONSTANTS
    Symbols <- MCSymbols
    Strict = TRUE
    MaxNodes = 6
SPECIFICATION Spec
INVARIANTS
    WellTyped
    OperandsInPlace

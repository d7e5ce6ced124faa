CONSTANTS
    Symbols <- MCFewSymbols
    Strict = FALSE
    MaxNodes = 4
SPECIFICATION Spec
INVARIANT NoUnderflow

CONSTANTS
    Names = {x, y}
    Vals = {v1, v2}
    NULL = NULL
    MaxDepth = 3
SPECIFICATION Spec
INVARIANT TypeOK
PROPERTY IsStaticScope

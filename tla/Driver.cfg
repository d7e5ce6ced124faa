CONSTANTS
    Stems <- MCStems
    Extensions <- MCExtensions
    Arguments <- MCArguments
    MaxArgs = 4
SPECIFICATION Spec
INVARIANTS
    TypeOK
    ScanReadsArgv
PROPERTIES
    OutputOutlivesRefusal
    InputSurvives

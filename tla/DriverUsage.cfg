CONSTANTS
    Stems <- MCStems
    Extensions <- MCExtensions
    Arguments <- MCUsage
    MaxArgs = 3
SPECIFICATION Spec
INVARIANT DocumentedOptionsAreOptions

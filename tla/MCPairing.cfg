CONSTANTS
    A = A
    B = B
    Engines <- MCEngines
    Pairings <- MCPairings
    Joiner <- OneWayJoiner
    Owner <- OneWayOwner
    QUEUE = 2
    MaxCodes = 2
    MaxExtras = 1
SPECIFICATION Spec
INVARIANTS
    RequestInv
    
    CompletedMeansBoth
    BlockedOnlyInTime
PROPERTIES
    CompletedIsFinal

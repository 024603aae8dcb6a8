CONSTANTS
    A = A
    B = B
    Engines <- MCEngines
    Pairings <- MCPairings
    Joiner <- CrossedJoiner
    Owner <- CrossedOwner
    QUEUE = 2
    MaxCodes = 2
    MaxExtras = 0
SPECIFICATION Spec
INVARIANTS CrossedAgree

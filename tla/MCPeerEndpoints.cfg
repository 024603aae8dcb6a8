SPECIFICATION Spec
CONSTANTS
    a = a
    b = b
    Nodes <- MCNodes
    PairedAt <- MCPairedAt
    Changing = {a}
    MaxChanges = 3
    MaxFrames = 1
INVARIANTS
    EndpointInv
    AdmitsWhatItGranted
PROPERTIES
    NeverBack
    Reconnects

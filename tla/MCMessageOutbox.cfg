SPECIFICATION Spec
CONSTANTS
    Messages = {m1, m2, m3}
    MaxAttempts = 2
SYMMETRY Symmetry
INVARIANTS
    Inv
    PendingDeliveryIsOwned
PROPERTIES
    PersistedNeverResent
    

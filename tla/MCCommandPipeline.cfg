CONSTANTS
    Calls = {"m1", "m2", "d1", "k1"}
    Ids = {"c1", "c2"}
    IdOf <- MCIdOf
    KindOf <- MCKindOf
    INBOX = 2
    OUT = 1
    MaxFaults = 2
SPECIFICATION Spec
CHECK_DEADLOCK FALSE
INVARIANTS
    PipelineInv
    Idempotent
    AnnouncedHead
PROPERTIES
    
    EventuallyAnswered

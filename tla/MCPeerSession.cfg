SPECIFICATION Spec
CONSTANTS
    Outbox <- MCOutbox
    Messages = {"m1"}
    Slots = {"EndpointUpdate"}
    MaxEndpoints = 1
    MaxSlotCommands = 1
    OUTBOUND_CAPACITY = 1
    SESSION_CAPACITY = 1
\* The engine has nothing left to send.
CHECK_DEADLOCK FALSE
INVARIANTS
    SessionInv
    AcknowledgedIsStored
PROPERTIES
    NoFailureAfterPersisted

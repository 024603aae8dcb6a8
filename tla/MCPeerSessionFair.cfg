SPECIFICATION FairSpec
CONSTANTS
    Outbox <- MCMessage
    Messages = {"m1"}
    Slots = {"EndpointUpdate", "Probe", "Ephemeral"}
    MaxEndpoints = 2
    MaxSlotCommands = 1
    OUTBOUND_CAPACITY = 1
    SESSION_CAPACITY = 1
PROPERTIES
    EventuallyAcknowledged
\* The engine has nothing left to send.
CHECK_DEADLOCK FALSE

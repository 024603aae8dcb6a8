SPECIFICATION SchedulerFairSpec
CONSTANTS
    RetryOrder <- MCRetryOrder
    Stuck = {"RelationshipRemoval"}
    ENGINE_INBOX_CAPACITY = 1
    MaxInputs = 1
INVARIANTS
    LoopInv
PROPERTIES
    NoEarlyRun
    DueTimerRuns
    

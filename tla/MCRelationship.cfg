SPECIFICATION Spec
CONSTANTS
    Commands = {"c1", "c2"}
    Notices = {"n1", "n2"}
    NoticeGroup <- MCNoticeGroup
    NoticeEpoch <- MCNoticeEpoch
    Messages = {"m1"}
    MaxGroups = 3
    MaxSequence = 2
    MaxSends = 2
    RELATIONSHIP_REMOVAL_MAX_ATTEMPTS = 2
INVARIANTS
    RemovalInv
    RemovedStaysRemoved
    SnapshotCurrent
PROPERTIES
    EpochsAdvance

SPECIFICATION FairSpec
CONSTANTS
    Messages = {m1, m2}
    Receipts = {r1}
    Capabilities = {}
    Transients = {t1}
    Relayed = {m2, r1}
    Undecryptable = {}
    MaxCrashes = 2
INVARIANTS
    InboxInv
    MessageNeverQuarantined
    DeferredReplayed
PROPERTIES
    NoResurrection
    PersistedIsResolved

SPECIFICATION RelaySpec
CONSTANTS
    Connections = {c1, c2, c3}
    Handles = {h1, h2}
    Pairings = {p1, p2}
    MAX_CONNECTIONS = 2
    MAX_SLOTS = 2
    MAX_SLOTS_PER_CONNECTION = 1
    MAX_PAIRINGS_PER_CONNECTION = 1
    MAX_CODE_ATTEMPTS = 1
SYMMETRY Symmetry
INVARIANTS
    BrokerInv
    PairingCountExact
    EndingsAgree

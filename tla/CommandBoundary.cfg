CONSTANTS
    Callers = {p1, p2}
    CommandIds = {c1, c2}
    Requests = {r1, r2}
    None = None
    MaxCrashes = 1
    MaxQuiesce = 1
SPECIFICATION FairSpec
INVARIANTS
    ExactlyOnce
    DrainedIsQuiet
PROPERTIES
    LedgerSpec
    GateDrains

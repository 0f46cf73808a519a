CONSTANTS
    Hosts = {h1, h2}
    First = h1
    None = None
    MaxRuns = 2
    MaxFaults = 2
    MaxWork = 1
SPECIFICATION MCSpec
INVARIANTS
    OwnerWhileBusy
    ReadyIsPublished
PROPERTIES
    FailedIsCleanedUp
CHECK_DEADLOCK FALSE

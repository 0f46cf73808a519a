CONSTANTS
    Hosts = {h1}
    First = h1
    None = None
    MaxRuns = 1
    MaxFaults = 0
    MaxWork = 1
SPECIFICATION Spec
INVARIANTS
    AcknowledgedStays
CHECK_DEADLOCK FALSE

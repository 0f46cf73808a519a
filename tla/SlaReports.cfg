SPECIFICATION Spec
CONSTANTS
    Batches <- MCBatches
    MaxFaults = 4
    MaxTries = 6
    MaxLive = 2
    Damaged = Damaged
    None = None
INVARIANTS
    CompletedIsExact
    JobAgrees
PROPERTY
    RecoveryAccepts
CHECK_DEADLOCK FALSE

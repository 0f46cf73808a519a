CONSTANTS
    JobIds = {j1, j2}
    First = j1
    Early = {0, 5}
    Types = {"grouping_recompute", "source_check", "sla_report", "sr_reappearance", "retired"}
    Registered = {"grouping_recompute", "source_check", "sla_report", "sr_reappearance"}
    Keys = {k1}
    Clock = {0, 5, 40, 200}
    SeedTime = 0
    MaxRuns = 2
SPECIFICATION MCSpec
CHECK_DEADLOCK FALSE
INVARIANTS
    AttemptsInSequence
    ClaimsAccounted
    RetryBudget
    OneJobPerIdentity
    RecoveryComplete
PROPERTIES
    CheckpointFenced
    RecoveryEnds

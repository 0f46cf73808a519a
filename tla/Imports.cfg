CONSTANTS
    Jobs = {j1, j2}
    RunIds = {r1, r2, r3}
    NoRun = NoRun
    Chronologies = {1, 2}
    Contents = {A, B}
    NoContent = NoContent
    Materials = {m1, m2}
    Blocked = {m2}
    Batches = 2
    MaxAttempts = 2
    MaxFaults = 2
SPECIFICATION MCSpec
SYMMETRY Symmetry
INVARIANTS CountersExact ReappearanceIsCurrent PublishedIsWhole CompletedIsSettled
PROPERTIES SourceMovesForward
CHECK_DEADLOCK FALSE

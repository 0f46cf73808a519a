SPECIFICATION MCSpec
CONSTANTS
    None = None
    t1 = t1
    t2 = t2
    t3 = t3
    w1 = w1
    w2 = w2
    w3 = w3
    r1 = r1
    r2 = r2
    d1 = d1
    Tasks = {t1, t2, t3}
    Intervals <- MCIntervals
    Instants = {1, 2}
    Links = {d1}
    DeviceLinks = {d1}
    Rfcs = {r1, r2}
    TaskNos = {w1, w2, w3}
    MaxPlans = 2
    MaxEvents = 3
    MaxObjectives = 3
    MaxReviews = 1
    MaxSource = 2
    MaxProposals = 3
    MaxBatch = 2
INVARIANT
    RunningIsUndecided
CHECK_DEADLOCK FALSE

SPECIFICATION MCSpec
CONSTANTS
    None = None
    r1 = r1
    r2 = r2
    r3 = r3
    s1 = s1
    c1 = c1
    c2 = c2
    w1 = w1
    w2 = w2
    Rfcs = {r1, r2, r3}
    s2 = s2
    p1 = p1
    k1 = k1
    k2 = k2
    l1 = l1
    SRs = {s1, s2}
    Customers = {c1, c2}
    o1 = o1
    o2 = o2
    Official = {o1, o2}
    Sorted <- MCSorted
    e1 = e1
    Runs = {e1, e2, e3}
    Ages = {2, 3}
    Exports <- MCExports
    MaxLost = 1
    Codes = {a1}
    Lines = {l1}
    Contracts = {k1, k2}
    Cpls = {p1, p2}
    Mappings = {m1}
    Attempts = {b1, b2}
    BatchRequests <- MCBatch
    Wfms = {w1, w2}
    MaxCommands = 5
SYMMETRY Symmetry
INVARIANTS
    PendingIsCurrent
    RestorableOnce
    BranchIsSound
    ClassifiedWithinCustomer
    BatchSummaryIsTrue
    WarningIsCurrent
PROPERTY
    ExecutesWholeBranch
CHECK_DEADLOCK FALSE

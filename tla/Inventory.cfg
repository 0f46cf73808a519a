SPECIFICATION MCSpec
CONSTANTS
    None = None
    n1 = n1
    n2 = n2
    u1 = u1
    u2 = u2
    q1 = q1
    t1 = t1
    t2 = t2
    s1 = s1
    s2 = s2
    c1 = c1
    c2 = c2
    e1 = e1
    p1 = p1
    Devices = {1, 2}
    Needs = {n1, n2}
    Units = {u1, u2}
    Requests = {q1}
    Rmas = {11, 12}
    Tasks = {t1, t2}
    Sr7s = {s1, s2}
    C10s = {c1, c2}
    Shipments = {e1}
    Tags = {21, 22, 23}
    Proposals = {p1}
    UnitConditions = {"new", "faulty"}
    MaxQuantity = 2
    SrOf <- MCSrOf
    BomOf <- MCBomOf
    TaskSrs <- MCTaskSrs
INVARIANTS
    ReservationMirror
    RequestCounts
    TargetExclusive
    OpenReturnsShown
    ExclusiveReturn
    TagCounters
    NothingDangles
CHECK_DEADLOCK FALSE

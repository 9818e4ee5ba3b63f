CONSTANTS
    k1 = k1
    k2 = k2
    k3 = k3
    v1 = v1
    v2 = v2
    c1 = c1
    c2 = c2
    r1 = r1
    r2 = r2
    r3 = r3
    t1 = t1
    t2 = t2
    q1 = q1
    q2 = q2
    Keys = {k1, k2, k3}
    Values = {v1, v2}
    Miss = Miss
    MaxEntries = 2
    Ttl = 2
    MaxStores = 4
    MaxTime = 3
    None = None
    Clients = {c1}
    Requests = {r1, r2, r3}
    Toolsets = {t1, t2}
    MaxFrames = 1
    HoursPerDay = 2
    RetentionDays = 2
    MinGeneration = 1
    WindowDays <- MCWindowDays
    Null = Null
    Routed = {q1, q2}
    Kinds <- MCKinds
    OldRows <- MCOldRows
    StartTime = 5
    MaxNow = 7
    MaxBoots = 2
    MaxFaults = 2
    Asks <- MCAsks
    Queries = 2
SPECIFICATION MCSpec
CONSTRAINT InTime
SYMMETRY Symmetry
CHECK_DEADLOCK FALSE
INVARIANTS
    StoreInv
    IInv
    AskedIsMeant
    LogInv
    MonitorAgrees
    PanelsAddUp
PROPERTIES
    StoreKeepsPromise
    LogOnlyAges

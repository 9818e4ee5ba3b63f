CONSTANTS
    t1 = t1
    t2 = t2
    c1 = c1
    c2 = c2
    c3 = c3
    AsgiConns = {c1}
    ProxyConns = {c2, c3}
    MaxAttempts = 2
    IdleTimeout = 2
    Threads = {t1, t2}
    Validity = 3
    Margin = 1
    MaxClock = 5
    MaxBoots = 3
    Missing = Missing
SPECIFICATION MCFairSpec
INVARIANTS
    PartsInv
    NothingHeld
    PairMatches
    ContextIsCurrent
    EndsInOrder
PROPERTIES
    KeepsExchange
    EverythingServed

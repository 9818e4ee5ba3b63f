CONSTANTS
    c1 = c1
    c2 = c2
    c3 = c3
    AsgiConns = {c1}
    ProxyConns = {c2, c3}
SPECIFICATION MCFairSpec
PROPERTY DrainDeadlineHolds

CONSTANTS
    r1 = r1
    r2 = r2
    r3 = r3
    Requests = {r1, r2}
    Streaming = {r1}
    Stagger = 2
    Margin = 1
    Poll = 1
    WaitMax = 4
    Hints = {0, 2}
    MaxRetries = 1
    RetryDelay = 1
    MaxLag = 0
    StartBy = 1
    CallMax = 1
SPECIFICATION MCWiredSpec
PROPERTY GoneClientNotCalled

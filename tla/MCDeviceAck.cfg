SPECIFICATION MCDevSpec
CONSTANTS
    c1 = c1
    c2 = c2
    c3 = c3
    c4 = c4
    None = None
    Ids = {c1, c2, c3, c4}
    RequestOf <- MCRequestOf
    Slots = 2
    QueueDepth = 2
    ReplayDepth = 1
    MaxRemembered = 4
INVARIANT AckedWasAccepted

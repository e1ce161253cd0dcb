SPECIFICATION Spec
CONSTANTS
    c1 = c1
    c2 = c2
    None = None
    NoKey = NoKey
    Absent = Absent
    Ids = {c1, c2}
    CommandIds = {c1, c2}
    Keys = {k1}
    RequestOf <- MCRequestOf
    Slots = 2
    QueueDepth = 1
    ReplayDepth = 1
    Ttl = 1
    MaxNow = 1
    MaxReboots = 1
    MaxRestarts = 1
INVARIANTS
    ExecutedOncePerBoot
    

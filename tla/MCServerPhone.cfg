SPECIFICATION MCLiveSpec
CONSTANTS
    Ids = {1, 2, 3, 4, 5}
    Intervals = {0, 30, 60}
    ServerDefault = 60
    DeviceDefault = 0
    Absent = Absent
    MaxPuts = 1
    MaxExpiries = 1
    MaxResets = 1
    MaxPresses = 1
    StartSeq = 0
    GapTimeout = 2
    MaxSeq = 5
    RingMax = 2
    MaxChunk = 4
    MaxLinks = 2
    MaxDrops = 1
    MaxAsked = 1
CHECK_DEADLOCK FALSE
INVARIANTS
    EndTypesOK
    
    NothingDropped
    OnceOnWire
PROPERTIES
    NoCommandStorm
    
    DeadlineKept
    ImplementsStream
    EveryPacketAdvances
    BackfillAnswered

SPECIFICATION MCSessSpec
CONSTANTS
    RingMax = 2
    MaxChunk = 2
    MaxLinks = 1
    MaxDrops = 0
    MaxAsked = 0
CHECK_DEADLOCK FALSE
INVARIANTS
    HelloFirst

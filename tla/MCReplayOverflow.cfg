SPECIFICATION ReplaySpec
CONSTANTS
    RingFrames = 4
    Chunk = 2
    Preroll = 3
    Lengths = {1, 3}
    Budget = 6
    Windows = {4}
INVARIANT FitsArrays

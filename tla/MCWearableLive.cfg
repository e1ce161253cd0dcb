SPECIFICATION MCLiveSpec
CONSTANTS
    Helpers = {h1, h2}
    Executor = exec
    VideoTasks = {v1}
    Clips = {0, 1}
    NoOne = NoOne
    MaxFiles = 2
    Cap = 2
    MaxNames = 1
    MaxCrashes = 1
    Intervals = {30}
    MaxFlushes = 2
    MaxConnects = 2
    RingFrames = 5
    Chunk = 2
    Preroll = 3
    MaxFrames = 7
CHECK_DEADLOCK FALSE
PROPERTIES
    StopsReturn
    
    Reachable
    EveryFramePassed

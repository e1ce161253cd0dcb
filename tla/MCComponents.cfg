SPECIFICATION MCSpec
CONSTANTS
    Helpers = {h1, h2}
    Executor = exec
    VideoTasks = {v1, v2}
    Clips = {0, 1}
    NoOne = NoOne
    MaxFiles = 3
    Cap = 2
    MaxNames = 1
    MaxCrashes = 1
    Intervals = {30}
    MaxFlushes = 2
    MaxConnects = 2
    RingFrames = 5
    Chunk = 2
    Preroll = 3
    MaxFrames = 8
    Lengths = {1, 3, 4}
    Budget = 4
    Windows = {0, 6}
    MaxReplayFrames = 6
    c1 = c1
    c2 = c2
    c3 = c3
    c4 = c4
    None = None
    Ids = {c1, c2, c3, c4}
    RequestOf <- MCRequestOf
    Slots = 2
    QueueDepth = 2
    ReplayDepth = 1
    MaxRemembered = 4
    FloorMin = 40
    Multiplier = 3
    AlphaDown = 5
    AlphaUp = 2
    Q = 32
    Word = 1024
    HangoverFrames = 3
    MaxEnergy = 300
    Energies = {0, 25, 39, 50, 58, 70, 120, 290}
    DoubleGap = 2
    Long = 3
    VeryLong = 5
    Wrap = 8
    Lags = {1, 2}
    MaxPolls = 7
    ServerKeys = {k1, k2}
    Zero = Zero
    Missing = Missing
    MaxBoots = 3
    MaxFailures = 1
    MaxConns = 2
    MaxAudio = 3
    MaxQueue = 2
    MaxAttempts = 2
    MaxStarts = 2
    MaxSensors = 4
CHECK_DEADLOCK FALSE
INVARIANTS
    ComponentTypesOK
    SoleRecorder
    ListedWhenClosed
    
    
    QuietWindow
    VoicedAccounted
    LostOnlyWhenLapped
    RequestServed
    DedupeWindow
    FloorWithinHeard
    GesturesAsDefined
    VerifierIsInstalled
    RebootSeesKey
    EndedIsClosed
    CarriedIsActive
    RefusedOnlyInOverlap
    HeardUnlessOverflow
    NeverStranded
    OneLinkAtATime
PROPERTIES
    
    RepeatsOnce
    FreshBootId

SPECIFICATION GatewaySpec
CONSTANTS
    MaxConns = 2
    MaxAudio = 3
    MaxQueue = 2
CHECK_DEADLOCK FALSE
INVARIANT TranscriptsStored

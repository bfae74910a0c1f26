SPECIFICATION Spec
CONSTANTS
    Tracks = {t1}
    NLanes = 2
    Width = 2
    Offset = 1
    Cadences = {1}
    Window = 3
    Consecutive = 2
    UnknownTimeout = 1
    TrackTimeout = 1
    MinAge = 2
    CountUnstable = FALSE
    Unknown = Unknown
    NoLane = NoLane
    MaxAttempts = 1
    MaxReadFailures = 0
    MaxFrame = 5
    MaxConnections = 2
    MaxCores = 1
    EnqueueMax = 3
INVARIANTS NoGhostOccupancy
CHECK_DEADLOCK FALSE

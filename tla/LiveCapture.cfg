SPECIFICATION Spec
CONSTANTS
    Tracks = {t1}
    NLanes = 2
    Width = 2
    Offset = 1
    Cadences = {1, 2}
    Window = 4
    Consecutive = 2
    UnknownTimeout = 1
    TrackTimeout = 1
    MinAge = 2
    CountUnstable = FALSE
    Unknown = Unknown
    NoLane = NoLane
    MaxAttempts = 1
    MaxReadFailures = 1
    MaxFrame = 3
    MaxConnections = 2
    MaxCores = 2
    EnqueueMax = 3
INVARIANTS CountedOnce EnqueuedOncePerCore GhostsExpire ReplayedAsDetected
CHECK_DEADLOCK FALSE

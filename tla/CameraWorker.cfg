SPECIFICATION FairWorker
CONSTANTS
    Tracks = {t1}
    NLanes = 2
    Width = 1
    Offset = 1
    Cadences = {1, 2}
    Window = 2
    Consecutive = 1
    UnknownTimeout = 1
    TrackTimeout = 1
    MinAge = 2
    CountUnstable = FALSE
    Unknown = Unknown
    NoLane = NoLane
    Video = video
    Log = log
    QueueMax = 2
    LastFrame = 3
    DetectEvery = 1
    RoiCrop = TRUE
    Stop = Stop
    MaxRuns = 2
INVARIANTS ReturnsWhenWritten CountsAgree
PROPERTIES StoppedWorkerExits
CHECK_DEADLOCK FALSE

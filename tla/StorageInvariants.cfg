SPECIFICATION FairSpec
CONSTANTS
    Crossings = {c1, c2}
    LaneChanges = {l1}
    Sentinel = Sentinel
    NoEvent = NoEvent
    QMax = 2
    QCrit = 1
    BatchMax = 2
    DeadMax = 2
INVARIANTS TypeOK HandInv PlaceInv OneTaken StoredOnce CrossingsWithinDepth StopReachesWorker
CHECK_DEADLOCK FALSE

SPECIFICATION Spec
CONSTANTS
    Viewers = {v1, v2}
    MaxFrames = 2
    MaxHandles = 3
    MaxLost = 1
INVARIANTS TypeOK HandlesInv InOrder NewestIsOnItsWay WatchersAreCounted
CHECK_DEADLOCK FALSE

SPECIFICATION FairSpec
CONSTANTS
    Viewers = {v1}
    MaxFrames = 2
    MaxHandles = 2
    MaxLost = 0
INVARIANTS HandlesAreHeld
PROPERTIES ServedInOrder NewestIsServed
CHECK_DEADLOCK FALSE

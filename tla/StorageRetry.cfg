SPECIFICATION Spec
CONSTANTS
    Crossings = {c1}
    LaneChanges = {l1, l2}
    Sentinel = Sentinel
    NoEvent = NoEvent
    QMax = 2
    QCrit = 1
    BatchMax = 2
    DeadMax = 3
INVARIANTS RetryLosesNothing
CHECK_DEADLOCK FALSE

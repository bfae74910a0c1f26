SPECIFICATION FairSpec
CONSTANTS
    Crossings = {c1, c2}
    LaneChanges = {l1}
    Sentinel = Sentinel
    NoEvent = NoEvent
    QMax = 2
    QCrit = 1
    BatchMax = 2
    DeadMax = 2
INVARIANTS NoSilentLoss CountersAddUp PublishedAfterStored RollupsMatchRows
PROPERTIES ImplementsLedger StopEndsCrossingWorker QueuedIsSettled
CHECK_DEADLOCK FALSE

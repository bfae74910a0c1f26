SPECIFICATION Spec
CONSTANTS
    Gens = {1, 2}
    MaxAttempts = 1
    HistoryLimit = 2
INVARIANTS TypeOK PointersInv OwnAlertsInv ShownInv AttemptsInv
CHECK_DEADLOCK FALSE

SPECIFICATION Spec
CONSTANTS
    Gens = {1, 2}
    MaxAttempts = 1
    HistoryLimit = 2
INVARIANTS ActiveAreSuppressed DeliveringClearsAlerts ShownOnIsRunning
CHECK_DEADLOCK FALSE

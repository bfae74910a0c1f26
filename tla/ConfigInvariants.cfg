SPECIFICATION Spec
CONSTANTS
    Loop = Loop
    Metrics = Metrics
    Starters = {sup}
    MaxSaves = 2
INVARIANTS TypeOK WritersInv StoppedInv ServedInv
CHECK_DEADLOCK FALSE

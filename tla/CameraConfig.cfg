SPECIFICATION FairSpec
CONSTANTS
    Loop = Loop
    Metrics = Metrics
    Starters = {sup}
    MaxSaves = 2
INVARIANTS SavedIsServed DeletedIsStopped
PROPERTIES PresetsReturn
CHECK_DEADLOCK FALSE

SPECIFICATION ReportsSpec
CONSTANTS
    Lanes <- MCLanes
    HourSlots = 2
    DayHours = 2
    LastSlot = 4
    MaxLag = 1
    MaxRows = 3
    RowLimit = 2
INVARIANTS ReportsTypeOK BucketsInv RequestInv

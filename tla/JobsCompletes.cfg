SPECIFICATION FairSpec
CONSTANTS
    Jobs = {j1, j2}
    Caps = {1, 2}
    MaxChanges = 2
INVARIANT FaultlessJobCompletes
CHECK_DEADLOCK FALSE

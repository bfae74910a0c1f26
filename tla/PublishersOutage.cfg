SPECIFICATION FairPublishers
CONSTANTS
    Callers = {c1, c2, w}
    Captures = {c1, c2}
    Threshold = 2
    MaxProbes = 1
PROPERTIES AlwaysRecovers
CHECK_DEADLOCK FALSE

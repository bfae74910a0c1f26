SPECIFICATION Spec
CONSTANTS
    Viewers = {v1}
    MaxFrames = 2
    MaxHandles = 1
    MaxLost = 0
PROPERTIES NeverGoesBack
CHECK_DEADLOCK FALSE

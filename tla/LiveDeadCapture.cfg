SPECIFICATION FairSpec
CONSTANTS
    Cameras = {c1}
    Gens = {g1, g2}
    Viewers = {v1}
    Operators = {op}
    Loop = Loop
    Sup = Sup
    None = None
    MaxStreams = 1
    MaxLost = 1
    EnvAuto = TRUE
PROPERTIES DeadIsRestarted

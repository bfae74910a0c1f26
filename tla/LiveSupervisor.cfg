SPECIFICATION FairSpec
CONSTANTS
    Cameras = {c1, c2}
    Gens = {g1, g2}
    Viewers = {v1}
    Operators = {op}
    Loop = Loop
    Sup = Sup
    None = None
    MaxStreams = 1
    MaxLost = 0
    EnvAuto = TRUE
PROPERTIES SupervisorRestores

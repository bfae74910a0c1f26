SPECIFICATION Spec
CONSTANTS
    Cameras = {c1, c2}
    Gens = {g1, g2, g3, g4}
    Viewers = {v1}
    Operators = {op}
    Loop = Loop
    Sup = Sup
    None = None
    MaxStreams = 1
    MaxLost = 1
    EnvAuto = TRUE
INVARIANTS NoOrphanPipeline RegisteredIsRunning CapOvershootBounded ConnectionsAreWatched
SYMMETRY Symmetry

CONSTANTS
    Writers = {w1, w2}
    Size = 6
    Lens = {2, 3}
    WlbSize = 5
    SeqMax = 2
    None = None
    MaxRec = 5
    MaxLap = 3
SYMMETRY Symmetry
CONSTRAINT Explored
SPECIFICATION Spec
INVARIANTS InOrder NoneSkipped CaughtUp
CHECK_DEADLOCK FALSE

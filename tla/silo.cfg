CONSTANTS
    Objs = {o1, o2}
    Media = 5
    Aim = 2
    Reserve = 2
    MaxSid = 4
    MaxStart = 3
    o1 = o1
    o2 = o2
SPECIFICATION Spec
SYMMETRY Symmetry
CONSTRAINT Explored
INVARIANTS TablesIntact DisjointBefore BodyKept
CHECK_DEADLOCK FALSE

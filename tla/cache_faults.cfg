SPECIFICATION Spec
CONSTANTS
    Sessions = {s1, s2}
    Timer = timer
    OCs = {c1, c2}
    Heads = {h1}
    Variants = {v1, v2}
    NoVary = NoVary
    PassObj = PassObj
    None = None
    RushExponent = 1
    MaxRestarts = 1
    MaxOhref = 3
    Vcl = {"esi"}
    Faults = {"nostorage", "badvary", "drop"}
SYMMETRY MCSymmetry
INVARIANTS
    RefcntCovers
    Coalesced
CHECK_DEADLOCK FALSE

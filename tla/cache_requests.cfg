SPECIFICATION Spec
CONSTANTS
    Sessions = {s1, s2}
    Timer = timer
    OCs = {c1, c2}
    Heads = {h1}
    Variants = {v1}
    NoVary = NoVary
    PassObj = PassObj
    None = None
    RushExponent = 1
    MaxRestarts = 2
    MaxOhref = 3
    Vcl = {"pass", "pipe", "error", "restart", "hit_for_pass"}
    Faults = {"backend"}
SYMMETRY MCSymmetry
INVARIANTS
    TypeOK
    RefcntExact
    OhrefExact
    ListsExact
    NoSpareBusyobj
    NoLeftoverObjcore
    AssertsHold

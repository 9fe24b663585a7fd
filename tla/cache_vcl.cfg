SPECIFICATION Spec
CONSTANTS
    Sessions = {s1, s2}
    Timer = timer
    OCs = {c1, c2}
    Heads = {h1}
    Variants = {v1}
    NoVary = NoVary
    PassObj = PassObj
    None = None
    RushExponent = 1
    MaxRestarts = 1
    MaxOhref = 3
    Vcl = {"restart", "stream", "purge", "obj_ttl", "always_miss", "ignore_busy"}
    Faults = {"backend", "sick", "nuke"}
SYMMETRY MCSymmetry
INVARIANTS
    BusyAtTail
    BusyOwned
PROPERTIES
    ZeroIsFinal

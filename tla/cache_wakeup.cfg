SPECIFICATION FairSpec
CONSTANTS
    Sessions = {s1, s2, s3}
    Timer = timer
    OCs = {c1}
    Heads = {h1}
    Variants = {v1}
    NoVary = NoVary
    PassObj = PassObj
    None = None
    RushExponent = 1
    MaxRestarts = 1
    MaxOhref = 3
    Vcl = {"hit_for_pass"}
    Faults = {"backend"}
INVARIANTS
    WaiterHasWaker
PROPERTIES
    WaitersRestart

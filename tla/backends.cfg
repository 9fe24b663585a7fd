CONSTANTS
    Workers = {w1, w2}
    v1 = v1
    v2 = v2
    b1 = b1
    Vcls = {v1, v2}
    Backends = {b1}
    MaxParked = 1
    NULL = NULL
    Uses <- MCUses
    Hosts <- MCHosts
    BadVmod = {v2}
    Probes <- MCProbes
    MaxConn = 1
    Window = 1
    Threshold = 1
    Initial = 0
    Matched = {b1}
    AdminStates = {"probe"}
SYMMETRY Symmetry
CONSTRAINT Explored
SPECIFICATION Spec
INVARIANTS VclRefsExact HeldIsUsable BackendRefsExact UnprobedHealthy ProbedIsAlive

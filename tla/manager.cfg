CONSTANTS
    Vcls = {boot, v2}
    Boot = boot
    None = None
    auto_restart = TRUE
    ping = TRUE
    MaxPipe = 2
    boot = boot
    v2 = v2
SPECIFICATION Spec
INVARIANTS InSync EventsMatchState
PROPERTIES DeadIsReaped HungIsKilled
CHECK_DEADLOCK FALSE

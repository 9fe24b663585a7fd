SPECIFICATION Spec
CONSTANTS
    Bans = {b1, b2}
    OCs = {o1}
    Kinds = {k1, k2}
    Clients = {c1}
    CLIs = {cli}
    Lurker = lurker
    None = None
    Params <- LurkerOnly
INVARIANTS
    BannedNotServed

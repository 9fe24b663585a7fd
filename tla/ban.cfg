SPECIFICATION Spec
CONSTANTS
    Bans = {b1, b2, b3}
    OCs = {o1}
    Kinds = {k1, k2}
    Clients = {c1}
    CLIs = {cli}
    Lurker = lurker
    None = None
    Params <- OffOrOn
SYMMETRY MCSymmetry
INVARIANTS
    BanRefsExact
    ScanSafe
    LookupsHonourBans

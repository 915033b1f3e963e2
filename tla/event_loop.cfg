SPECIFICATION Spec
CONSTANTS
    c1 = c1
    c2 = c2
    c3 = c3
    Clients = {c1, c2, c3}
    MaxWaiting = 1
    Limit = 2
    Window = 1
    Bursts = {2}
    Faults = {"long quit", "signal"}
SYMMETRY Permute
INVARIANTS
    TypeOK
    NothingLeftBehind
    WritesWhenNeeded
    RoundComplete
    PausedForClients
    LingerersAreFull
PROPERTIES
    NothingAfterOverflow
CHECK_DEADLOCK FALSE

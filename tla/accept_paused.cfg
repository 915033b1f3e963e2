SPECIFICATION Spec
CONSTANTS
    c1 = c1
    c2 = c2
    c3 = c3
    Clients = {c1, c2}
    MaxWaiting = 1
    Limit = 1
    Window = 1
    Bursts = {1}
    Faults = {"close", "accept"}
INVARIANTS
    PausedForClients
CHECK_DEADLOCK FALSE

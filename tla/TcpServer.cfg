SPECIFICATION Spec
CONSTANTS
    Clients = {c1, c2, c3}
    Threads = {t1, t2, t3}
    Maps = {m1, m2, m3}
    Unrepeatable = {m3}
    Undecodable = {}
    Failing = {m1}
    Panicking = {m2}
    NoMap = NoMap
    NoThread = NoThread
    NumHooks = 1
    Faults = {"badRequest", "restart", "refreeze", "password"}
SYMMETRY Symmetry
INVARIANTS
    TcpServerTypeOK
    HostedOnce
    OthersReleased
CHECK_DEADLOCK FALSE

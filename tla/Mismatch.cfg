SPECIFICATION Spec
CONSTANTS
    Clients = {c1, c2}
    Threads = {t1, t2}
    Maps = {m1}
    Unrepeatable = {m1}
    Undecodable = {}
    Failing = {}
    Panicking = {}
    NoMap = NoMap
    NoThread = NoThread
    NumHooks = 1
    Faults = {}
INVARIANT ProcessedOnlyInInit
CHECK_DEADLOCK FALSE

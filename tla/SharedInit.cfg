SPECIFICATION Spec
CONSTANTS
    Clients = {c1, c2}
    Threads = {t1, t2}
    Maps = {m1}
    Unrepeatable = {}
    Undecodable = {}
    Failing = {m1}
    Panicking = {}
    NoMap = NoMap
    NoThread = NoThread
    NumHooks = 1
    Faults = {}
INVARIANT OkMeansInHand
CHECK_DEADLOCK FALSE

SPECIFICATION FairSpec
CONSTANTS
    Clients = {c1, c2}
    Threads = {t1, t2, t3}
    Maps = {m1, m2, m3}
    Unrepeatable = {}
    Undecodable = {m2}
    Failing = {m3}
    Panicking = {}
    NoMap = NoMap
    NoThread = NoThread
    NumHooks = 1
    Faults = {}
INVARIANTS
    ReliableInHand
PROPERTIES
    OkMeansHostedSoon
    HashReleased
CHECK_DEADLOCK FALSE

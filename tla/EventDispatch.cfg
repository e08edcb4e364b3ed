SPECIFICATION FairSpec
CONSTANTS
    c1 = c1
    c2 = c2
    c3 = c3
    m1 = m1
    m2 = m2
    Callers = {c1, c2, c3}
    Conns = {t1, t2}
    Workers = {w1, w2}
    Maps = {m1, m2}
    NumHooks = 2
    NumSets = 2
    Scenarios <- MCScenarios
    Faults = {"cutRequest", "restart"}
    Nobody = Nobody
    NotShown = NotShown
    Newest = Newest
INVARIANTS
    EventTypeOK
    ShownWhole
PROPERTIES
    ImplementsLog
    RequestsEnd
    OkEventRuns
CHECK_DEADLOCK FALSE

SPECIFICATION FairSpec
CONSTANTS
    c1 = c1
    c2 = c2
    c3 = c3
    m1 = m1
    m2 = m2
    Callers = {c1, c2, c3}
    Conns = {t1}
    Workers = {w1}
    Maps = {m1, m2}
    NumHooks = 1
    NumSets = 1
    Scenarios <- OneEvent
    Faults = {"cutRequest"}
    Nobody = Nobody
    NotShown = NotShown
    Newest = Newest
PROPERTY CallsEnd
CHECK_DEADLOCK FALSE

SPECIFICATION FairSpec
CONSTANTS
    Keys = {k1, k2}
    Vals = {v1, v2}
    Absent = Absent
    MaxU64 = 1000
    NoHash = NoHash
    Slaves = {s1}
    Initial <- MCInitial
    Manners = {"any", "next"}
    Targets <- LastTarget
    Batches <- AnyBatch
    NotHosted = NotHosted
    NoCall = NoCall
    MaxUpdates = 3
    MaxRestarts = 1
    MaxEarlySets = 1
INVARIANTS
    AnswerFits
PROPERTIES
    Convergence

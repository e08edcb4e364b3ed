SPECIFICATION Spec
CONSTANTS
    Keys = {k1, k2}
    Vals = {v1, v2}
    Absent = Absent
    MaxU64 = 1000
    NoHash = NoHash
    Slaves = {s1}
    Initial <- MCInitial
    Manners = {"any"}
    Targets <- EveryTarget
    Batches <- AnyBatch
    NotHosted = NotHosted
    NoCall = NoCall
    MaxUpdates = 2
    MaxRestarts = 1
    MaxEarlySets = 0
PROPERTY NeverBackwards

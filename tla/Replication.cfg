SPECIFICATION Spec
CONSTANTS
    Keys = {k1, k2}
    Vals = {v1, v2}
    Absent = Absent
    MaxU64 = 1000
    NoHash = NoHash
    Slaves = {s1, s2}
    Initial <- MCInitial
    Manners = {"any"}
    Targets <- EveryTarget
    Batches <- AnyBatch
    NotHosted = NotHosted
    NoCall = NoCall
    MaxUpdates = 3
    MaxRestarts = 0
    MaxEarlySets = 0
SYMMETRY Symmetry
INVARIANTS
    ReplicationTypeOK
    SlaveHoldsVersion
    RelayAnswersAreVersions
PROPERTIES
    ImplementsStore

SPECIFICATION HSpec
CONSTANTS
    Keys = {k1, k2}
    Vals = {v1, v2}
    Absent = Absent
    MaxU64 = 1000
    NoHash = NoHash
    NoModifier = NoModifier
    MaxPushes = 2
    MaxUpdates = 3
SYMMETRY Symmetry
INVARIANTS
    HistoryTypeOK
    ForwardDiffExact
    ForwardDiffReaches
    UnknownVersionGetsAll
    ForwardDiffNeverPanics
    AssertionsHold
    HashNamesBase
    CompressKeepsEffect
PROPERTIES
    VersionsImmutable
CHECK_DEADLOCK FALSE

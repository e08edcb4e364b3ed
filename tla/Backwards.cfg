SPECIFICATION HSpec
CONSTANTS
    Keys = {k1, k2}
    Vals = {v1, v2}
    Absent = Absent
    MaxU64 = 1000
    NoHash = NoHash
    NoModifier = NoModifier
    MaxPushes = 2
    MaxUpdates = 3
SYMMETRY Symmetry
INVARIANT BackwardsDiffIsEmpty
CHECK_DEADLOCK FALSE

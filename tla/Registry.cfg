CONSTANTS
    Threads = {t1, t2}
    Cals <- MCCals
    Baked <- MCBaked
    Indices <- MCIndices
    BakedIndices <- MCBakedIndices
    Batches <- MCBatches
    MaxApplies = 2
    Unknown = Unknown
SPECIFICATION Spec
INVARIANTS QuietQueryIsExact SnapshotIsConsistent
PROPERTY QueryEnds

SPECIFICATION SpecStoredStart
CONSTANTS
    Writers = {w1, w2}
    Readers = {}
    Tasks = {t1}
    MaxBatch = 1
    MaxId = 4
    MaxCrashes = 1
SYMMETRY Symmetry
INVARIANT PersistedUptoIsStable
CHECK_DEADLOCK FALSE

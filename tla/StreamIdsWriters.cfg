SPECIFICATION Spec
CONSTANTS
    Writers = {w1, w2}
    Readers = {r1}
    Tasks = {t1, t2}
    MaxBatch = 2
    MaxId = 3
    MaxCrashes = 1
SYMMETRY Symmetry
INVARIANTS TypeOK IInv PersistedUptoIsStable WriterTokenIsStable
PROPERTIES NoRowBehindAToken TokensMoveForwards
CHECK_DEADLOCK FALSE

SPECIFICATION Spec
CONSTANTS
    Writers = {w1, w2}
    MaxToken = 1
    MaxBatch = 2
    MaxConns = 1
    MaxOutages = 0
    MaxFailures = 0
    MaxMisses = 0
    Settled = TRUE
SYMMETRY Symmetry
INVARIANTS NoRowSkipped
CHECK_DEADLOCK FALSE

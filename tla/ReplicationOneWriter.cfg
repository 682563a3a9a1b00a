SPECIFICATION Spec
CONSTANTS
    Writers = {w1}
    MaxToken = 2
    MaxBatch = 2
    MaxConns = 2
    MaxOutages = 0
    MaxFailures = 1
    MaxMisses = 1
    Settled = FALSE
INVARIANTS TypeOK NoRowSkipped BatchesAreWhole ReplicaInv
PROPERTIES PositionsMoveForwards
CHECK_DEADLOCK FALSE

SPECIFICATION LiveSpec
CONSTANTS
    Writers = {w1}
    MaxToken = 2
    MaxBatch = 1
    MaxConns = 2
    MaxOutages = 1
    MaxFailures = 1
    MaxMisses = 0
    Settled = TRUE
PROPERTIES RowsArrive
CHECK_DEADLOCK FALSE

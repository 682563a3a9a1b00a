SPECIFICATION FairSpec
CONSTANTS
    Writers = {w1, w2}
    Readers = {}
    Tasks = {t1}
    MaxBatch = 1
    MaxId = 3
    MaxCrashes = 1
PROPERTIES RowsBecomeVisible
CHECK_DEADLOCK FALSE

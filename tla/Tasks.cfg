SPECIFICATION FairSpec
CONSTANTS
    Jobs = {j1, j2, j3}
    Unknown = {j3}
    MaxRunning = 2
    MaxFailures = 1
    MaxCrashes = 1
INVARIANTS TaskInv RunsAreBounded CleanedIsNotRunning
PROPERTIES TasksEnd
CHECK_DEADLOCK FALSE

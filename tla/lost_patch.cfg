SPECIFICATION FairSpec
CONSTANTS
    NumTasks = 3
    Projects <- IndependentInGit
    MaxWorkers = 2
    MaxCrashes = 0
INVARIANTS MergedIsDelivered
CHECK_DEADLOCK FALSE

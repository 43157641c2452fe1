SPECIFICATION FairSpec
CONSTANTS
    NumTasks = 3
    Projects <- SomeProjects
    MaxWorkers = 2
    MaxCrashes = 1
INVARIANTS TypeOK DependenciesFirst MergeIsWhole PatchIsOwn WorktreesRemoved
PROPERTIES ReplayAfterBatch NoRework Terminates
CHECK_DEADLOCK FALSE

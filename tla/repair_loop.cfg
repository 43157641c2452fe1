SPECIFICATION FairSpec
CONSTANTS
    NumTasks = 1
    Strategies = {"sequential"}
    MaxRepairs = 2
    RepairAfterReview = FALSE
    SpecApproval = {FALSE}
    PlanApproval = {TRUE}
    ToolChecks = FALSE
    SaverAvailable = TRUE
    Fingerprints = {"f1"}
    NoError = "none"
    RecursionLimit = 25
    MaxCrashes = 0
    NoState = NoState
INVARIANTS RepairLoopEnds
CHECK_DEADLOCK FALSE

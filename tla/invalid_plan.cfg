SPECIFICATION FairSpec
CONSTANTS
    NumTasks = 2
    Strategies = {"sequential", "parallel"}
    MaxRepairs = 1
    RepairAfterReview = FALSE
    SpecApproval = {FALSE}
    PlanApproval = {TRUE}
    ToolChecks = FALSE
    SaverAvailable = TRUE
    Fingerprints = {"f1"}
    NoError = "none"
    RecursionLimit = 25
    MaxCrashes = 0
    NoState = NoState
INVARIANTS OnlyValidPlansDispatched
CHECK_DEADLOCK FALSE

SPECIFICATION Spec
CONSTANTS
    NumTasks = 2
    Strategies = {"sequential", "parallel"}
    MaxRepairs = 1
    RepairAfterReview = TRUE
    SpecApproval = {TRUE, FALSE}
    PlanApproval = {TRUE}
    ToolChecks = FALSE
    SaverAvailable = TRUE
    Fingerprints = {"f1"}
    NoError = "none"
    RecursionLimit = 25
    MaxCrashes = 1
    NoState = NoState
INVARIANTS ReadyIsEarned
CHECK_DEADLOCK FALSE

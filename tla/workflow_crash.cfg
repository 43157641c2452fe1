SPECIFICATION Spec
CONSTANTS
    NumTasks = 2
    Strategies = {"sequential", "parallel"}
    MaxRepairs = 1
    RepairAfterReview = FALSE
    SpecApproval = {TRUE, FALSE}
    PlanApproval = {TRUE}
    ToolChecks = FALSE
    SaverAvailable = TRUE
    Fingerprints = {"f1"}
    NoError = "none"
    RecursionLimit = 25
    MaxCrashes = 2
    NoState = NoState
INVARIANTS InputsPresent NoUnapprovedDispatch CheckpointsNameDisk ReadyIsEarned
PROPERTIES ImplementsLifecycle
CHECK_DEADLOCK FALSE

SPECIFICATION ControlSpec
CONSTANTS
    NumTasks = 1
    Strategies = {"sequential"}
    MaxRepairs = 0
    RepairAfterReview = FALSE
    SpecApproval = {FALSE}
    PlanApproval = {TRUE}
    ToolChecks = TRUE
    SaverAvailable = TRUE
    Fingerprints = {"f1"}
    NoError = "none"
    RecursionLimit = 25
    MaxCrashes = 0
    NoState = NoState
    Commands = {"verify"}
    MaxCommands = 1
INVARIANTS ReadyOnlyByEvidence
CHECK_DEADLOCK FALSE

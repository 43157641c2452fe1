SPECIFICATION FairSpec
CONSTANTS
    NumTasks = 2
    Strategies = {"sequential", "parallel"}
    MaxRepairs = 1
    RepairAfterReview = TRUE
    SpecApproval = {TRUE, FALSE}
    PlanApproval = {TRUE}
    ToolChecks = TRUE
    SaverAvailable = TRUE
    Fingerprints = {"f1", "f2"}
    NoError = "none"
    RecursionLimit = 25
    MaxCrashes = 0
    NoState = NoState
INVARIANTS TypeOK InputsPresent EndsDecided ReadyIsFresh RepairsBounded LoopsOnlyByReuse
PROPERTIES ImplementsLifecycle Terminates
CHECK_DEADLOCK FALSE

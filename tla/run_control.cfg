SPECIFICATION FairControlSpec
CONSTANTS
    NumTasks = 1
    Strategies = {"sequential", "parallel"}
    MaxRepairs = 0
    RepairAfterReview = FALSE
    SpecApproval = {TRUE, FALSE}
    PlanApproval = {TRUE}
    ToolChecks = TRUE
    SaverAvailable = TRUE
    Fingerprints = {"f1"}
    NoError = "none"
    RecursionLimit = 25
    MaxCrashes = 1
    NoState = NoState
    Commands = {"approve", "pause", "stop", "verify", "review", "release", "rerun_tools", "rerun_satisfaction"}
    MaxCommands = 2
INVARIANTS ControlTypeOK InputsPresent NoUnapprovedDispatch FreshBundleIsTrue ManifestMatchesBundle EvidenceDecides
PROPERTIES StaysHalted ApprovalTakesHold LockFreed
CHECK_DEADLOCK FALSE

SPECIFICATION FairSpec
CONSTANTS
    Gates = {"unit"}
    RequiredGates = {"unit"}
    Configured = {"speech", "blank", "lost", "lint", "smoke"}
    ConfiguredKind <- MCKind
    RequiredConfigured = {"smoke", "lint"}
    CriterionIds <- MCCriterionIds
    WithTarget = {"smoke"}
    WithServer = {"smoke"}
    WithEvidence = {"lint"}
    Criteria = {"page", "logo", "handbook"}
    RequiredCriteria = {"page", "logo"}
    Automated = {"page", "logo"}
    AboutImages = {"logo"}
    MaxRounds = 2
    MaxKills = 1
INVARIANTS TypeOK NoServerLeft OwnPage EvaluatedFresh
PROPERTIES SatisfiedIsShown Terminates
CHECK_DEADLOCK FALSE

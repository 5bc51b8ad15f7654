SPECIFICATION FairSpec
CONSTANTS
    Confidences = {75, 80, 81}
    RiskScores = {30, 70, 120}
    Timeouts = {1}
    Deployments <- MCDeployments
    TokenLife = 1
    MaxBookings = 2
    MaxTime = 2
    None = none
INVARIANTS
    GatesHold
    DeadlineSparesDecisions
    StatusTellsWhatRan
PROPERTIES
    DeadlinedRunsEnd
CHECK_DEADLOCK FALSE

SPECIFICATION AllSpec
CONSTANTS
    Tasks = {t1, t2}
    Emails = {e1, e2}
    Fields = {name, config}
    Values = {v0, v1}
    MinRuns = 2
    HistorySize = 4
    Runs <- MCRuns
    Histories <- MCHistories
    MaxRequests = 3
    NoTask = no_task
    Operators = {t1, t2}
    MinTrades = 2
    MinDays = 1
    MaxDrawdown = 1
    MaxTrades = 3
    Names = {e1, e2}
    Ips = {i1, i2}
    EmailLimit = 1
    EmailWindow = 2
    IpLimit = 2
    IpWindow = 3
    MaxEmailBuckets = 3
    MaxIpBuckets = 1
    SweepEvery = 3
    Capacity = 4
SYMMETRY Symmetry
INVARIANTS
    TrendsSurvive
    LimitKept
PROPERTIES
    RegistrationCloses
    PromotedIsFrozen
    EditsCompose
    RaisedOnMerit
    RefusedOnlyWhenSpent
CHECK_DEADLOCK FALSE

SPECIFICATION FairSpec
CONSTANTS
    hosted = hosted
    local = local
    c1 = c1
    c2 = c2
    Calls = {c1, c2}
    Chain <- MCChain
    LocalModels = {local}
    Screened = {local}
    Rpm = 1
    MaxQueued = 1
    MaxRetries = 1
    MaxLocal = 1
    Threshold = 1
    ClientThreshold = 1
    Window = 1
    Rest = 1
    ClientRest = 1
INVARIANTS
    RateKept
    GateConserved
PROPERTIES
    TrippedModelRests
    FirstCallEnds

CONSTANTS
    Procs = {api, runner}
    MaxTokens = 2
    MayFlush = FALSE
SPECIFICATION Spec
PROPERTIES
    LocalTripHolds

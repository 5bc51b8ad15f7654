CONSTANTS
    Procs = {api, runner}
    MaxTokens = 2
    MayFlush = TRUE
SPECIFICATION Spec
PROPERTIES
    LatchClearsOnlyByNewerArm
    RearmReachesCallers
    KeepsPromise

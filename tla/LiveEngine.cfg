CONSTANTS
    Tasks = {t1, t2}
    MaxStarts = 2
SPECIFICATION FairEngine
INVARIANTS
    ConnectedIsRunning
PROPERTIES
    SwitchAsPromised
    OnlyEarlyOrdersAfterKill
    KillDrains

CONSTANTS
    Tasks = {t1, t2}
    MaxStarts = 1
SPECIFICATION EngineSpec
PROPERTIES
    KillHaltsOrders

CONSTANTS
    w1 = w1  w2 = w2  w3 = w3
    NumGroups = 2
    Workers = {w1, w2, w3}
    GroupOf <- TwoGroups
    NumServices = 2
    Settings <- SettingsDef
    MaxSignals = 2
    None = None
SPECIFICATION FairSpec
INVARIANTS CountersInv HookOrder
PROPERTIES KeepsLifetime StopEndsAll
CHECK_DEADLOCK FALSE

SPECIFICATION FairSpec
CONSTANTS
    MinWorkers = 1
    MaxWorkers = 2
    MaxUser = 1
    MaxKueue = 0
    MaxFault = 0
CHECK_DEADLOCK FALSE
PROPERTY RelaunchResizeDrains

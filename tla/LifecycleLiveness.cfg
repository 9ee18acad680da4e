\* One edit of the state or the identity, Kueue admits, evicts and readmits, one fault.
SPECIFICATION FairSpec
CONSTANTS
    Idents = {i1, i2}
    Ident0 = i1
    MaxAttempts = 2
    MaxCkpts = 1
    MaxClock = 1
    MaxUser = 1
    MaxKueue = 3
    MaxFault = 1
CHECK_DEADLOCK FALSE
PROPERTIES StopCompletes AdmittedLeavesQueue

\* Two runs, two failed calls or restarts, one late event or second in the queue.
SPECIFICATION Spec
CONSTANTS
    Policies <- MCPolicies
    Base = 5
    MinInt <- MCMinInt
    MaxInt = 7
    MaxTime = 3
    MaxAttempts = 2
    MaxFaults = 2
    MaxDelays = 1
CHECK_DEADLOCK FALSE
INVARIANTS TypeOK AnnotationsAgree BoostIsTimed
PROPERTIES ProtectedRunKeepsPriority

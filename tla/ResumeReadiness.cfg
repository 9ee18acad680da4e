\* An edit and a failure in two hours.
SPECIFICATION Spec
CONSTANTS
    Specs <- MCSpecs
    Outages = {"down", "unreadable"}
    MaxTime = 2
    MaxAdmin = 1
    MaxFault = 1
CHECK_DEADLOCK FALSE
INVARIANTS TypeOK VerdictHasBasis UndecidedIsRevisited

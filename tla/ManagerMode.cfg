\* A pause and its withdrawal, two clusters, one attempt of each copy, one failure, two
\* mirrors before the operator comes to rest.
SPECIFICATION FairSpec
CONSTANTS
    Clusters = {"w1", "w2"}
    MaxUser = 2
    MaxAttempts = 1
    MaxMoves = 1
    MaxMirrors = 2
    MaxFault = 1
CHECK_DEADLOCK FALSE
INVARIANTS TypeOK ReportFollowsMirror
PROPERTY PauseIsCarriedThrough

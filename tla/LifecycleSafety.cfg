\* Drains by the user or by Kueue, withdrawn and renewed at any point; stale cache, conflicts, one
\* crash or failed call; two attempts.
SPECIFICATION Spec
CONSTANTS
    Idents = {i1}
    Ident0 = i1
    MaxAttempts = 2
    MaxCkpts = 2
    MaxClock = 2
    MaxUser = 3
    MaxKueue = 1
    MaxFault = 1
CHECK_DEADLOCK FALSE
INVARIANTS TypeOK SingleLiveJobSet ResumeFromComplete HeldPhaseTracksNoRuntime IInv
PROPERTIES DeleteOnlyRecorded LastCompletedAdvances NoInheritedStop

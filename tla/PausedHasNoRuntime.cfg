SPECIFICATION Spec
CONSTANTS
    Idents = {i1}
    Ident0 = i1
    MaxAttempts = 2
    MaxCkpts = 1
    MaxClock = 2
    MaxUser = 3
    MaxKueue = 1
    MaxFault = 0
CHECK_DEADLOCK FALSE
INVARIANT PausedHasNoRuntime

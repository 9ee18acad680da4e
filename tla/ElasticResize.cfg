\* Edits of target, bounds, policy and mode while passes read old copies, an eviction, a failed
\* patch or lookup, a stale Workload.
SPECIFICATION FairSpec
CONSTANTS
    MinWorkers = 1
    MaxWorkers = 2
    MaxUser = 2
    MaxKueue = 1
    MaxFault = 1
CHECK_DEADLOCK FALSE
INVARIANT TypeOK
PROPERTIES ReclaimIsAsRecorded StopOnlyForRecordedResize ResizeIsPlanned

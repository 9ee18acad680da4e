\* Two claims, two requests, an edit, a release and a suspension, one failure, a cache up to two changes behind.
SPECIFICATION FairSpec
CONSTANTS
    Claims = {1, 2}
    Requests = {1, 2}
    Containers <- MCContainers
    Targets <- MCTargets
    MaxLag = 2
    MaxEdits = 1
    MaxHolds = 2
    MaxFault = 1
CHECK_DEADLOCK FALSE
INVARIANTS TypeOK TemplatesSettle
PROPERTIES LaunchHasItsDevices DeferredLaunchHappens

\* An eviction, a second ProvisioningRequest and one late event.
SPECIFICATION Spec
CONSTANTS
    PodSets <- MCPodSets
    Replicas <- MCOnes
    Parallelism <- MCPairs
    Completions <- MCPairs
    WorldSize = 3
    KueueKeys = {"request"}
    Admissions <- MCAdmissions
    NodeUpdates <- MCNodeUpdates
    Classes = {"booking-expiry", "permanent-failure"}
    Worker = "workers"
    Reasons = {"PodsReadyTimeout"}
    Verdicts = {"Ready"}
    AllowReshard = FALSE
    MaxRequests = 2
    MaxAttempts = 2
    MaxEvictions = 1
    MaxLags = 1
CHECK_DEADLOCK FALSE
INVARIANTS TypeOK OpenGatesAreRevisited
PROPERTIES ImplementsContract ResumeKeepsWorldSize

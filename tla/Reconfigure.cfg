SPECIFICATION Spec
CONSTANTS
    Records <- MCRecords
    Size <- MCSize
    MaxSerial = 3
    Processes = {p1}
    Requests <- ReconfigureRequests
    Policies <- ReconfigurePolicies
    PolicyRequests <- ReconfigurePolicies
    CloseRequests = {"manual", "shutdown"}
    MaxPending <- OnePending
    MaxEvidenceBytes <- FewBytes
    ArtifactBytes = 1
    ResponseBytes = 1
    TsaOutcomes = {"verified", "failed"}
    MaxRevision = 5
    MaxNow = 2
    MaxBoots = 2
CHECK_DEADLOCK FALSE
INVARIANTS
    PendingIsExact
    
    LimitsRespected
    OwnClock

    

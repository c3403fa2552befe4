SPECIFICATION Spec
CONSTANTS
    Records <- MCRecords
    Size <- MCSize
    MaxSerial = 5
    Processes = {p1}
    Requests <- SoloRequests
    Policies <- SoloPolicies
    PolicyRequests = {}
    CloseRequests = {}
    MaxPending <- NoLimit
    MaxEvidenceBytes <- NoLimit
    ArtifactBytes = 1
    ResponseBytes = 1
    TsaOutcomes = {}
    MaxRevision = 8
    MaxNow = 3
    MaxBoots = 3
CHECK_DEADLOCK FALSE
INVARIANTS
    LedgerMatchesJournal
    MatchingRevisionFits
PROPERTIES
    AdmissionInLiveInterval

SPECIFICATION Spec
CONSTANTS
    Records <- MCRecords
    Size <- MCSize
    MaxSerial = 3
    Processes = {p1, p2}
    Requests <- OverlapRequests
    Policies <- OverlapPolicies
    PolicyRequests = {}
    CloseRequests = {}
    MaxPending <- NoLimit
    MaxEvidenceBytes <- NoLimit
    ArtifactBytes = 1
    ResponseBytes = 1
    TsaOutcomes = {}
    MaxRevision = 4
    MaxNow = 1
    MaxBoots = 3
SYMMETRY ProcessSymmetry
CHECK_DEADLOCK FALSE
INVARIANTS
    
    ChainIntact
    WriterMirrorsStore
    AnswersAreDurable
    OncePerKey
PROPERTIES
    ImplementsLedger

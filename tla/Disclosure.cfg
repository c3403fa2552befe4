SPECIFICATION FairSpec
CONSTANTS
    Clients = {c1, c2, c3}
    Exporters = {e1, e2}
    Slots = 2
    Active = 2
    Ledger = "here"
    SealedRecords <- MCSealedRecords
    BatchRecordLimit = 2
    Credentials <- MCCredentials
    GenerateRequests <- MCGenerateRequests
    CurrentRequests <- MCCurrentRequests
    ObjectRequests <- MCObjectRequests
    ObjectPaths <- MCObjectPaths
    Unsettled = {1}
    ExportSelections <- MCExportSelections
    Trust <- MCTrust
    Now = 6
    Records <- MCRecords
    Encoded <- MCEncoded
    Judgement <- MCJudgement
    Limits <- MCLimits
    Formats <- MCFormats
    MaxNesting = 2
    NotText = {9}
    Values = {}
    Profile = "vtl"
    Second = 2
    MaxCertificates = 8
    MaxArchiveCrls = 16
INVARIANTS
    ReleasedWithinGrant
    DisclosedBundlesVerify
    IntegrityMeansCorruption
PROPERTIES
    SlotsReturn
    NeverReplaced

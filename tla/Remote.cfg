SPECIFICATION Spec
CONSTANTS
    Ledgers <- MCLedgers
    Contents <- MCContents
    Republished <- MCRepublished
    Policies <- MCPolicies
    MaxChanges = 2
    MaxRequests = 9
    MaxArchiveMembers = 9
    Trust <- MCTrust
    Now = 6
    Records <- MCRecords
    Encoded <- MCEncoded
    Judgement <- MCJudgement
    Limits <- MCLimits
    Formats <- MCFormats
    MaxNesting = 2
    NotText = {9}
    Values <- MCValues
    Profile = "vtl"
    Second = 2
    MaxCertificates = 8
    MaxArchiveCrls = 16
INVARIANTS
    
    RemoteAgreesWithLocal
    ArchiveReplays
    

SPECIFICATION Spec
CONSTANTS
    Timeout = 2
    PipeCapacity = 1
    MaxResponse = 2
    Responses <- MCResponses
    QueryOutput = {0, 2}
    Digest = "digest"
    Trusts <- MCTrusts
    Now = 6
    Second = 2
    MaxCertificates = 3
    MaxArchiveCrls = 2
    Artifacts = {"a", "b"}
    Proofs <- MCProofs
    Options <- MCOptions
    Sidecars <- MCSidecars
    MaxRewrites = 2
    MaxDepth = 3
    DigestLength = 1
    MaxMessage = 2
INVARIANTS
    StampedIsValid
    OtsVerdictIsBound

    

SPECIFICATION FairSpec
CONSTANTS
    Segments = {0, 1}
    Workers = {w1, w2}
    AttemptLimits = {1, 3}
    LeaseTime = 2
    RetryInitial = 1
    RetryMax = 2
    None = None
INVARIANTS
    OneWorkerPerGeneration
    AttachedByLatestClaim
PROPERTIES
    SettledForGood
    FailsOnlyWhenSpent
    TsaAnswerHolds
    QueuedSettles

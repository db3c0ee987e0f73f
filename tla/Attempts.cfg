SPECIFICATION FairSpec
CONSTANTS
    Url = {store, mirror, elsewhere}
    Allowed = {store, mirror}
    SourceUrl = store
    MaxRedirects = 2
    MaxAttempts = 3
    MaxRounds = 2
    Deadline = 2
    Expiry = 2
    Horizon = 3
INVARIANTS
    ChecksStopCalls
    NoFileLeftBehind
    OnlyVerifiedIsAnalysed
    RequestsOnlyAllowed
PROPERTIES
    ImplementsRun
    CancelPreventsResult
    RunEnds
CHECK_DEADLOCK FALSE

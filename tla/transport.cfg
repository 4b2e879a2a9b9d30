SPECIFICATION FairSpec
CONSTANTS
    Calls = {c1, c2, c3}
    Outcomes <- AllOutcomes
    FailureThreshold = 2
    Cooldown = 2
    MaxRetries = 1
    MaxConcurrency = 2
    MaxFailures = 3
PROPERTIES
    GateSpec
    EveryGetEnds
    RefusesForEverOnlyIfLost

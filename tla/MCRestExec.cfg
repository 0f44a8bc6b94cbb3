SPECIFICATION FairSpec
CONSTANTS
    MaxObjs = 2
    Named = FALSE
    Async = FALSE
    ErrorStatuses <- MCErrorStatuses
    OddBodies <- OddBody
    MaxAttempts = 3
    Bounded = TRUE
    MaxStrays = 1
    MaxInt = 63
    Second = 2
    DefaultInitial = 2
    DefaultMax = 12
    Policies <- MCPolicies
    Headers <- MCSignals
INVARIANTS
    SuccessIsEffect
    GivesUpOnlyWhenSpent
    GoneIsHonest
    WaitsAsAsked
PROPERTIES
    CallTerminates

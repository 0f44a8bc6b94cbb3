SPECIFICATION DynFairSpec
CONSTANTS
    MaxObjs = 1
    Named = TRUE
    Async = TRUE
    ErrorStatuses <- MCFewStatuses
    OddBodies = {"nil", "cut", "mistyped"}
    MaxAttempts = 2
    Bounded = TRUE
    MaxStrays = 1
INVARIANTS
    CleanWriteIsReal
PROPERTIES
    RpcTerminates

SPECIFICATION DynSpec
CONSTANTS
    MaxObjs = 2
    Named = FALSE
    Async = FALSE
    ErrorStatuses <- MCErrorStatuses
    OddBodies = {"nil", "cut", "mistyped"}
    MaxAttempts = 2
    Bounded = TRUE
    MaxStrays = 1
INVARIANTS
    FirstRefusalIsCertain
    NothingLostSilently
PROPERTIES
    KeepsContract

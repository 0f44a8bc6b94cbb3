SPECIFICATION FairSpec
CONSTANTS
    MaxObjs = 2
    MaxJobs = 3
    MaxAttempts = 2
    MaxStrays = 1
    MayCancel = TRUE
    OddAnswers = {"noEvent", "noToken"}
INVARIANTS
    CleanWriteIsReal
    FirstFailureIsCertain
PROPERTIES
    KeepsContract
    RpcTerminates

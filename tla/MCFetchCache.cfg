SPECIFICATION Spec
CONSTANTS
    p1 = p1
    p2 = p2
    f1 = f1
    f2 = f2
    f3 = f3
    NoFile = NoFile
    NoRevision = NoRevision
    Procs <- MCProcs
    Files <- MCFiles
    Revisions <- MCRevisions
    Length <- MCLength
    DiskFails = TRUE
INVARIANTS
    PublishedWhole
    Pinned
PROPERTIES
    PinSettles

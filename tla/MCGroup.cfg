SPECIFICATION Spec
CONSTANTS
    Members <- MCMembers
    Sources <- MCSources
    Types = {"t"}
INVARIANTS
    UnnamedCopyIsOffered
    OffersTheUnion
    RequestsGoHome
    RefusedForCause
CHECK_DEADLOCK FALSE

SPECIFICATION Spec
CONSTANTS
    Attrs <- MCAttrs
    Key = "name"
    Pascal = Pascal
    snake = snake
    Values = {Pascal, snake}
    Null = Null
    Unknown = Unknown
    None = None
    ResourceTypes <- MCResourceTypes
    ReKeyed <- MCReKeyed
    MaxObjs = 2
    MaxAttempts = 2
    MaxStrays = 2
INVARIANTS
    StateIsTrue
PROPERTIES
    KeepsContract
    WrittenAsPlanned

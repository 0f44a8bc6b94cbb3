SPECIFICATION Spec
CONSTANTS
    Attrs <- Repository
    ReadPath = {"owner", "name"}
    CreatePath = {"org"}
    InResponse = {"owner", "name", "label", "stamp", "number"}
    Omitted = {"owner"}
    Computed = {"name", "stamp", "number"}
    Optional = {"name", "label"}
    Ignored = {"stamp"}
    Normalized = {"name", "label"}
    Spellings <- RepositorySpellings
    Canon <- MCCanon
    Null = Null
    Unknown = Unknown
    None = None
INVARIANTS
    Addressable
    NoFalseDrift
    NothingOrphaned
PROPERTIES
    DriftIsSeen

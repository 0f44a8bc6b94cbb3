SPECIFICATION PinSpec
CONSTANTS
    t = t
    tds = tds
    Files <- MCFiles
    Names <- MCNames
    Scenarios <- MCScenarios
    TableName <- MCTableName
    DSName <- MCDSName
INVARIANTS
    SameMeaning
    PinnedIsTheTable
    RecutIsQuiet
PROPERTIES
    GenerationEnds

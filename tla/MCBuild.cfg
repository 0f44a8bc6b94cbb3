SPECIFICATION BuildSpec
CONSTANTS
    Docs <- MCDocs
    Provider <- MCProvider
    IsParam <- MCIsParam
    Stem <- MCStem
    IsWatch <- MCIsWatch
    IsExcluded <- MCIsExcluded
    IsStatus <- MCIsStatus
    Versions <- MCVersions
    Priority <- MCPriority
    MaxDepth = 60
    ToSnakeCase <- MCToSnakeCase
    ParamName <- MCParamName
    PathAttr <- MCPathAttr
    Merged <- MergedAttributes
    Signals <- MergedSignals
    DataAttributes <- DataSourceAttributes
INVARIANTS
    EveryReadIsAccountedFor
    PrereleaseDisturbsNobody
    ParamsAreUsable
    NothingFlattened
    ReadOnlyStaysComputed
CHECK_DEADLOCK FALSE

SPECIFICATION Spec
CONSTANTS
    MaxRuns = 4
    PageSize = 2
    NumVersions = 3
    Code <- MCCode
    this <- MCThis
    Positional <- MCPositional
    Namespace = "default"
    Namespaces <- MCNamespaces
    DefaultNamespace = "default"
INVARIANTS
    TypeOK
    BundleTellsTheTruth
    NoRunTwice
    SettledRunsAreBundled
    OwnHistoriesReplay
    FilterKeepsTheMost
CHECK_DEADLOCK FALSE

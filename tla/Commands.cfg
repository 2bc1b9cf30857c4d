SPECIFICATION MCSpec
CONSTANTS
    Code <- MCCode
    Labels <- MCLabels
    knownMethods <- MCMethods
    Home <- MCHome
    ProjectDir <- MCProjectDir
    Links <- MCLinks
    Paths <- MCPaths
    maxIncludeDepth = 2
    OverlayPath <- MCOverlay
    ManifestOf <- MCManifestOf
    Generated <- MCGenerated
    Scenarios <- MCScenarios
    Requests <- MCRequests
    MaxSteps = 3
    Loops = TRUE
INVARIANTS
    TypeOK
    ExplainIsEnforced
    OrderBlind
    TwoViewsAgree
    WatchCoversRead
    GlobCorrect
PROPERTIES
    EditsKeepFiles
    EditsGoOneWay
    InjectKeptDefined
\* The number of commands is bounded.
CHECK_DEADLOCK FALSE

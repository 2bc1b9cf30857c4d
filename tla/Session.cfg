SPECIFICATION MCSpec
CONSTANTS
    Home <- MCHome
    RealHome <- MCRealHome
    Project <- MCProject
    Root <- MCRoot
    Wrapper = {"w1", "w2"}
    Worlds <- MCWorlds
    Configs <- MCConfigs
    FirstConfigs <- MCFirst
    Ports <- MCPorts
    MaxTroubles = 1
    MaxSize = 4
    MaxEntries = 5
    Code <- MCCode
    RuleSets <- MCRuleSets
    Asked <- MCAsked
    Flow = {"f"}
    Resolvable <- MCResolvable
    MaxChanges = 2
    Names <- MCNames
    Published <- MCPublished
    Maker = {"p1", "p2"}
    Jobs <- MCJobs
    refreshInterval = 1
    MaxTime = 1
    MaxJobs = 2
    MaxAsked = 3
INVARIANTS
    CageAsPromised
    RefcountSafe
    LogReadInOrder
    FlowAsDecided
    RulesAsAnswered
PROPERTY SignalledRunEnds
\* Sessions end, entries and flows are bounded.
CHECK_DEADLOCK FALSE

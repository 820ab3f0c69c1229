SPECIFICATION MCSpec
CONSTANTS
    Input = {i1, i2}
    MaxReloads = 1
    Path <- MCPath
    TailCap <- MCTailCap
    cursorFilename <- MCCursorFilename
    TailKind <- MCTailKind
    AccSize = 2
    MaxEntries = 3
    GatherLimit = 2
    maxGetEntryErrors = 2
    Peer = {c1, c2, c3}
    MaxConnections = 2
    SlAccSize = 1
    Items = 3
    TopN <- MCTopN
    Load = {1, 2}
    AggValue <- MCAggValue
    MaxMetrics = 3
    Percentiles = {0, 33, 50, 95, 100}
    Series = {s1}
    MaxCounter = 3
    MaxClock = 4
    maxStaleSeconds = 1
    Writer = {gather, push}
    Batches = 2
    retryCount = 1
    Key = {"k1", "k2"}
    Text = {"a", "b", "c"}
    TagMap <- MCTagMap
    Condition <- MCCondition
    RegexRule <- MCRegexRule
    Replace <- MCReplace
    Entry <- MCEntry
    Captures <- MCCaptures
    GrokCaptures <- MCGrokCaptures
    NoMatch = NoMatch
    Library <- MCLibrary
    Compiles = {"good"}
    maxIterations = 10
    AlertRule <- MCAlertRule
    AlertMetric = {"cpu", "mem"}
    AlertValue = {0, 1, 2}
    MaxNow = 6
    MaxAlerts = 2
CHECK_DEADLOCK FALSE
INVARIANTS
    SwapIsExclusive
    
    
    GatherComplete
    
    CountedOnce
    DeltaSound
    
    
    
PROPERTIES
    StopCompletes
    SyslogEnds

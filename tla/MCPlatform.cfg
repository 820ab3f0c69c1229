SPECIFICATION MCSpec
CONSTANTS
    a1 = a1
    a2 = a2
    Leaf = {a1, a2}
    Group <- MCGroup
    Match <- MCMatch
    LabelSet <- MCLabelSet
    LevelSet <- MCLevelSet
    MaxLeaves = 2
    Resolve <- ResolveConfig
    Host = {"h1", "h2"}
    configuredHost = {"h1"}
    Auth = {"none", "bad_key", "ok"}
    MaxCommands = 2
    MaxVersion = 4
    MaxRelease = 3
    MaxBytes = 6
    MaxChunk = 3
    flushSize = 3
    maxOutput = 4
    t1 = t1
    t2 = t2
    Task = {t1, t2}
    SandboxConfig <- MCSandboxConfig
    SandboxRequest <- MCSandboxRequest
    Policy <- MCPolicy
    Metachar = {"a;b"}
    Interpreter = {"sh", "bash"}
    veth <- MCveth
    DefaultTimeout = 3
    DefaultMem = 2
    DefaultTasks = 4
    MemCap = 8
    HealthRequest <- MCHealthRequest
    HostFiles <- MCHostFiles
    LostTail <- MCLostTail
    AgentConfig <- MCAgentConfig
    Layers <- MCLayers
    UnitLists <- MCUnitLists
    Connections <- MCConnections
    ProcName <- MCProcName
    Containers <- MCContainers
    periodic = TRUE
CHECK_DEADLOCK FALSE
INVARIANTS
    
    ResolveByPriority
    ProxyEndsWell
    BinariesAsReported
    
    OutputInOrder
    
    SandboxWithinLimits
    VerdictOnEvidence
    CompletedIsWhole
    
    
PROPERTIES
    LeafEndsDisconnected
    SandboxEnds
    

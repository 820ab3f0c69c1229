SPECIFICATION FairSpec
CONSTANTS
    MaxMetrics = 3
    MaxBatch = 2
    CacheMaxSize = 2
    BatchSize = 1
    MaxDials = 2
    PersistPath = TRUE
INVARIANTS
    Accounted
    GaugeFollows

    

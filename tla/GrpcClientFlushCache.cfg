SPECIFICATION Spec
CONSTANTS
    MaxMetrics = 1
    MaxBatch = 1
    CacheMaxSize = 1
    BatchSize = 1
    MaxDials = 2
    PersistPath = TRUE
INVARIANTS
    FlushEmptiesCache

SPECIFICATION MCSpec
CONSTANTS
    Metric = {m1, m2, m3}
    maxSize = 3
    Nil = Nil
    Conn = {c1, c2}
    MaxTunnels = 1
    MaxMsgs = 1
INVARIANTS
    PoolAndRelaysAgree
PROPERTIES
    ImplementsFifo
    RelayEnds
    StopDrains

SPECIFICATION FairSpec
CONSTANTS
    c1 = c1
    Caller = {c1}
    MaxCalls = 3
    MaxLoads = 2
    MaxRestarts = 1
    None = None
INVARIANTS
    OneProcess
PROPERTIES
    CallsReturn
    DeadIsNoticed

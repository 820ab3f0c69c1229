SPECIFICATION MCSpec
CONSTANTS
    Request = {r1, r2}
    TaskId = {t1, t2}
    Slots = 1
    MaxMessages = 2
    None = None
    MaxReloads = 2
INVARIANTS
    RegisteredIsWaitedFor
    

    

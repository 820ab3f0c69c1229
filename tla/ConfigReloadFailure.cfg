SPECIFICATION ReloadSpec
CONSTANTS
    MaxReloads = 1
INVARIANTS
    FailureRollsBack

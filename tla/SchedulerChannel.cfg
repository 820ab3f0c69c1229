SPECIFICATION Spec
CONSTANTS
    Input = {i1}
    MaxReloads = 1
INVARIANTS
    OpenUntilStop
CHECK_DEADLOCK FALSE

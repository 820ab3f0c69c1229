SPECIFICATION FairSpec
CONSTANTS
    Input = {i1}
    MaxReloads = 1
PROPERTIES
    ReloadCompletes
CHECK_DEADLOCK FALSE

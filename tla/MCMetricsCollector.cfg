SPECIFICATION FairSpec
CONSTANTS
    Jobs = {j1, j2}
    Target = j1
    NoTarget = NoTarget
    MaxEntries = 3
    MaxCount = 4
CHECK_DEADLOCK FALSE
INVARIANTS
    NeverOvercounts
PROPERTIES
    RestartIsNoticed

SPECIFICATION RunSpec
CONSTANTS
    Subtasks = {s1}
    BatchSize = 1
    RowsPerRun = 2
    MaxRestarts = 1
    MaxCompactions = 0
CHECK_DEADLOCK FALSE
INVARIANTS
    VerifiedDataIsFinal

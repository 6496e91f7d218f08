SPECIFICATION RunSpec
CONSTANTS
    Subtasks = {s1}
    BatchSize = 1
    RowsPerRun = 2
    MaxRestarts = 2
    MaxCompactions = 2
CHECK_DEADLOCK FALSE
INVARIANTS
    DuplicatesComeFromRestarts
    NoRowTwice
    CopiesBoundedByRestarts
    ReportedRowsStay

SPECIFICATION FairSpec
CONSTANTS
    Subtasks = {s1, s2}
    BatchSize = 2
    RowsPerRun = 2
    MaxRestarts = 1
    MaxCompactions = 1
CHECK_DEADLOCK FALSE
INVARIANTS
    IInv
    FinishedIsComplete
    CompletedCheckpointDurable
PROPERTIES
    RefinesAtLeastOnce
    JobEnds

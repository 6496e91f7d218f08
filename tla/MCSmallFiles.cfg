SPECIFICATION Spec
CONSTANTS
    BaselineRows = 2
    AppendRows = 2
    NAppends = 2
    SourceRows = 7
    RunIds = {"r1"}
    MaxRuns = 2
CHECK_DEADLOCK FALSE
INVARIANTS
    SlicesPartitionTheSource
    FormatsInStep
    SavedIsComparable
    CleanRunLeavesNothing

SPECIFICATION Spec
CONSTANTS
    Tables = {"store_sales"}
    Begins = {}
    Source = "store_sales"
    Fractions <- OneFraction
    RunIds = {"r1", "r2"}
    MaxRuns = 4
CHECK_DEADLOCK FALSE
INVARIANTS
    TypeOK
    ManifestOkMeansWhole
    CleanRunLeavesNothing
    CopiesAreFresh
PROPERTIES
    SourceUntouched
    ScansAreOfWholeTables

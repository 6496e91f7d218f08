SPECIFICATION Spec
CONSTANTS
    Tables = {"store", "store_sales"}
    Begins <- StoreBegins
    Source = "store_sales"
    Fractions <- OneFraction
    RunIds = {"r1"}
    MaxRuns = 4
CHECK_DEADLOCK FALSE
INVARIANTS
    SizesReproducible

SPECIFICATION Spec
CONSTANTS
    Combos <- TwoCombos
    NoOracle = {"INVERTED"}
    Queries = {q1}
    MaxRuns = 2
CHECK_DEADLOCK FALSE
PROPERTIES
    EarlierResultsSurvive

SPECIFICATION Spec
CONSTANTS
    Writers = {w1, w2}
    Compactors = {}
    Groups = {g1}
    MaxOps = 1
    MaxTries = 1
    Leftover = {w1, w2}
CHECK_DEADLOCK FALSE
INVARIANTS
    ReportIsOfThisRun

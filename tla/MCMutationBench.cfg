SPECIFICATION FairSpec
CONSTANTS
    Writers = {w1, w2}
    Compactors = {c}
    Groups = {g1}
    MaxOps = 2
    MaxTries = 1
    Leftover = {c}
CHECK_DEADLOCK FALSE
PROPERTIES ScenarioEnds
INVARIANTS
    TypeOK
    RecordsMatchDataset
    NobodyRunsOn
    CleanScenarioIsExact
    ConflictsAreTheCompactors

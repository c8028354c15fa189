CONSTANTS
    Value = {1, 2, 3, 4}
    RankingSize = 3
    ScoreThreshold = 2
    Counts = {0, 1, 3}
    MaxSamples = 4
    Samples <- MCSamples
SPECIFICATION Spec
INVARIANTS
    TypeOK
    HistogramHasRoom
    ScoresTakeTime
PROPERTIES
    SuspectsLead
    ImplementsSuspicionRuns
CHECK_DEADLOCK FALSE

SPECIFICATION Spec
CONSTANTS
    Total = 1
    Concurrency = 1
    AlgoOption = "both"
    Modes = {{"baseline", "compare"}}
    Rates = {0, 80, 85, 100}
    ThresholdPct = 15
    Leftover = FALSE
INVARIANT CompareFailsOnRegression

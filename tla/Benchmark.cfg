SPECIFICATION Spec
CONSTANTS
    Total = 3
    Concurrency = 2
    AlgoOption = "both"
    Modes = {{}, {"baseline"}, {"compare"}}
    Rates = {0, 100}
    ThresholdPct = 15
    Leftover = FALSE
INVARIANTS TypeOK RequestsAccounted LoadSaturated MeasuresOwnLb
PROPERTIES BenchEnds

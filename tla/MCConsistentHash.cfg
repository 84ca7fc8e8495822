SPECIFICATION Spec
CONSTANTS
    Services = {s1, s2, s3}
    NoService = none
    FailureCap = 1
    BadAddress = {}
    VNodes = {0, 1}
    HashSpace = 7
    Keys = {0, 1, 2, 3, 4, 5, 6}
INVARIANTS SelectsNextClockwise
PROPERTIES MinimalDisruption
SYMMETRY ServiceSymmetry

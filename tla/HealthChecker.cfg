SPECIFICATION HealthSpec
CONSTANTS
    Services = {s1}
    FailureCap = 2
    UnhealthyThreshold = 2
    Slots = {k1, k2}
    BadAddress = {}
INVARIANTS HealthMatchesFailures
PROPERTIES NoProbeAfterStop DownDetected UpRecovers StopDrains

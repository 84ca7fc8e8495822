SPECIFICATION Spec
CONSTANTS
    Clients = {c1, c2}
    NoClient = noClient
    Services = {s1}
    NoService = noService
    BadAddress = {}
    FailureCap = 1
    UnhealthyThreshold = 1
    Slots = {k1}
    VNodes = {0}
    Algorithm = "consistent-hash"
    VNodeHash <- MCVNodeHash
    KeyHash <- MCKeyHash
    HealthEnabled = TRUE
INVARIANTS CleanExitDrained
PROPERTIES StopEndsProcess BacklogServed

SPECIFICATION Spec
CONSTANTS
    Clients = {c1, c2}
    NoClient = noClient
    Services = {s1}
    NoService = noService
    BadAddress = {}
    FailureCap = 1
    UnhealthyThreshold = 1
    Slots = {k1}
    VNodes = {0}
    Algorithm = "p2c"
    VNodeHash <- MCVNodeHash
    KeyHash <- MCKeyHash
    HealthEnabled = FALSE
PROPERTY SignalEndsProcess

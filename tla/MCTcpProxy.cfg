SPECIFICATION ProxySpec
CONSTANTS
    c1 = c1
    c2 = c2
    c3 = c3
    c4 = c4
    s1 = s1
    s2 = s2
    s3 = s3
    Clients = {c1, c2, c3, c4}
    NoClient = noClient
    Services = {s1, s2, s3}
    NoService = noService
    FailureCap = 1
    VNodes = {0}
    Algorithm = "p2c"
    VNodeHash <- MCVNodeHash
    KeyHash <- MCKeyHash
    BadAddress = {s3}
SYMMETRY Symmetry
INVARIANTS ConnectionsCounted AlwaysAccepting
PROPERTIES NewSessionsBalanced

SPECIFICATION Spec
CONSTANTS
    Names = {"a", "b"}
    Ips <- MCIps
    TypedPorts = {0, 80, 65616}
    AlgorithmTexts = {"p2c", "consistent-hash", "round-robin"}
    HandWritten <- MCHandWritten
    HandKeys <- MCHandKeys
    HandToml <- MCHandToml
    MaxServices = 2
    MaxHandWritten = 2
    WritesMayFail = TRUE
PROPERTY SavedMeansStored

SPECIFICATION Spec
CONSTANTS
    Names = {"a", "b"}
    Ips <- MCIps
    TypedPorts = {0, 80, 65616}
    AlgorithmTexts = {"p2c", "consistent-hash", "round-robin"}
    HandWritten <- MCHandWritten
    HandKeys <- MCHandKeys
    HandToml <- MCHandToml
    MaxServices = 2
    MaxHandWritten = 2
    WritesMayFail = FALSE
INVARIANTS TypeOK RowsAreServices Ipv4CheckExact
PROPERTIES RemovesWhatIsSelected EditsKeepUsable AddedAsTyped NoPartialLoad SavedMeansStored

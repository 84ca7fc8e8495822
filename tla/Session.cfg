SPECIFICATION Spec
CONSTANTS
    IdleTimeoutEnabled = TRUE
    MaxChunks = 2
INVARIANTS TypeOK InOrderDelivery LossBounded OneOperationPerDirection AlwaysWatched
PROPERTIES QuietAfterShutdown SilentSessionEnds ImplementsContract

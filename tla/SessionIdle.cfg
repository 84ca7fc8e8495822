SPECIFICATION Spec
CONSTANTS
    IdleTimeoutEnabled = TRUE
    MaxChunks = 2
PROPERTY IdleTimeoutOnlyWhenIdle

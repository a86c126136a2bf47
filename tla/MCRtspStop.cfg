CONSTANTS
    c1 = c1
    c2 = c2
    None = None
    Clients <- OneClient
    Viewers <- OneClient
    HighWater = 1
    MaxFrames = 3
    MayStop = TRUE
SPECIFICATION PatientSpec
PROPERTY StopCompletes
CHECK_DEADLOCK FALSE

CONSTANTS
    c1 = c1
    c2 = c2
    None = None
    Clients <- TwoClients
    Viewers <- OneClient
    HighWater = 1
    MaxFrames = 3
    MayStop = TRUE
SPECIFICATION FairSpec
INVARIANTS
    TypeOK
    NothingWrittenAfterClose
    OpenIsKnown
PROPERTIES
    NoGap
    DepartedClientIsForgotten
    StopGivesBack
CHECK_DEADLOCK FALSE

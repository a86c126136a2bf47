CONSTANTS
    None = None
    TsMod = 32
    Delay = 3
    Reanchor = 8
    MaxSleep = 5
    Jitter = 3
    Bases <- ThreeBases
    Packets <- Senders
    Restarts = 1
    Horizon = 22
SPECIFICATION PathSpec
INVARIANTS
    TypeOK
    LatencyBounded
    SetsAreCurrent
PROPERTY SteadyPlayout
CHECK_DEADLOCK FALSE

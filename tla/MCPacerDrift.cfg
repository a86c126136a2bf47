CONSTANTS
    None = None
    TsMod = 32
    Delay = 2
    Reanchor = 8
    MaxSleep = 6
    Jitter = 0
    Bases <- NearWrap
    Restarts = 0
    Horizon = 20
SPECIFICATION Spec
INVARIANT HeadroomIsInitialDelay
CHECK_DEADLOCK FALSE

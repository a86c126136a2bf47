CONSTANTS
    p1 = p1
    p2 = p2
    None = None
    PCs <- TwoPCs
    Threshold = 1
    NoRtp = 1
    RecoverMax = 1
    RecoveryWait = 2
    HasCheapRecovery = TRUE
    TrackTimeout = 1
    BaseBackoff = 1
    MaxBackoff = 2
    AgeCap = 1
    Punctual = FALSE
SPECIFICATION Spec
INVARIANT NothingOpenAfterStop

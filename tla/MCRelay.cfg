CONSTANTS
    p1 = p1
    p2 = p2
    None = None
    PCs <- TwoPCs
    Threshold = 2
    NoRtp = 2
    RecoverMax = 1
    RecoveryWait = 1
    HasCheapRecovery = TRUE
    TrackTimeout = 1
    BaseBackoff = 1
    MaxBackoff = 3
    AgeCap = 6
    Punctual = TRUE
SPECIFICATION FairSpec
INVARIANTS
    TypeOK
    SingleFeeder
    StopFindsNothing
    SilenceBounded
PROPERTIES
    RampResetsOnlyAfterRealStream
    StopStartsNothing
    ImplementsContract
    RevivedStreamIsSpared
    StopCompletes
    ChurnReachesMaxBackoff

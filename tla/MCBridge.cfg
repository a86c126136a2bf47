CONSTANTS
    k1 = k1
    k2 = k2
    p1 = p1
    None = None
    Cloud <- TwoClients
    PCs <- OnePC
    Threshold = 1
    AgeCap = 4
    Dry = 3
    Keepalive = 2
    Reconcile = 3
    ReconcileMax = 3
    Backoff = 1
    Pause = 1
    CredsDebounce = 1
    RefreshDebounce = 2
    BeatCap = 9
SPECIFICATION FairSpec
INVARIANTS
    TypeOK
    ClientsAreReleased
    KeepaliveBounded
PROPERTIES
    NoCallOnStoppedClient
    RefreshesAreSpaced
    StuckSessionIsLeft
    StopExits
CHECK_DEADLOCK FALSE

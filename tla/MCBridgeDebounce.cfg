CONSTANTS
    k1 = k1
    k2 = k2
    p1 = p1
    None = None
    Cloud <- TwoClients
    PCs <- OnePC
    Threshold = 1
    AgeCap = 4
    Dry = 3
    Keepalive = 1
    Reconcile = 2
    ReconcileMax = 2
    Backoff = 1
    Pause = 1
    CredsDebounce = 2
    RefreshDebounce = 2
    BeatCap = 8
SPECIFICATION Spec
PROPERTY FetchesAreSpaced
CHECK_DEADLOCK FALSE

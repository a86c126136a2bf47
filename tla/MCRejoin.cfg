CONSTANTS
    s1 = s1
    s2 = s2
    None = None
    MidUri = MidUri
    TwccUri = TwccUri
    Ssrcs <- TwoSsrcs
    Pt <- TwoPts
    Gateways = 2
    Attempts = 1
    Early = FALSE
    MaxComings = 2
    MaxInbox = 1
    Domains = 1
    Cases <- TwoCases
SPECIFICATION NegSpec
INVARIANT RejoinIsSubscribed
CHECK_DEADLOCK FALSE

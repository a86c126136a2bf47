CONSTANTS
    s1 = s1
    s2 = s2
    None = None
    MidUri = MidUri
    TwccUri = TwccUri
    Ssrcs <- TwoSsrcs
    Pt <- TwoPts
    Gateways = 2
    Attempts = 2
    Early = FALSE
    MaxComings = 2
    MaxInbox = 2
    Domains = 6
    Cases <- TwoCases
SPECIFICATION NegFairSpec
INVARIANTS
    TypeOK
    AnswerMatchesGateway
    PublisherIsSubscribed
    DisconnectLeavesNothing
    AnswerFitsOffer
    MediaIsOneStream
    GatewayIsAuthentic
PROPERTIES
    JoinEnds
    DisconnectEnds
CHECK_DEADLOCK FALSE

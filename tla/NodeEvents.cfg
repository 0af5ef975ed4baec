SPECIFICATION Spec
CONSTANTS
    n1 = n1
    n2 = n2
    Nodes = {n1, n2}
    Anchors <- OneEach
    Trusted = {}
    NumCoins = 3
    Reserve = 1
    Amounts = {1}
    Threads = {t1, t2}
    MaxChannels = 3
    MayAnnounce = FALSE
    ClientTrusts = TRUE
    Nobody = Nobody
    LThreads = {t1, t2}
    JitCalls <- AJits
    Orders <- AOrders
    Limits <- ALimits
    Menus <- AMenus
    ServiceOffer <- Ours
    TokenWanted = Nothing
    TokenGiven = Nothing
    Million = 2
    Nothing = Nothing
    Users = {u1, u2}
    MailPeers = {n1, n2, n3}
    MaxMessages = 2
    MaxPeers = 2
    Capacity = 2
    Interval = 2
    MaxIdle = 4
    Absent = Absent
    QThreads = {t1}
    NoGraph = NoGraph
    Scenarios <- AllScenarios
INVARIANTS
    FundingSound
    ChannelPeerKept
    
    AgreedTerms
    ForgetsWhatItMay
    
    GraphHasItsTimestamp
\* The budgets run out, and a node without calls and events is quiet.
CHECK_DEADLOCK FALSE

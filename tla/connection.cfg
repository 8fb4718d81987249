SPECIFICATION ConnectFairSpec
CONSTANTS
    p1 = p1
    p2 = p2
    m1 = m1
    m2 = m2
    NoOne = NoOne
    Publishers <- None
    MaxId = 2
    EndpointGiven = FALSE
    KeepAlive = TRUE
    BufferMayNotFit = TRUE
    EndpointFails <- MovedOrRevoked
    StopStates <- Anywhere
    RetryMin = 2
    RetryMax = 4
    WaitTurn = 2
    MaxConnectFailures = 2
    Inbound <- TwoMessages
    TooLarge <- JustM2
    MaxInFlight = 1
INVARIANTS
    ConnectionIsItself
    AcknowledgedIsDelivered
    WaitsBetweenConnects
PROPERTIES
    BrokenIsLeft
    MovedIsFollowed

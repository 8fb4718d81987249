SPECIFICATION PublishFairSpec
CONSTANTS
    p1 = p1
    p2 = p2
    m1 = m1
    m2 = m2
    NoOne = NoOne
    Publishers <- OnePublisher
    MaxId = 2
    EndpointGiven = TRUE
    KeepAlive = FALSE
    BufferMayNotFit = FALSE
    EndpointFails <- Revoked
    StopStates <- Anywhere
    RetryMin = 1
    RetryMax = 1
    WaitTurn = 1
    MaxConnectFailures = 1
    Inbound <- None
    TooLarge <- None
    MaxInFlight = 0
PROPERTIES
    PublishReturns

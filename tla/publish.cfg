SPECIFICATION ServedFairSpec
CONSTANTS
    p1 = p1
    p2 = p2
    m1 = m1
    m2 = m2
    NoOne = NoOne
    Publishers <- TwoPublishers
    MaxId = 3
    EndpointGiven = TRUE
    KeepAlive = FALSE
    BufferMayNotFit = TRUE
    EndpointFails <- None
    StopStates <- Anywhere
    RetryMin = 1
    RetryMax = 1
    WaitTurn = 2
    MaxConnectFailures = 1
    Inbound <- None
    TooLarge <- None
    MaxInFlight = 0
INVARIANTS
    TypeOK
    SlotIsItsCallers
    PublishIsMqtt
    OpenWhileServed
PROPERTIES
    ResultsAreTrue
    KeepsContract
    ServedReturns

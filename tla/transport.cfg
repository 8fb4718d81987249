SPECIFICATION MCSpec
CONSTANTS
    SizeMax = 15
    MaxData <- MCMaxData
    Stops = {"TIMEOUT", "CANCELLED"}
    Exchanges <- MCAllExchanges
    Streams <- MCStreams
    MaxRecord = 4
    Lengths = {1, 2}
    MaxLookups = 3
    NoLookup = NoLookup
    Tasks = {http, mqtt}
    Hosts = {h1, h2, h3}
    MaxSessions = 4
    CacheSize = 2
    NoHost = NoHost
    NoSession = NoSession
INVARIANTS
    DeliversBody
    RefusedForAReason
    RequestInOrder
    LeavesNothing
    HoldsOnlyWhenConnected
    LookupAccounted
    SessionAccounted
PROPERTIES
    ResultKept
    PerformEnds
    KeepsSocketContract
    ConnectEnds

SPECIFICATION KhcSpec
CONSTANTS
    SizeMax = 15
    MaxData <- MCMaxData
    Stops = {}
    Exchanges <- LongHeader
INVARIANT
    LongHeaderIsSkipped

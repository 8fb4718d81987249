SPECIFICATION KhcSpec
CONSTANTS
    SizeMax = 15
    MaxData <- MCMaxData
    Stops = {"CANCELLED"}
    Exchanges <- Stopped
INVARIANT
    CloseIsCalled

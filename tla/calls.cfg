SPECIFICATION CallsSpec
CONSTANTS
    k1 = k1
    k2 = k2
    NoOne = NoOne
    Kiis <- TwoKiis
    WaitMax = 1
    MaxTokens = 2
    MaxGeneration = 2
    AppCalls <- Unattended
    Bodies <- LargeBody
    HeaderMayFail = FALSE
PROPERTY
    CallsEnd

SPECIFICATION RecoverySpec
CONSTANTS
    k1 = k1
    k2 = k2
    NoOne = NoOne
    Kiis <- OneKii
    WaitMax = 2
    MaxTokens = 3
    MaxGeneration = 2
    AppCalls <- Unattended
    Bodies <- TwoBodies
    HeaderMayFail = FALSE
PROPERTY
    Recovers

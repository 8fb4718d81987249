SPECIFICATION Spec
CONSTANTS
    k1 = k1
    k2 = k2
    NoOne = NoOne
    Kiis <- OneKii
    WaitMax = 1
    MaxTokens = 2
    MaxGeneration = 2
    AppCalls <- AllCalls
    Bodies <- AllBodies
    HeaderMayFail = TRUE
INVARIANTS
    ActedOnce
    ResentWhole

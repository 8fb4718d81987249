SPECIFICATION Spec
CONSTANTS
    k1 = k1
    k2 = k2
    NoOne = NoOne
    Kiis <- TwoKiis
    WaitMax = 3
    MaxTokens = 2
    MaxGeneration = 2
    AppCalls <- SharedCalls
    Bodies <- TwoBodies
    HeaderMayFail = FALSE
SYMMETRY KiiSymmetry
INVARIANTS
    LiveTokenKept
    PasswordRests

SPECIFICATION RequestsSpec
CONSTANTS
    Room = 2
    MaxHeaders = 1
    GivesUpReading = TRUE
INVARIANTS
    ReaderIsItsCalls

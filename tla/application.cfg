SPECIFICATION MCSpec
CONSTANTS
    Tasks = {http, mqtt}
    Step = 150
    MaxTime = 450
    Wrap = 40000
    ExactFor = 160
    Room = 12
    MaxHeaders = 1
    GivesUpReading = FALSE
    MaxAliases = 2
    MaxActions = 2
    UpdaterTasks = {t1, t2, t3}
    Interval = 3
    BuffSizes = {1, 3, 8}
    Takes = {0, 1, 9}
    MaxDepth = 2
    MaxText = 8
    LineBuffs = {0, 1, 3}
    MaxInput = 4
    Documents <- MCDocuments
    FieldArrays <- MCFieldArrays
    Int32Max = 3
    Int64Max = 15
    DoubleSize = 4
    PointLen = 2
    MaxParses = 3
    WalkedYears = {1, 1900, 2000, 2100, 9999}
    FloorYears = {1970, 2050}
SYMMETRY Alike
INVARIANTS
    LowerBound
    RefusedOnce
    SentAsAsked
    LeftReady
    ResultsAreThoseRun
    OneUpdater
    UploadsWhole
    WritesJson
    RecordsAreLines
    FieldsAreTheDocuments
    DatesAreTheCalendars

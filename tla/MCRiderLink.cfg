SPECIFICATION Spec
CONSTANTS
    Values = {a, b}
    NoValue = NoValue
    MapValues = {a, b}
    Absent = NoValue
    Elements = {a, b}
    LifetimeThreads = {t, u}
    Users = {t, u}
    UserSettings <- MCSettings
    RiderModes = {44}
    MaxSets = 4
    MaxMapChanges = 4
    MaxOperations = 3
    MaxCalls = 2
    MaxSends = 2
    MaxMessages = 4
    MaxConnections = 2
    MaxRequests = 1
    MaxChanges = 2
    MaxLifetimeCalls = 5
    MaxActions = 3
INVARIANTS
    PartsTypeOK
    PropertyConverges
    MapConverges
    ListsDifferOnlyReported
    SuccessIsClean
    HeardInOrder
    HeardOnceInOrder
    AliveModelIsCurrent
    RiderKnowsMode
    LifetimesEnd
    QueuedIsRun
PROPERTIES
    ResultIsFinal
    CallsEnd
    NothingIsStuck
    RequestIsAnswered
    FlushEnds
\* Every part stops when its bounds are reached.
CHECK_DEADLOCK FALSE

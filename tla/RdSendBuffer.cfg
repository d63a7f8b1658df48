SPECIFICATION Spec
CONSTANTS
    MaxPuts = 3
    MaxConnections = 3
INVARIANTS
    TypeOK
    NothingLost
    NeverCrashes
PROPERTIES
    PutFlushes
    StopEnds
\* The wire may end, and nobody has to put or to connect.
CHECK_DEADLOCK FALSE

SPECIFICATION WireSpec
CONSTANTS
    MaxPuts = 2
    MaxConnections = 3
INVARIANTS
    SentIsDispatched
\* The wire may end, and nobody has to put or to connect.
CHECK_DEADLOCK FALSE

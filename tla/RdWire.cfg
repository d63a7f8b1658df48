SPECIFICATION WireSpec
CONSTANTS
    MaxPuts = 2
    MaxConnections = 2
INVARIANTS
    NoGap
    ForgottenIsDispatched
PROPERTIES
    FirstConnectionIsExact
    PutArrives
\* The wire may end, and nobody has to put or to connect.
CHECK_DEADLOCK FALSE

SPECIFICATION Spec
CONSTANTS
    MaxPuts = 2
    MaxConnections = 2
PROPERTIES
    ConnectedSends
\* The wire may end, and nobody has to put or to connect.
CHECK_DEADLOCK FALSE

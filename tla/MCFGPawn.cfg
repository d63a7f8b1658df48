\* Both axes, both buttons, two or three frames of buffer and ticks of two
\* lengths: enough for the fireball and for input that expires at each age.
SPECIFICATION Spec
CONSTANTS
    NULL = NULL
    StateAsset <- MCStateAsset
    LinkAsset <- MCLinkAsset
    MoveAsset <- MCMoveAsset
    InitialMove = "Idle"
    InputExpirationTime = 1
    DirectionThreshold = 1
    XValues = {0, 1}
    YValues <- MCYValues
    Deltas = {1, 2}
    TimeCap = 3
    Shipping = FALSE
INVARIANTS
    TypeOK
    NeverCrashes
    InputIsFresh
    PressEdges
    FirstLinkWins
PROPERTIES
    PressesConsumed
    ImplementsQueue
    FireballEnds

\* The shipped content at four ticks a second.
SPECIFICATION Spec
CONSTANTS
    NULL = NULL
    StateAsset <- MCStateAsset
    LinkAsset <- MCLinkAsset
    MoveAsset <- MCMoveAsset
    InitialMove = "Idle"
    InputExpirationTime = 750
    DirectionThreshold = 500
    XValues = {0, 1000}
    YValues = {0}
    Deltas = {250}
    TimeCap = 2000
    Shipping = FALSE
INVARIANTS
    JabIsTaken

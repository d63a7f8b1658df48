\* A development build: check() stops the pawn before its arrays disagree.
SPECIFICATION Spec
CONSTANTS
    NULL = NULL
    StateAsset <- MCStateAsset
    LinkAsset <- MCLinkAsset
    MoveAsset <- MCMoveAsset
    InitialMove = "Idle"
    InputExpirationTime = 2
    DirectionThreshold = 1
    XValues = {0, 1}
    YValues = {0}
    Deltas = {1, 2}
    TimeCap = 3
    Shipping = FALSE
INVARIANTS
    StreamsInLockstep
\* A failed check() ends the program.
CHECK_DEADLOCK FALSE

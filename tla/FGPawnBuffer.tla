---------------------------- MODULE FGPawnBuffer -----------------------------
(* AFGDefaultPawn implements the queue of frames of FGBuffer with its two   *)
(* parallel arrays, its two button masks and its tick of many steps.        *)
EXTENDS FGPawn

ButtonOf(f, b) == InputStream[FrameLen * (f - 1) + (IF b = "LeftFace" THEN 2 ELSE 3)]

DownIn(f) == {b \in EFGInputButtons : ButtonOf(f, b) # "ButtonUp"}

PressedIn(f) == {b \in EFGInputButtons : ButtonOf(f, b) = "JustPressed"}

Frame(f) ==
    [ stick   |-> InputStream[FrameLen * (f - 1) + 1],
      down    |-> DownIn(f),
      pressed |-> PressedIn(f),
      age     |-> InputAges[f] ]

\* n frames from the front are all that is expired.
IsStale(n) ==
    /\ n \in 0 .. Len(InputAges)
    /\ \A i \in 1 .. Len(InputAges) : InputAges[i] <= InputExpirationTime <=> i > n

Stale == CHOOSE n \in 0 .. Len(InputAges) : IsStale(n)

\* Frames already expired and not yet pruned are no longer in the queue.
Frames == [i \in 1 .. Len(InputAges) - Stale |-> Frame(Stale + i)]

\* The ways are the links with a state machine and a move.
WaysOf(m) ==
    {[ from    |-> m,
       to      |-> LinkAsset[l].Move,
       windows |-> LinkAsset[l].CancelWindows,
       clears  |-> \/ LinkAsset[l].bClearInput
                   \/ MoveAsset[LinkAsset[l].Move].bClearInputOnEntry
                   \/ MoveAsset[m].bClearInputOnExit ]
     : l \in {MoveAsset[m].LinkedMoves[i] : i \in DOMAIN MoveAsset[m].LinkedMoves}
               \cap {k \in Links : LinkAsset[k].Move # NULL /\ LinkAsset[k].InputStateMachine # NULL}}

Queue == INSTANCE FGBuffer WITH
    Buttons    <- EFGInputButtons,
    Directions <- DirectionAtoms,
    Ways       <- UNION {WaysOf(m) : m \in Moves},
    FirstMove  <- InitialMove,
    Lengths    <- Deltas,
    Expiration <- InputExpirationTime,
    LongTime   <- TimeCap,
    stick      <- StickAtom,
    down       <- ButtonsDown,
    seen       <- ButtonsDown_Old,
    frames     <- Frames,
    move       <- CurrentMove,
    time       <- TimeInCurrentMove,
    choosing   <- pc # "input",
    passed     <- DeltaSeconds

\* FGDefaultPawn.h:84.  Seen from outside, sampling, pruning, clearing and
\* consuming are operations on one queue of whole frames: frames enter at the
\* back once per tick with the edges of the buttons, leave only at the front,
\* and each way taken is one of the current move's and open at that time.
ImplementsQueue == Queue!Spec
=============================================================================

------------------------------- MODULE FGPawn --------------------------------
(****************************************************************************)
(* AFGDefaultPawn: the input buffer of a fighter and the choice of the next *)
(* move.  Input callbacks run between ticks; a tick samples the input into  *)
(* InputStream, prunes old frames, tries the links of the current move in   *)
(* order (UFGMove::TryLinks, UFGMoveLink::TryLink, USM_State::RunState) and *)
(* follows the first one accepted.  A tick is several steps here, `pc' is   *)
(* the point it has reached; callbacks run only while pc = "input", since   *)
(* everything executes on the game thread.                                  *)
(*                                                                          *)
(* Time is in whole units.  The code compares time stamps only with the     *)
(* current time, so instead of InputTimeStamps[i] the model keeps           *)
(*     InputAges[i] = CurrentTime - InputTimeStamps[i],                     *)
(* and TimeInCurrentMove stops at TimeCap, beyond which no window changes.  *)
(****************************************************************************)
EXTENDS Integers, Sequences, FiniteSets

CONSTANTS
    NULL,
    StateAsset,          \* state assets, see SMState
    LinkAsset,           \* UFGMoveLink assets: [name -> record]
    MoveAsset,           \* UFGMove assets: [name -> record]
    InitialMove,         \* CurrentMove as set in the editor
    InputExpirationTime,
    DirectionThreshold,
    XValues, YValues,    \* stick positions the player may use
    Deltas,              \* DeltaSeconds of a tick
    TimeCap,             \* bound on TimeInCurrentMove
    Shipping             \* TRUE: check() and UE_LOG are compiled out

VARIABLES
    ButtonsDown,         \* the bit mask, as a set of buttons
    ButtonsDown_Old,
    DirectionInput,
    InputStream,
    InputAges,
    CurrentMove,
    TimeInCurrentMove,
    DeltaSeconds,        \* argument of the tick in progress
    pc,
    link,                \* loop index of TryLinks, from 1
    smState, DataIndex, RemainingSteps, CompletionType  \* see SMState

SM == INSTANCE SMState WITH DataSource <- InputStream

inputVars == <<ButtonsDown, ButtonsDown_Old, DirectionInput>>
bufferVars == <<InputStream, InputAges>>
moveVars == <<CurrentMove, TimeInCurrentMove>>
runVars == <<smState, DataIndex, RemainingSteps, CompletionType>>
vars == <<inputVars, bufferVars, moveVars, DeltaSeconds, pc, link, runVars>>

Moves == DOMAIN MoveAsset
Links == DOMAIN LinkAsset

EFGInputButtons == {"LeftFace", "TopFace"}
FrameLen == 3            \* 1 + EFGInputButtons::Count

ButtonAtoms == {"ButtonUp", "JustPressed", "HeldDown"}

\* The direction atoms by column (X) and row (Y) of the stick.
DirectionAtom ==
    [ low  |-> [low |-> "DownBack",    mid |-> "Back",    high |-> "UpBack"],
      mid  |-> [low |-> "Down",        mid |-> "Neutral", high |-> "Up"],
      high |-> [low |-> "DownForward", mid |-> "Forward", high |-> "UpForward"] ]

Zones == {"low", "mid", "high"}
DirectionAtoms == {DirectionAtom[x][y] : x, y \in Zones}
Atoms == DirectionAtoms \cup ButtonAtoms

IsLink(a) ==
    /\ a.Move \in Moves \cup {NULL}
    /\ a.CancelWindows \subseteq Nat \X Nat
    /\ a.bClearInput \in BOOLEAN
    /\ \/ a.InputStateMachine = NULL
       \/ /\ a.InputStateMachine \in DOMAIN StateAsset
          /\ StateAsset[a.InputStateMachine].class = "FGState"

\* LinkedMoves may hold null entries.
IsMove(a) ==
    /\ a.LinkedMoves \in Seq(Links \cup {NULL})
    /\ a.bClearInputOnEntry \in BOOLEAN
    /\ a.bClearInputOnExit \in BOOLEAN

\* What the editor and BeginPlay guarantee: BeginPlay destroys a pawn without
\* an initial move or without all its atoms.
ASSUME ContentAssumption ==
    /\ SM!StateAssetOK
    /\ NULL \notin Moves \cup Links
    /\ \A l \in Links : IsLink(LinkAsset[l])
    /\ \A m \in Moves : IsMove(MoveAsset[m])
    /\ InitialMove \in Moves

ASSUME NumberAssumption ==
    /\ InputExpirationTime \in Nat
    /\ DirectionThreshold \in Nat
    /\ XValues \subseteq Int /\ YValues \subseteq Int
    /\ Deltas \subseteq Nat \ {0}
    /\ TimeCap \in Nat
    /\ Shipping \in BOOLEAN

\* The code never looks at which atom of a frame a state reads: whether the
\* input machines walk frame by frame is up to their author.  Content is
\* aligned if each state can be given its place in the frame (0, 1, 2).
AlignedBy(Phase) ==
    /\ Phase \in [SM!States -> 0 .. 2]
    /\ \A s \in SM!States :
        /\ \A i \in DOMAIN SM!Transitions(s) :
            LET t == SM!Transitions(s)[i]
            IN  t # NULL /\ t.class = "SM_Transition" /\ t.DestinationState # NULL
                  => Phase[t.DestinationState] = (Phase[s] + 1) % 3
        /\ StateAsset[s].class = "SM_State" => ~StateAsset[s].bLoopByDefault
        /\ StateAsset[s].CompletionType = "Accepted" => Phase[s] = 0
    /\ \A l \in Links :
        LinkAsset[l].InputStateMachine # NULL => Phase[LinkAsset[l].InputStateMachine] = 0

\* A transition that nothing but a press takes.
AsksForPress(t) == t.AcceptableInputs \subseteq {"JustPressed"} /\ ~t.bReverseInputTest

\* Out of W a machine comes only over a press, and it does not accept before.
WaitsForPress(W) ==
    \A s \in W :
        /\ StateAsset[s].CompletionType # "Accepted"
        /\ \A list \in {StateAsset[s].InstancedTransitions, StateAsset[s].SharedTransitions} :
            \A i \in DOMAIN list :
                list[i] # NULL /\ list[i].class = "SM_Transition" /\ ~AsksForPress(list[i])
                    => list[i].DestinationState \in W \cup {NULL}

\* The states from which no machine accepts without reading a press.
NeedsPress ==
    {s \in DOMAIN StateAsset : \E W \in SUBSET DOMAIN StateAsset : s \in W /\ WaitsForPress(W)}

\* No move has a null link or a link without a destination.
LinksComplete ==
    \A m \in Moves : \A i \in DOMAIN MoveAsset[m].LinkedMoves :
        /\ MoveAsset[m].LinkedMoves[i] # NULL
        /\ LinkAsset[MoveAsset[m].LinkedMoves[i]].Move # NULL

-----------------------------------------------------------------------------
Init ==
    /\ ButtonsDown = {}
    /\ ButtonsDown_Old = {}
    /\ DirectionInput = [X |-> 0, Y |-> 0]
    /\ InputStream = << >>
    /\ InputAges = << >>
    /\ CurrentMove = InitialMove
    /\ TimeInCurrentMove = 0
    /\ DeltaSeconds = 0
    /\ pc = "input"
    /\ link = 1
    /\ smState = NULL
    /\ DataIndex = 0
    /\ RemainingSteps = -1
    /\ CompletionType = "NotAccepted"

(* The callbacks bound by SetupPlayerInputComponent.                        *)

ButtonPressed(b) ==
    /\ pc = "input"
    /\ ButtonsDown' = ButtonsDown \cup {b}
    /\ UNCHANGED <<ButtonsDown_Old, DirectionInput, bufferVars, moveVars,
                   DeltaSeconds, pc, link, runVars>>

ButtonReleased(b) ==
    /\ pc = "input"
    /\ ButtonsDown' = ButtonsDown \ {b}
    /\ UNCHANGED <<ButtonsDown_Old, DirectionInput, bufferVars, moveVars,
                   DeltaSeconds, pc, link, runVars>>

\* Variant: the value of the other axis.
ReadXAxisAsY(value) ==
    /\ pc = "input"
    /\ DirectionInput' = [DirectionInput EXCEPT !.Y = value]
    /\ UNCHANGED <<ButtonsDown, ButtonsDown_Old, bufferVars, moveVars,
                   DeltaSeconds, pc, link, runVars>>

ReadXAxis(value) ==
    /\ pc = "input"
    /\ DirectionInput' = [DirectionInput EXCEPT !.X = value]
    /\ UNCHANGED <<ButtonsDown, ButtonsDown_Old, bufferVars, moveVars,
                   DeltaSeconds, pc, link, runVars>>

ReadYAxis(value) ==
    /\ pc = "input"
    /\ DirectionInput' = [DirectionInput EXCEPT !.Y = value]
    /\ UNCHANGED <<ButtonsDown, ButtonsDown_Old, bufferVars, moveVars,
                   DeltaSeconds, pc, link, runVars>>

-----------------------------------------------------------------------------
(* Tick: one frame of input is appended, one atom for the stick and one for *)
(* each button, with one time stamp.                                        *)

Zone(value) ==
    IF value < -DirectionThreshold THEN "low"
    ELSE IF value < DirectionThreshold THEN "mid" ELSE "high"

StickAtom == DirectionAtom[Zone(DirectionInput.X)][Zone(DirectionInput.Y)]

\* Variant: held and just pressed are not told apart.
ButtonAtomNeverHeld(b) == IF b \in ButtonsDown THEN "JustPressed" ELSE "ButtonUp"

ButtonAtom(b) ==
    IF b \notin ButtonsDown THEN "ButtonUp"
    ELSE IF b \in ButtonsDown_Old THEN "HeldDown" ELSE "JustPressed"

Aged(delta) == [i \in DOMAIN InputAges |-> InputAges[i] + delta]

\* Variant: the loop over the buttons ends one too early.
SampleOneButtonShort(delta) ==
    /\ pc = "input"
    /\ InputStream' = InputStream \o <<StickAtom, ButtonAtom("LeftFace")>>
    /\ ButtonsDown_Old' = ButtonsDown
    /\ InputAges' = Append(Aged(delta), 0)
    /\ DeltaSeconds' = delta
    /\ pc' = "prune"
    /\ UNCHANGED <<ButtonsDown, DirectionInput, moveVars, link, runVars>>

Sample(delta) ==
    /\ pc = "input"
    /\ InputStream' = InputStream
                        \o <<StickAtom, ButtonAtom("LeftFace"), ButtonAtom("TopFace")>>
    /\ ButtonsDown_Old' = ButtonsDown
    /\ InputAges' = Append(Aged(delta), 0)
    /\ DeltaSeconds' = delta
    /\ pc' = "prune"
    /\ UNCHANGED <<ButtonsDown, DirectionInput, moveVars, link, runVars>>

\* TArray::RemoveAt(0, n).
RemoveFirst(s, n) == SubSeq(s, n + 1, Len(s))

\* A failed check(), a null dereference, or RemoveAt past the end of the array.
Crash ==
    /\ pc' = "crashed"
    /\ UNCHANGED <<inputVars, bufferVars, moveVars, DeltaSeconds, link, runVars>>

\* The loop index at which the pruning loop stops: the first frame not expired.
IsFirstFresh(i) ==
    /\ i \in 0 .. Len(InputAges) - 1
    /\ InputAges[i + 1] <= InputExpirationTime
    /\ \A j \in 1 .. i : InputAges[j] > InputExpirationTime

\* Variant: the last expired frame is kept.
ExpiredButOne(i) == IF i \in 1 .. Len(InputStream) - 1 THEN i - 1 ELSE 0

\* The loop runs over the indices of InputStream, not of the time stamps.
Expired(i) == IF i < Len(InputStream) THEN i ELSE 0

Prune ==
    /\ pc = "prune"
    /\ \E i \in 0 .. Len(InputAges) - 1 :
        /\ IsFirstFresh(i)
        /\ IF FrameLen * Expired(i) > Len(InputStream) THEN Crash
           ELSE /\ InputAges' = RemoveFirst(InputAges, Expired(i))
                /\ InputStream' = RemoveFirst(InputStream, FrameLen * Expired(i))
                /\ pc' = "links"
                /\ link' = 1
                /\ UNCHANGED <<inputVars, moveVars, DeltaSeconds, runVars>>

-----------------------------------------------------------------------------
(* TryLinks and TryLink.                                                    *)

LinkedMoves == MoveAsset[CurrentMove].LinkedMoves

\* LinkedMoves[i]->Move->Name is read for the log before the check on the
\* line after it; without logging only the entry itself is dereferenced.
Dereferenced(l) == l # NULL /\ (Shipping \/ LinkAsset[l].Move # NULL)

InWindow(w) == w[1] <= TimeInCurrentMove /\ TimeInCurrentMove <= w[2]

\* TryLink runs the link's state machine.
IsOpen(l) ==
    /\ LinkAsset[l].InputStateMachine # NULL
    /\ LinkAsset[l].Move # NULL
    /\ \/ LinkAsset[l].CancelWindows = {}
       \/ \E w \in LinkAsset[l].CancelWindows : InWindow(w)

\* The next iteration of TryLinks; the result of a closed or failed link is
\* never read again.
NextLink ==
    /\ link' = link + 1
    /\ pc' = "links"
    /\ smState' = NULL
    /\ DataIndex' = 0
    /\ RemainingSteps' = -1
    /\ CompletionType' = "NotAccepted"
    /\ UNCHANGED <<inputVars, bufferVars, moveVars, DeltaSeconds>>

TryLink ==
    /\ pc = "links"
    /\ link <= Len(LinkedMoves)
    /\ LET l == LinkedMoves[link]
       IN  IF ~Dereferenced(l) THEN Crash
           ELSE IF ~IsOpen(l) THEN NextLink
           ELSE /\ SM!RunState(LinkAsset[l].InputStateMachine, 0, -1)
                /\ pc' = "run"
                /\ UNCHANGED <<inputVars, bufferVars, moveVars, DeltaSeconds, link>>

RunState ==
    /\ pc = "run"
    /\ SM!RunStep
    /\ UNCHANGED <<inputVars, InputAges, moveVars, DeltaSeconds, pc, link>>

\* RunState returned, and not with Accepted.
LinkFails ==
    /\ pc = "run"
    /\ CompletionType \in SM!Completions \ {"Accepted"}
    /\ NextLink

-----------------------------------------------------------------------------
(* The end of the tick: DoMove, or the current move goes on.                *)

Followed == LinkAsset[LinkedMoves[link]]

\* Variant: the flag of the link is not looked at.
ClearsInputByMoves ==
    \/ MoveAsset[Followed.Move].bClearInputOnEntry
    \/ MoveAsset[CurrentMove].bClearInputOnExit

ClearsInput ==
    \/ Followed.bClearInput
    \/ MoveAsset[Followed.Move].bClearInputOnEntry
    \/ MoveAsset[CurrentMove].bClearInputOnExit

EndTick(move, time) ==
    /\ CurrentMove' = move
    /\ TimeInCurrentMove' = time
    /\ pc' = "input"
    /\ link' = 1
    /\ smState' = NULL
    /\ DataIndex' = 0
    /\ RemainingSteps' = -1
    /\ CompletionType' = "NotAccepted"
    /\ DeltaSeconds' = 0
    /\ UNCHANGED inputVars

Accepted == pc = "run" /\ CompletionType = "Accepted"

FollowAndClear ==
    /\ Accepted
    /\ ClearsInput
    /\ InputStream' = << >>
    /\ InputAges' = << >>
    /\ EndTick(Followed.Move, 0)

\* Variant: the check is missing.
CanConsumeUnchecked ==
    /\ DataIndex <= Len(InputStream)
    /\ DataIndex \div FrameLen <= Len(InputAges)

\* check(DataIndex % 3 == 0), and RemoveAt stays within both arrays.
CanConsume ==
    /\ Shipping \/ DataIndex % FrameLen = 0
    /\ DataIndex <= Len(InputStream)
    /\ DataIndex \div FrameLen <= Len(InputAges)

\* Variant: the input that led to the move stays in the buffer.
FollowAndKeepInput ==
    /\ Accepted
    /\ ~ClearsInput
    /\ UNCHANGED bufferVars
    /\ EndTick(Followed.Move, 0)

FollowAndConsume ==
    /\ Accepted
    /\ ~ClearsInput
    /\ IF ~CanConsume THEN Crash
       ELSE /\ InputAges' = RemoveFirst(InputAges, DataIndex \div FrameLen)
            /\ InputStream' = RemoveFirst(InputStream, DataIndex)
            /\ EndTick(Followed.Move, 0)

Capped(time) == IF time <= TimeCap THEN time ELSE TimeCap

\* Variant: the time of this tick replaces the time in the move.
KeepMoveTimeLost ==
    /\ pc = "links"
    /\ link > Len(LinkedMoves)
    /\ EndTick(CurrentMove, Capped(DeltaSeconds))
    /\ UNCHANGED bufferVars

KeepMove ==
    /\ pc = "links"
    /\ link > Len(LinkedMoves)
    /\ EndTick(CurrentMove, Capped(TimeInCurrentMove + DeltaSeconds))
    /\ UNCHANGED bufferVars

-----------------------------------------------------------------------------
Callback ==
    \/ \E b \in EFGInputButtons : ButtonPressed(b) \/ ButtonReleased(b)
    \/ \E x \in XValues : ReadXAxis(x)
    \/ \E y \in YValues : ReadYAxis(y)

Tick ==
    \/ \E delta \in Deltas : Sample(delta)
    \/ Prune
    \/ TryLink
    \/ RunState
    \/ LinkFails
    \/ FollowAndClear
    \/ FollowAndConsume
    \/ KeepMove

Next == Callback \/ Tick

\* The engine ticks every actor each frame, and a tick once begun runs to its
\* end.  Callbacks depend on the player: nothing is assumed of them.
Spec == Init /\ [][Next]_vars /\ WF_vars(Tick)

-----------------------------------------------------------------------------
TypeOK ==
    /\ ButtonsDown \subseteq EFGInputButtons
    /\ ButtonsDown_Old \subseteq EFGInputButtons
    /\ DirectionInput \in [X : XValues \cup {0}, Y : YValues \cup {0}]
    /\ InputStream \in Seq(Atoms)
    /\ InputAges \in Seq(Nat)
    /\ CurrentMove \in Moves
    /\ TimeInCurrentMove \in 0 .. TimeCap
    /\ DeltaSeconds \in Deltas \cup {0}
    /\ pc \in {"input", "prune", "links", "run", "crashed"}
    /\ link \in Nat \ {0}
    /\ smState \in SM!States \cup {NULL}
    /\ DataIndex \in Nat
    /\ RemainingSteps \in Int
    /\ CompletionType \in SM!Completions \cup {SM!RUNNING}

\* FGDefaultPawn.h:84.  Three atoms of InputStream belong to each time stamp,
\* through sampling, pruning, clearing and consuming, for any content at all:
\* in a build with checks, a pawn that would break this has stopped first.
StreamsInLockstep ==
    pc # "crashed" => Len(InputStream) = FrameLen * Len(InputAges)

\* A link's state machine is consulted, and so the link followed, only while
\* one of its cancel windows contains the time spent in the current move, and
\* the link always leads to a move (CurrentMove is used without a null test).
RunsOpenLink ==
    pc = "run" =>
        /\ link <= Len(LinkedMoves)
        /\ LinkedMoves[link] # NULL
        /\ IsOpen(LinkedMoves[link])
        /\ smState # NULL

\* No tick ends in a failed check, a null dereference or a RemoveAt beyond the
\* end of an array.
NeverCrashes == pc # "crashed"

\* While links are tried every frame in the buffer is younger than the
\* expiration time ("Input atoms are removed when they pass this age"), the
\* frames are in the order they were sampled and the newest is this tick's.
InputIsFresh ==
    pc \in {"links", "run"} =>
        /\ InputAges # << >>
        /\ InputAges[Len(InputAges)] = 0
        /\ \A i \in DOMAIN InputAges : InputAges[i] <= InputExpirationTime
        /\ \A i, j \in DOMAIN InputAges : i < j => InputAges[i] > InputAges[j]

\* The atom of button b in frame f of the buffer.
Pressed(f, b) ==
    InputStream[FrameLen * (f - 1) + (IF b = "LeftFace" THEN 2 ELSE 3)]

\* Over the frames of the buffer, whatever was cut from its front, each button
\* tells one consistent story: a press follows a frame where it was up, a hold
\* follows a press or a hold, and the last frame is what the next tick compares
\* with.  So a key held down is one press, however long and however often the
\* buffer is pruned or consumed meanwhile.
PressEdges ==
    pc # "crashed" => \A b \in EFGInputButtons :
        /\ \A f \in 1 .. Len(InputAges) - 1 :
            /\ Pressed(f + 1, b) = "JustPressed" => Pressed(f, b) = "ButtonUp"
            /\ Pressed(f + 1, b) = "HeldDown" => Pressed(f, b) # "ButtonUp"
        /\ InputAges # << >> =>
            ((b \in ButtonsDown_Old) <=> (Pressed(Len(InputAges), b) # "ButtonUp"))

\* The presses in the buffer.
PressCount(s) == Cardinality({i \in DOMAIN s : s[i] = "JustPressed"})

\* One press starts at most one move: following a link whose machine needs a press takes
\* a press out of the buffer, and PressEdges says that holding the button does not put
\* it back.
PressesConsumed ==
    [][Accepted /\ Followed.InputStateMachine \in NeedsPress /\ pc' = "input"
         => PressCount(InputStream') < PressCount(InputStream)]_vars

\* A link that would be followed, whatever comes before it: it is in a window
\* and its machine accepts the buffer as it is at this tick.
Qualifies(i) ==
    /\ LinkedMoves[i] # NULL
    /\ IsOpen(LinkedMoves[i])
    /\ SM!Reference[0][LinkAsset[LinkedMoves[i]].InputStateMachine].completion = "Accepted"

\* FGMove.h:39.  The pawn follows a link exactly if it qualifies and no link
\* before it in the list does; it keeps its move exactly if none qualifies.
FirstLinkWins ==
    /\ Accepted => Qualifies(link) /\ \A i \in 1 .. link - 1 : ~Qualifies(i)
    /\ pc = "links" /\ link > Len(LinkedMoves) => \A i \in DOMAIN LinkedMoves : ~Qualifies(i)

=============================================================================

---------------------------- MODULE FGMatchStart -----------------------------
(****************************************************************************)
(* The start of a match: AFGGameMode::StartPlay spawns the camera and a     *)
(* second player; every fighter's BeginPlay checks its assets and arms a    *)
(* next-tick timer; UseGameCamera registers the fighter with the camera or  *)
(* arms the timer again; the camera moves once it knows two fighters.       *)
(*                                                                          *)
(* StartPlay is one call, so no timer fires before it has returned, but     *)
(* BeginPlay of the first fighter runs inside it, before there is a camera. *)
(* The engine is external: it spawns, possesses and calls BeginPlay.        *)
(****************************************************************************)
EXTENDS Naturals, Sequences

CONSTANTS One, Two   \* the fighter of the first player and the created one

Fighters == {One, Two}

VARIABLES
    AnotherCharacter, \* editor setting of the game mode
    Complete,         \* the fighters with an initial move and all their atoms
    startPlay,        \* how far StartPlay has come
    MainGameCamera,   \* whether there is a camera
    fighter,          \* "absent", "playing", or "destroyed"
    timers,           \* the fighters whose UseGameCamera is due
    Possessed,        \* the fighters with a player controller
    inputOn,          \* the fighters EnableInput was called on
    Players,          \* the camera's list
    following         \* whether the camera moves with the fighters

settings == <<AnotherCharacter, Complete>>
cameraVars == <<Players, following>>
vars == <<settings, startPlay, MainGameCamera, fighter, timers, Possessed,
          inputOn, cameraVars>>

Init ==
    /\ AnotherCharacter \in BOOLEAN
    /\ Complete \in SUBSET Fighters
    /\ startPlay = "super"
    /\ MainGameCamera = FALSE
    /\ fighter = [f \in Fighters |-> "absent"]
    /\ timers = {}
    /\ Possessed = {}
    /\ inputOn = {}
    /\ Players = << >>
    /\ following = FALSE

\* BeginPlay of a fighter just spawned; without its assets it destroys itself.
BeginPlay(f) ==
    IF f \in Complete
    THEN /\ fighter' = [fighter EXCEPT ![f] = "playing"]
         /\ timers' = timers \cup {f}
    ELSE /\ fighter' = [fighter EXCEPT ![f] = "destroyed"]
         /\ UNCHANGED timers

\* Super::StartPlay starts the match with the first player's fighter.
SuperStartPlay ==
    /\ startPlay = "super"
    /\ BeginPlay(One)
    /\ startPlay' = "camera"
    /\ UNCHANGED <<settings, MainGameCamera, Possessed, inputOn, cameraVars>>

\* SpawnActor may fail, and nothing is done about it.
SpawnCamera ==
    /\ startPlay = "camera"
    /\ MainGameCamera' \in BOOLEAN
    /\ startPlay' = "another"
    /\ UNCHANGED <<settings, fighter, timers, Possessed, inputOn, cameraVars>>

\* CreatePlayer may return no controller, or one without a pawn.
CreateAnother ==
    /\ startPlay = "another"
    /\ \/ AnotherCharacter /\ BeginPlay(Two)
       \/ UNCHANGED <<fighter, timers>>
    /\ startPlay' = "done"
    /\ UNCHANGED <<settings, MainGameCamera, Possessed, inputOn, cameraVars>>

\* The engine gives a fighter its player's controller, at its own time.
Possess(f) ==
    /\ fighter[f] = "playing"
    /\ f \notin Possessed
    /\ Possessed' = Possessed \cup {f}
    /\ UNCHANGED <<settings, startPlay, MainGameCamera, fighter, timers,
                   inputOn, cameraVars>>

\* Variant: the timer is armed again only if the camera is what is missing.
UseGameCameraGivesUp(f) ==
    /\ startPlay = "done"
    /\ f \in timers
    /\ timers' = IF f \in Possessed /\ ~MainGameCamera THEN timers ELSE timers \ {f}
    /\ inputOn' = inputOn \cup ({f} \cap Possessed)
    /\ Players' = IF f \in Possessed /\ MainGameCamera THEN Append(Players, f) ELSE Players
    /\ UNCHANGED <<settings, startPlay, MainGameCamera, fighter, Possessed, following>>

\* Variant: the timer is armed again in any case.
UseGameCameraAgain(f) ==
    /\ startPlay = "done"
    /\ f \in timers
    /\ inputOn' = inputOn \cup ({f} \cap Possessed)
    /\ Players' = IF f \in Possessed /\ MainGameCamera THEN Append(Players, f) ELSE Players
    /\ UNCHANGED <<settings, startPlay, MainGameCamera, fighter, timers,
                   Possessed, following>>

UseGameCamera(f) ==
    /\ startPlay = "done"
    /\ f \in timers
    /\ inputOn' = inputOn \cup ({f} \cap Possessed)
    /\ IF f \in Possessed /\ MainGameCamera
       THEN /\ Players' = Append(Players, f)
            /\ timers' = timers \ {f}
       ELSE UNCHANGED <<Players, timers>>   \* try again next frame
    /\ UNCHANGED <<settings, startPlay, MainGameCamera, fighter, Possessed, following>>

\* AFGCameraActor::Tick.
CameraTick ==
    /\ MainGameCamera
    /\ Len(Players) = 2
    /\ following' = TRUE
    /\ UNCHANGED <<settings, startPlay, MainGameCamera, fighter, timers,
                   Possessed, inputOn, Players>>

StartPlay == SuperStartPlay \/ SpawnCamera \/ CreateAnother

Next ==
    \/ StartPlay
    \/ \E f \in Fighters : Possess(f) \/ UseGameCamera(f)
    \/ CameraTick

\* Timers and actors are ticked every frame and StartPlay runs to its end; the
\* engine possesses the fighters it spawns for players.
Spec ==
    /\ Init /\ [][Next]_vars
    /\ WF_vars(StartPlay) /\ WF_vars(CameraTick)
    /\ \A f \in Fighters : WF_vars(Possess(f)) /\ WF_vars(UseGameCamera(f))

-----------------------------------------------------------------------------
Registered(f) == {i \in DOMAIN Players : Players[i] = f}

\* Every fighter that plays either still has its timer or is on the camera's
\* list, exactly once, with its input enabled; a destroyed one has neither.  So
\* no fighter is forgotten, and none registered twice, which would stop the
\* camera for good (its list must have exactly two entries).
NoFighterForgotten ==
    /\ \A f \in Fighters :
        IF fighter[f] = "playing"
        THEN IF f \in timers THEN Registered(f) = {}
             ELSE f \in inputOn /\ \E i \in DOMAIN Players : Registered(f) = {i}
        ELSE f \notin timers /\ Registered(f) = {}
    /\ Len(Players) <= 2

\* Once two fighters play and there is a camera, it comes to follow them, in
\* whatever order camera, fighters and controllers appeared; without a camera
\* no fighter's input stays off.
MatchGetsGoing ==
    /\ (MainGameCamera /\ \A f \in Fighters : fighter[f] = "playing") ~> following
    /\ \A f \in Fighters : (fighter[f] = "playing") ~> (f \in inputOn)
=============================================================================

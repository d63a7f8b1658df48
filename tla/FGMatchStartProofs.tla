------------------------- MODULE FGMatchStartProofs --------------------------
(****************************************************************************)
(* No fighter is forgotten at the start of a match, for every outcome of    *)
(* the engine's calls and every order of timers, controllers and camera.    *)
(****************************************************************************)
EXTENDS FGMatchStart, SequenceTheorems, TLAPS

Status == {"absent", "playing", "destroyed"}

\* A fighter waits for its timer, is registered, or has nothing to do here.
Remembered(f) ==
    IF fighter[f] = "playing"
    THEN IF f \in timers THEN Registered(f) = {}
         ELSE f \in inputOn /\ \E i \in DOMAIN Players : Registered(f) = {i}
    ELSE f \notin timers /\ Registered(f) = {}

\* While StartPlay runs no timer has fired, so BeginPlay finds the camera's
\* list empty; and only a complete fighter is ever playing, so the one that
\* destroys itself has no timer.
StartInv ==
    /\ fighter \in [Fighters -> Status]
    /\ Players \in Seq(Fighters)
    /\ startPlay # "done" => Players = << >>
    /\ \A f \in Fighters : fighter[f] = "playing" => f \in Complete
    /\ \A f \in Fighters : Remembered(f)

\* BeginPlay arms the timer of a fighter that stays, before any has fired.
LEMMA BeginPlayKeeps ==
    ASSUME StartInv, NEW g \in Fighters, BeginPlay(g), Players = << >>,
           UNCHANGED <<settings, inputOn, cameraVars>>
    PROVE  StartInv'
<1>1. Players' = << >> /\ Players' \in Seq(Fighters) /\ Complete' = Complete
  BY DEF settings, cameraVars
<1>2. \A f \in Fighters : Registered(f)' = {}
  BY <1>1 DEF Registered
<1>3. \A f \in Fighters : (fighter[f] = "playing" <=> f \in timers)
  BY DEF StartInv, Remembered
<1>4. CASE g \in Complete
  <2>1. /\ fighter' = [fighter EXCEPT ![g] = "playing"]
        /\ timers' = timers \cup {g}
    BY <1>4 DEF BeginPlay
  <2> QED
    BY <1>1, <1>2, <1>3, <1>4, <2>1 DEF StartInv, Remembered, Status
<1>5. CASE g \notin Complete
  <2>1. /\ fighter' = [fighter EXCEPT ![g] = "destroyed"]
        /\ timers' = timers /\ g \notin timers
    BY <1>3, <1>5 DEF BeginPlay, StartInv
  <2> QED
    BY <1>1, <1>2, <1>3, <2>1 DEF StartInv, Remembered, Status
<1> QED
  BY <1>4, <1>5

\* A timer that fires registers its fighter for the first time, or stays.
LEMMA UseGameCameraKeeps ==
    ASSUME StartInv, NEW g \in Fighters, UseGameCamera(g)
    PROVE  StartInv'
<1>1. /\ startPlay = "done" /\ g \in timers
      /\ inputOn' = inputOn \cup ({g} \cap Possessed)
      /\ UNCHANGED <<Complete, startPlay, fighter>>
  BY DEF UseGameCamera, settings
<1>2. fighter[g] = "playing" /\ Registered(g) = {}
  BY <1>1 DEF StartInv, Remembered
<1>3. CASE g \in Possessed /\ MainGameCamera
  <2> DEFINE n == Len(Players)
  <2>1. Players' = Append(Players, g) /\ timers' = timers \ {g} /\ g \in inputOn'
    BY <1>1, <1>3 DEF UseGameCamera
  <2>2. /\ n \in Nat /\ DOMAIN Players = 1 .. n
        /\ Players' \in Seq(Fighters)
        /\ DOMAIN Players' = 1 .. n + 1
        /\ Players'[n + 1] = g
        /\ \A i \in 1 .. n : Players'[i] = Players[i]
    BY <2>1, LenProperties, AppendProperties DEF StartInv
  <2> HIDE DEF n
  <2>3. Registered(g)' = {n + 1} /\ n + 1 \in DOMAIN Players'
    BY <1>2, <2>2 DEF Registered
  <2>4. ASSUME NEW f \in Fighters, f # g
        PROVE  Registered(f)' = Registered(f) /\ DOMAIN Players \subseteq DOMAIN Players'
    BY <2>2, <2>4 DEF Registered
  <2>5. Remembered(g)'
    BY <1>1, <1>2, <2>1, <2>3 DEF Remembered
  <2>6. ASSUME NEW f \in Fighters, f # g
        PROVE  Remembered(f)'
    BY <1>1, <2>1, <2>4, <2>6 DEF StartInv, Remembered
  <2> QED
    BY <1>1, <2>2, <2>5, <2>6 DEF StartInv
<1>4. CASE ~(g \in Possessed /\ MainGameCamera)
  <2>1. UNCHANGED <<Players, timers>>
    BY <1>4 DEF UseGameCamera
  <2>2. \A f \in Fighters : Registered(f)' = Registered(f)
    BY <2>1 DEF Registered
  <2> QED
    BY <1>1, <2>1, <2>2 DEF StartInv, Remembered
<1> QED
  BY <1>3, <1>4

LEMMA StartStep ==
    ASSUME StartInv, [Next]_vars
    PROVE  StartInv'
<1>1. CASE UNCHANGED <<Complete, fighter, timers, inputOn, Players>>
             /\ (startPlay' = "done" \/ startPlay # "done" \/ UNCHANGED startPlay)
  BY <1>1 DEF StartInv, Remembered, Registered
<1>2. CASE SuperStartPlay
  BY <1>2, BeginPlayKeeps DEF SuperStartPlay, StartInv, Fighters
<1>3. CASE SpawnCamera
  BY <1>1, <1>3 DEF SpawnCamera, settings, cameraVars
<1>4. CASE CreateAnother
  <2>1. CASE BeginPlay(Two)
    BY <1>4, <2>1, BeginPlayKeeps DEF CreateAnother, StartInv, Fighters
  <2>2. CASE UNCHANGED <<fighter, timers>>
    BY <1>1, <1>4, <2>2 DEF CreateAnother, settings, cameraVars
  <2> QED
    BY <1>4, <2>1, <2>2 DEF CreateAnother
<1>5. CASE (\E f \in Fighters : Possess(f)) \/ CameraTick \/ UNCHANGED vars
  BY <1>1, <1>5 DEF Possess, CameraTick, vars, settings, cameraVars
<1>6. CASE \E f \in Fighters : UseGameCamera(f)
  BY <1>6, UseGameCameraKeeps
<1> QED
  BY <1>2, <1>3, <1>4, <1>5, <1>6 DEF Next, StartPlay

\* Two fighters, each on the list at most once, fill at most two places.
LEMMA RoomForTwo ==
    ASSUME StartInv
    PROVE  Len(Players) <= 2
<1>1. /\ Len(Players) \in Nat
      /\ DOMAIN Players = 1 .. Len(Players)
      /\ \A i \in 1 .. Len(Players) : Players[i] \in Fighters
  BY LenProperties, ElementOfSeq DEF StartInv
<1>2. ASSUME NEW i \in DOMAIN Players, NEW j \in DOMAIN Players, Players[i] = Players[j]
      PROVE  i = j
  <2> PICK f \in Fighters : f = Players[i]
    BY <1>1
  <2>1. i \in Registered(f) /\ j \in Registered(f)
    BY <1>2 DEF Registered
  <2>2. PICK k : Registered(f) = {k}
    BY <2>1 DEF StartInv, Remembered
  <2> QED
    BY <2>1, <2>2
<1>3. ASSUME Len(Players) > 2 PROVE FALSE
  <2>1. {1, 2, 3} \subseteq DOMAIN Players
    BY <1>1, <1>3
  <2>2. Players[1] \in {One, Two} /\ Players[2] \in {One, Two} /\ Players[3] \in {One, Two}
    BY <1>1, <2>1 DEF Fighters
  <2> QED
    BY <1>2, <2>1, <2>2
<1> QED
  BY <1>1, <1>3

\* Whatever the editor's settings, whether the camera and the second player
\* can be spawned, and whenever the controllers come: a fighter that plays has
\* its timer armed or is on the camera's list, once and with its input on, and
\* a fighter that destroyed itself is on neither.
THEOREM NobodyForgotten == Spec => []NoFighterForgotten
<1>1. Init => StartInv
  BY DEF Init, StartInv, Remembered, Registered, Status
<1>2. StartInv /\ [Next]_vars => StartInv'
  BY StartStep
<1>3. StartInv => NoFighterForgotten
  BY RoomForTwo DEF StartInv, Remembered, NoFighterForgotten
<1> QED
  BY <1>1, <1>2, <1>3, PTL DEF Spec

=============================================================================

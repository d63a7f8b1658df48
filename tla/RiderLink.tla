------------------------------- MODULE RiderLink -------------------------------
(****************************************************************************)
(* The editor side of the link to Rider: the module RiderLink, which makes  *)
(* an EditorModel for each connection, and RiderGameControl, which carries  *)
(* out Rider's requests and keeps Rider's play mode and the editor's play   *)
(* settings the same.  The wire's thread brings connections and messages,   *)
(* the Scheduler's thread runs what is queued for it, and the game thread   *)
(* runs the editor.                                                         *)
(****************************************************************************)
EXTENDS Integers, Sequences

CONSTANTS
    UserSettings,      \* the settings the user of the editor may choose
    RiderModes,        \* the play modes Rider may ask for
    MaxConnections, MaxRequests, MaxChanges    \* bounds on what the peers do

VARIABLES
    connection,    \* the number of the last ConnectionLifetime
    ended,         \* the ConnectionLifetimes that are terminated
    notified,      \* those that will queue "lost" when they are
    actions,       \* queued on the Scheduler
    alive,         \* RdIsModelAlive
    model,         \* the connection of the EditorModel, 0 if there is none
    control,       \* the connection of the FRiderGameControl, 0 if there is none
    game_tasks,    \* AsyncTasks for the game thread
    asked,         \* the connections on which Rider has sent a request, per request
    replies,       \* per request
    settings,      \* ULevelEditorPlaySettings
    playMode,      \* of the FRiderGameControl
    told,          \* the last mode Rider was told
    change,        \* where each thread is in changing the settings, the Scheduler's also in
                   \* making a FRiderGameControl
    changes,
    crossed,       \* a change by Rider was carried out while one by the user was not
                   \* reported yet, or the other way round; or one by the user while a
                   \* new FRiderGameControl had read the settings and not stored them, or
                   \* a second one before it had read them
    freed          \* a FRiderGameControl was used after its reset

link == <<connection, ended, notified, alive, model, control>>
requested == <<game_tasks, asked, replies>>
mode == <<settings, playMode, told, change, changes, crossed>>
linkVars == <<link, actions, requested, mode, freed>>

Threads == {"scheduler", "game"}
Requests == 1 .. MaxRequests

-----------------------------------------------------------------------------
(* FPlaySettings, and its encoding in a number                              *)

PlayModes == {"InViewPort", "InEditorFloating", "InMobilePreview", "InTargetedMobilePreview",
              "InVulkanPreview", "InNewProcess", "InVR", "Simulate"}

PlayModeFromInt(n) ==
    CASE n = 1 -> "InMobilePreview" [] n = 2 -> "InEditorFloating" [] n = 3 -> "InVR"
      [] n = 4 -> "InNewProcess" [] n = 5 -> "Simulate" [] n = 6 -> "InVulkanPreview"
      [] OTHER -> "InViewPort"

PlayModeToInt(play_mode) ==
    IF play_mode = "InTargetedMobilePreview" THEN 1
    ELSE CHOOSE n \in 0 .. 6 : PlayModeFromInt(n) = play_mode

UnpackFromMode(m) ==
    [PlayMode |-> PlayModeFromInt((m \div 16) % 8),
     NumberOfClients |-> (m % 4) + 1,
     bNetDedicated |-> (m \div 8) % 2 = 1,
     bSpawnAtPlayerStart |-> (m \div 4) % 2 = 1]

PackToMode(s) ==
    (s.NumberOfClients - 1)
        + (IF s.bSpawnAtPlayerStart THEN 4 ELSE 0)
        + (IF s.bNetDedicated THEN 8 ELSE 0)
        + 16 * PlayModeToInt(s.PlayMode)

-----------------------------------------------------------------------------

Unwritten == -1    \* the playMode of a FRiderGameControl that has not stored one
In(step, of, m) == [step |-> step, of |-> of, mode |-> m]
Still == In("still", 0, 0)
NowAt(thread, at) == change' = [change EXCEPT ![thread] = at]

LinkInit ==
    /\ connection = 0 /\ ended = {} /\ notified = {}
    /\ actions = << >>
    /\ alive = FALSE /\ model = 0 /\ control = 0
    /\ game_tasks = << >> /\ asked = << >> /\ replies = [id \in Requests |-> 0]
    /\ settings \in UserSettings /\ playMode = 0 /\ told = 0
    /\ change = [thread \in Threads |-> Still] /\ changes = 0 /\ crossed = FALSE
    /\ freed = FALSE

Connected == connection # 0 /\ connection \notin ended
Queue(action) == actions' = Append(actions, action)
Queued(kind) == \E i \in DOMAIN actions : actions[i].kind = kind

\* The wire's thread: connected changes, and its view ends the old lifetime.
Connect ==
    /\ ~Connected /\ connection < MaxConnections
    /\ connection' = connection + 1
    /\ Queue([kind |-> "connected", of |-> connection + 1, arg |-> 0])
    /\ UNCHANGED <<ended, notified, alive, model, control, requested, mode, freed>>

Disconnect ==
    /\ Connected
    /\ ended' = ended \cup {connection}
    /\ IF connection \in notified
       THEN Queue([kind |-> "lost", of |-> connection, arg |-> 0])
       ELSE UNCHANGED actions
    /\ UNCHANGED <<connection, notified, alive, model, control, requested, mode, freed>>

\* A message of Rider is dispatched to the model of the connection.
Request ==
    /\ Connected /\ model = connection /\ Len(asked) < MaxRequests
    /\ asked' = Append(asked, connection)
    /\ Queue([kind |-> "request", of |-> connection, arg |-> Len(asked) + 1])
    /\ UNCHANGED <<link, game_tasks, replies, mode, freed>>

playModeFromRider(m) ==
    /\ Connected /\ model = connection /\ changes < MaxChanges
    /\ changes' = changes + 1
    /\ Queue([kind |-> "mode", of |-> connection, arg |-> m])
    /\ UNCHANGED <<link, requested, settings, playMode, told, change, crossed, freed>>

-----------------------------------------------------------------------------
(* The Scheduler's thread                                                   *)

Runs(kind) ==
    /\ actions # << >> /\ Head(actions).kind = kind
    /\ change["scheduler"] = Still /\ ~freed
Action == Head(actions)
Dequeued == actions' = Tail(actions)

\* A signal of the model that is not bound any more sends nothing.
Tell(m) == told' = IF model \in ended THEN told ELSE m
Reply(id) == replies' = IF model \in ended THEN replies ELSE [replies EXCEPT ![id] = @ + 1]

\* Variant: RdIsModelAlive is set before the action is added, which throws when the
\* lifetime is over.
BecomesAliveFirst(c) == alive' = TRUE /\ control' = c

\* Otherwise the exception ends the action before RdIsModelAlive is set.
BecomesAlive(c) ==
    IF c \in ended THEN UNCHANGED <<alive, control>> ELSE alive' = TRUE /\ control' = c

\* A new FRiderGameControl adds OnObjectPropertyChanged first, ...
OnConnected ==
    /\ Runs("connected") /\ Dequeued
    /\ model' = Action.of
    /\ notified' = IF Action.of \in ended THEN notified ELSE notified \cup {Action.of}
    /\ BecomesAlive(Action.of)
    /\ IF Action.of \in ended THEN UNCHANGED <<playMode, change>>
       ELSE playMode' = Unwritten /\ NowAt("scheduler", In("added", Action.of, 0))
    /\ UNCHANGED <<connection, ended, requested, settings, told, changes, crossed, freed>>

\* ... then reads the settings, ...
InitialRead ==
    /\ change["scheduler"].step = "added" /\ ~freed
    /\ NowAt("scheduler", In("read", control, PackToMode(settings)))
    /\ UNCHANGED <<link, actions, requested, settings, playMode, told, changes, crossed, freed>>

\* ... stores what it has read, whatever OnObjectPropertyChanged has stored meanwhile, ...
InitialStore ==
    /\ change["scheduler"].step = "read" /\ ~freed
    /\ playMode' = change["scheduler"].mode
    /\ NowAt("scheduler", In("stored", control, 0))
    /\ UNCHANGED <<link, actions, requested, settings, told, changes, crossed, freed>>

\* ... and tells Rider the mode.
InitialTell ==
    /\ change["scheduler"].step = "stored" /\ ~freed
    /\ Tell(playMode)
    /\ NowAt("scheduler", Still)
    /\ UNCHANGED <<link, actions, requested, settings, playMode, changes, crossed, freed>>

OnLost ==
    /\ Runs("lost") /\ Dequeued
    /\ alive' = FALSE /\ control' = 0
    /\ UNCHANGED <<connection, ended, notified, model, requested, mode, freed>>

\* Variant: no return behind the failure.
OnRequestGoesOn ==
    /\ Runs("request") /\ Dequeued
    /\ IF control = 0 \/ Action.of # control THEN UNCHANGED <<game_tasks, replies>>
       ELSE /\ Reply(Action.arg)
            /\ game_tasks' = Append(game_tasks, [of |-> control, id |-> Action.arg])
    /\ UNCHANGED <<link, asked, mode, freed>>

\* RequestPlayWorldCommand: a command that is not registered fails at once.
OnRequest ==
    /\ Runs("request") /\ Dequeued
    /\ IF control = 0 \/ Action.of # control THEN UNCHANGED <<game_tasks, replies>>
       ELSE \/ Reply(Action.arg) /\ UNCHANGED game_tasks
            \/ /\ game_tasks' = Append(game_tasks, [of |-> control, id |-> Action.arg])
               /\ UNCHANGED replies
    /\ UNCHANGED <<link, asked, mode, freed>>

\* What a FRiderGameControl has queued uses it and its model.
OnReply ==
    /\ Runs("reply") /\ Dequeued
    /\ IF Action.of # control THEN freed' = TRUE /\ UNCHANGED replies
       ELSE Reply(Action.arg) /\ UNCHANGED freed
    /\ UNCHANGED <<link, game_tasks, asked, mode>>

OnTell ==
    /\ Runs("tell") /\ Dequeued
    /\ IF Action.of # control THEN freed' = TRUE /\ UNCHANGED told
       ELSE Tell(Action.arg) /\ UNCHANGED freed
    /\ UNCHANGED <<link, requested, settings, playMode, change, changes, crossed>>

\* UpdateSettings on the Scheduler's thread.
OnMode ==
    /\ Runs("mode") /\ Dequeued
    /\ IF control = 0 \/ Action.of # control THEN UNCHANGED <<settings, change, crossed>>
       ELSE /\ settings' = UnpackFromMode(Action.arg)
            /\ NowAt("scheduler", In("changed", 0, 0))
            /\ crossed' = (crossed \/ change["game"] # Still \/ Queued("tell"))
    /\ UNCHANGED <<link, requested, playMode, told, changes, freed>>

-----------------------------------------------------------------------------
(* The game thread                                                          *)

\* The user changes the play settings.
Edit(new) ==
    /\ change["game"] = Still /\ changes < MaxChanges /\ ~freed
    /\ changes' = changes + 1
    /\ settings' = new
    /\ NowAt("game", In("changed", 0, 0))
    /\ crossed' = (\/ crossed \/ change["scheduler"].step \in {"changed", "retrieved", "read"}
                   \/ change["scheduler"].step = "added" /\ Queued("tell"))
    /\ UNCHANGED <<link, actions, requested, playMode, told, freed>>

RunTask ==
    /\ game_tasks # << >> /\ change["game"] = Still /\ ~freed
    /\ game_tasks' = Tail(game_tasks)
    /\ LET task == Head(game_tasks)
       IN  IF task.of # control THEN freed' = TRUE /\ UNCHANGED actions
           ELSE Queue([kind |-> "reply", of |-> control, arg |-> task.id]) /\ UNCHANGED freed
    /\ UNCHANGED <<link, asked, replies, mode>>

-----------------------------------------------------------------------------
(* OnObjectPropertyChanged, on the thread that has changed the settings     *)

RetrieveSettings(thread) ==
    /\ change[thread].step = "changed" /\ ~freed
    /\ NowAt(thread, IF control = 0 THEN Still ELSE In("retrieved", control, PackToMode(settings)))
    /\ UNCHANGED <<link, actions, requested, settings, playMode, told, changes, crossed, freed>>

\* Variant: playMode is left as it is.
RemembersNot(m) == UNCHANGED playMode
Remembers(m) == playMode' = m

\* It uses the FRiderGameControl that has added it; a playMode that is not written yet
\* may be any.  On the Scheduler's thread the action runs at once, on the game thread it
\* is queued.
Report(thread) ==
    /\ change[thread].step = "retrieved" /\ ~freed
    /\ NowAt(thread, Still)
    /\ LET new == change[thread].mode
       IN  \/ /\ change[thread].of # control
              /\ freed' = TRUE /\ UNCHANGED <<actions, playMode, told>>
           \/ /\ change[thread].of = control /\ playMode \in {new, Unwritten}
              /\ UNCHANGED <<actions, playMode, told, freed>>
           \/ /\ change[thread].of = control /\ playMode # new
              /\ Remembers(new) /\ UNCHANGED freed
              /\ IF thread = "scheduler" THEN Tell(new) /\ UNCHANGED actions
                 ELSE Queue([kind |-> "tell", of |-> control, arg |-> new]) /\ UNCHANGED told
    /\ UNCHANGED <<link, requested, settings, changes, crossed>>

Constructor == InitialRead \/ InitialStore \/ InitialTell
Scheduler == OnConnected \/ Constructor \/ OnLost \/ OnRequest \/ OnReply \/ OnTell \/ OnMode
Changing == \E thread \in Threads : RetrieveSettings(thread) \/ Report(thread)

LinkNext ==
    \/ Connect \/ Disconnect
    \/ Request \/ \E m \in RiderModes : playModeFromRider(m)
    \/ Scheduler \/ Changing
    \/ \E new \in UserSettings : Edit(new)
    \/ RunTask

\* The threads of the editor are scheduled.
LinkFairness == WF_linkVars(Scheduler) /\ WF_linkVars(Changing) /\ WF_linkVars(RunTask)

LinkSpec == LinkInit /\ [][LinkNext]_linkVars /\ LinkFairness

-----------------------------------------------------------------------------
(* Properties *)

Settings == [PlayMode : PlayModes, NumberOfClients : Nat \ {0},
             bNetDedicated : BOOLEAN, bSpawnAtPlayerStart : BOOLEAN]

Steps == {"still", "changed", "retrieved", "added", "read", "stored"}
Actions == [kind : {"connected", "lost", "request", "reply", "tell", "mode"}, of : Nat, arg : Nat]

LinkTypeOK ==
    /\ connection \in Nat /\ ended \subseteq Nat /\ notified \subseteq Nat
    /\ actions \in Seq(Actions)
    /\ alive \in BOOLEAN /\ model \in Nat /\ control \in Nat
    /\ game_tasks \in Seq([of : Nat, id : Nat])
    /\ asked \in Seq(Nat) /\ replies \in [Requests -> Nat]
    /\ settings \in Settings /\ playMode \in Nat \cup {Unwritten} /\ told \in Nat
    /\ change \in [Threads -> [step : Steps, of : Nat, mode : Nat]]
    /\ changes \in Nat /\ crossed \in BOOLEAN /\ freed \in BOOLEAN

\* RiderLink.cpp:53-72, 101-111.  While RdIsModelAlive is true there is a model, it is
\* the one the views were given, and if its connection has ended the action that
\* ends the views is queued: however fast connections come and go, nobody is left
\* with a model that is gone.
AliveModelIsCurrent ==
    alive => /\ model # 0 /\ control = model
             /\ model \in ended => Queued("lost")

\* RiderGameControl.cpp:282-305.  A request gets one reply at most, from whichever
\* thread, ...
RepliedOnce == \A id \in Requests : replies[id] <= 1

\* ... and besides it gets one, unless its connection ends first, or what was queued on
\* an earlier one uses the FRiderGameControl that is gone.
RequestIsAnswered ==
    \A id \in Requests :
        /\ [](replies[id] <= 1)
        /\ id \in DOMAIN asked
               ~> \/ replies[id] = 1 \/ freed
                  \/ id \in DOMAIN asked /\ asked[id] \in ended

ModeIsSettled ==
    /\ Connected /\ control = connection /\ ~freed
    /\ \A thread \in Threads : change[thread] = Still
    /\ ~Queued("tell")

\* RiderGameControl.cpp:362-377, 430-451.  Rider ends up with the mode of the editor's
\* settings, whoever changed them last, unless the changes of both cross.  While a new
\* FRiderGameControl is made it is enough that the user changes them between lines
\* 445 and 446, or twice before: then what it stores or tells at once is older than what
\* OnObjectPropertyChanged has.  For settings that a mode can express it stands for just
\* these.
RiderKnowsMode ==
    ModeIsSettled /\ ~crossed =>
        /\ told = PackToMode(settings)
        /\ settings.NumberOfClients <= 4 /\ settings.PlayMode # "InTargetedMobilePreview"
               => UnpackFromMode(told) = settings
=============================================================================

---------------------------- MODULE RiderLinkProofs ----------------------------
(****************************************************************************)
(* Theorems about the editor's modules and the message broker, and about    *)
(* the parts of the link together.                                          *)
(****************************************************************************)
EXTENDS MCRiderLink, RdEntityProofs, RdThreadsProofs

-----------------------------------------------------------------------------
(* Whoever is given a model of RiderLink has the current one, for any       *)
(* number of connections, requests and changes.  The point is the order of  *)
(* what is queued on the Scheduler: a connection is made when the last one  *)
(* has ended, so "lost" of a model that is alive comes before "connected"   *)
(* of the next.  And Rider is told the mode it is to play in: as long as    *)
(* threads do not meet in the handler, the last one told is the present.    *)

\* What the editor and Rider can choose.
Chosen == UserSettings \subseteq Settings /\ RiderModes \subseteq Nat

\* All connections but the last have ended, and they are announced in their order.
Numbered ==
    /\ 1 .. connection - 1 \subseteq ended
    /\ model <= connection
    /\ \A j \in 1 .. Len(actions) :
           actions[j].kind = "connected" =>
               /\ actions[j].of \in 1 .. connection
               /\ \A k \in 1 .. Len(actions) :
                      j < k /\ actions[k].kind = "connected" => actions[j].of < actions[k].of

\* A model that is alive is lost before another one comes.
LostFirst ==
    alive => \A j \in 1 .. Len(actions) :
        actions[j].kind = "connected" =>
            \E i \in 1 .. Len(actions) : i < j /\ actions[i].kind = "lost"

\* The end of a model that is alive will be told, or has been.
AliveIsNotified ==
    alive => /\ model # 0 /\ control = model /\ model \in notified
             /\ model \in ended =>
                    \E i \in 1 .. Len(actions) : actions[i].kind = "lost"

\* A FRiderGameControl is made on the Scheduler's thread.
Making == change["scheduler"].step \in {"added", "read", "stored"}

\* There is one while it is made, and it has a playMode once it has stored one.
Constructs ==
    /\ change["game"].step \in {"still", "changed", "retrieved"}
    /\ Making => control # 0
    /\ playMode = Unwritten => change["scheduler"].step \in {"added", "read"}

Inv == LinkTypeOK /\ Numbered /\ LostFirst /\ AliveIsNotified /\ Constructs

LinkInv == Numbered /\ LostFirst /\ AliveIsNotified

-----------------------------------------------------------------------------
(* Types *)

\* The encoding of a mode is a number.
LEMMA PackIsNat == ASSUME NEW s \in Settings PROVE PackToMode(s) \in Nat
  <1>1. PlayModeToInt(s.PlayMode) \in Nat
    <2>1. s.PlayMode \in PlayModes
      BY DEF Settings
    <2>2. s.PlayMode # "InTargetedMobilePreview" =>
              \E n \in 0 .. 6 : PlayModeFromInt(n) = s.PlayMode
      <3>1. /\ PlayModeFromInt(0) = "InViewPort" /\ PlayModeFromInt(1) = "InMobilePreview"
            /\ PlayModeFromInt(2) = "InEditorFloating" /\ PlayModeFromInt(3) = "InVR"
            /\ PlayModeFromInt(4) = "InNewProcess" /\ PlayModeFromInt(5) = "Simulate"
            /\ PlayModeFromInt(6) = "InVulkanPreview"
        BY DEF PlayModeFromInt
      <3>2. 0 \in 0 .. 6 /\ 1 \in 0 .. 6 /\ 2 \in 0 .. 6 /\ 3 \in 0 .. 6
            /\ 4 \in 0 .. 6 /\ 5 \in 0 .. 6 /\ 6 \in 0 .. 6
        OBVIOUS
      <3> QED BY <2>1, <3>1, <3>2, Zenon DEF PlayModes
    <2>3. s.PlayMode # "InTargetedMobilePreview" => PlayModeToInt(s.PlayMode) \in 0 .. 6
      BY <2>2 DEF PlayModeToInt
    <2>4. s.PlayMode = "InTargetedMobilePreview" => PlayModeToInt(s.PlayMode) = 1
      BY DEF PlayModeToInt
    <2> QED BY <2>3, <2>4
  <1>2. s.NumberOfClients \in Nat \ {0}
    BY DEF Settings
  <1> QED BY <1>1, <1>2 DEF PackToMode

\* Any number stands for settings.
LEMMA UnpackIsSettings == ASSUME NEW m \in Nat PROVE UnpackFromMode(m) \in Settings
  <1>1. \A n \in Int : PlayModeFromInt(n) \in PlayModes
    BY DEF PlayModeFromInt, PlayModes
  <1>2. (m \div 16) % 8 \in Int /\ (m % 4) + 1 \in Nat \ {0}
    OBVIOUS
  <1> QED BY <1>1, <1>2 DEF UnpackFromMode, Settings

\* The first of what is queued is an action, the rest are.
LEMMA HeadAndTail ==
    ASSUME LinkTypeOK, actions # << >>
    PROVE  /\ Action \in Actions /\ Tail(actions) \in Seq(Actions)
           /\ Action.of \in Nat /\ Action.arg \in Nat
  <1>1. actions \in Seq(Actions)
    BY DEF LinkTypeOK
  <1>2. Action \in Actions /\ Tail(actions) \in Seq(Actions)
    BY <1>1 DEF Action
  <1> QED BY <1>2 DEF Actions

\* Replies are counted.
LEMMA Counting ==
    ASSUME NEW S, NEW f \in [S -> Nat], NEW x
    PROVE  [f EXCEPT ![x] = @ + 1] \in [S -> Nat]
  <1> DEFINE g == [f EXCEPT ![x] = @ + 1]
  <1>1. ASSUME NEW y \in S PROVE g[y] \in Nat
    <2>1. CASE y = x
      BY <2>1
    <2>2. CASE y # x
      BY <2>2
    <2> QED BY <2>1, <2>2
  <1>2. g = [y \in S |-> g[y]]
    OBVIOUS
  <1> QED BY <1>1, <1>2

\* The first of the game thread's tasks replies to a request.
LEMMA TaskId == ASSUME LinkTypeOK, game_tasks # << >> PROVE Head(game_tasks).id \in Nat
  <1> DEFINE Tasks == [of : Nat, id : Nat]
  <1>1. game_tasks \in Seq(Tasks)
    BY DEF LinkTypeOK
  <1> HIDE DEF Tasks
  <1>2. Head(game_tasks) \in Tasks
    BY <1>1
  <1> QED BY <1>2 DEF Tasks

\* A thread is at another place.
LEMMA Places ==
    ASSUME LinkTypeOK, NEW thread \in Threads, NEW at \in [step : Steps, of : Nat, mode : Nat],
           NowAt(thread, at)
    PROVE  /\ change' \in [Threads -> [step : Steps, of : Nat, mode : Nat]]
           /\ change'[thread] = at
           /\ \A other \in Threads : other # thread => change'[other] = change[other]
  BY DEF LinkTypeOK, NowAt

\* The places there are.
LEMMA PlacesThereAre ==
    /\ \A step \in Steps, of, m \in Nat : In(step, of, m) \in [step : Steps, of : Nat, mode : Nat]
    /\ Still \in [step : Steps, of : Nat, mode : Nat]
    /\ "scheduler" \in Threads /\ "game" \in Threads
    /\ \A step, of, m : In(step, of, m).step = step /\ In(step, of, m).of = of
                         /\ In(step, of, m).mode = m
    /\ Still.step = "still"
  BY DEF In, Still, Steps, Threads

\* A thread at a place it goes to.
LEMMA GoesTo ==
    ASSUME LinkTypeOK, NEW thread \in Threads, NEW step \in Steps, NEW of \in Nat, NEW m \in Nat,
           NowAt(thread, In(step, of, m))
    PROVE  /\ change'[thread] = In(step, of, m) /\ change'[thread].step = step
           /\ change'[thread].of = of /\ change'[thread].mode = m
           /\ \A other \in Threads : other # thread => change'[other] = change[other]
  <1>1. In(step, of, m) \in [step : Steps, of : Nat, mode : Nat]
    BY PlacesThereAre
  <1> QED BY <1>1, Places, PlacesThereAre

\* What the wire's thread does keeps the types.
LEMMA WireType ==
    ASSUME Chosen, LinkTypeOK, Connect \/ Disconnect \/ Request \/ \E m \in RiderModes : playModeFromRider(m)
    PROVE  LinkTypeOK'
  <1> USE DEF LinkTypeOK, link, requested, mode, Queue
  <1>1. ASSUME NEW kind \in {"connected", "lost", "request", "mode"}, NEW of \in Nat, NEW arg \in Nat
        PROVE  Append(actions, [kind |-> kind, of |-> of, arg |-> arg]) \in Seq(Actions)
    BY DEF Actions
  <1>2. CASE Connect
    <2>1. connection + 1 \in Nat /\ 0 \in Nat
      OBVIOUS
    <2>2. actions' \in Seq(Actions)
      BY <1>1, <1>2, <2>1 DEF Connect
    <2> QED BY <1>2, <2>1, <2>2 DEF Connect
  <1>3. CASE Disconnect
    <2>1. actions' \in Seq(Actions)
      <3>1. Append(actions, [kind |-> "lost", of |-> connection, arg |-> 0]) \in Seq(Actions)
        BY <1>1
      <3> QED BY <1>3, <3>1 DEF Disconnect
    <2> QED BY <1>3, <2>1 DEF Disconnect
  <1>4. CASE Request
    <2>1. Len(asked) + 1 \in Nat /\ Append(asked, connection) \in Seq(Nat)
      OBVIOUS
    <2>2. actions' \in Seq(Actions)
      BY <1>1, <1>4, <2>1 DEF Request
    <2> QED BY <1>4, <2>1, <2>2 DEF Request
  <1>5. ASSUME NEW m \in RiderModes, playModeFromRider(m) PROVE LinkTypeOK'
    BY <1>1, <1>5 DEF playModeFromRider, Chosen
  <1> QED BY <1>2, <1>3, <1>4, <1>5

\* So does the Scheduler's thread.
LEMMA SchedulerType ==
    ASSUME LinkTypeOK, Constructs, Scheduler
    PROVE  LinkTypeOK'
  <1> DEFINE Spots == [step : Steps, of : Nat, mode : Nat]
  <1>0. CASE Constructor
    <2>1. /\ PackToMode(settings) \in Nat /\ control \in Nat /\ 0 \in Nat
          /\ change["scheduler"].mode \in Nat /\ {"read", "stored"} \subseteq Steps
      BY PackIsNat, PlacesThereAre DEF LinkTypeOK, Steps
    <2>2. \E at \in Spots : NowAt("scheduler", at)
      BY <1>0, <2>1, PlacesThereAre DEF Constructor, InitialRead, InitialStore, InitialTell
    <2>3. change' \in [Threads -> Spots]
      BY <2>2, Places, PlacesThereAre
    <2>4. playMode' \in Nat \cup {Unwritten} /\ told' \in Nat
      BY <1>0, <2>1
         DEF Constructor, InitialRead, InitialStore, InitialTell, Tell, LinkTypeOK, Constructs
    <2>5. UNCHANGED <<link, actions, requested, settings, changes, crossed, freed>>
      BY <1>0 DEF Constructor, InitialRead, InitialStore, InitialTell
    <2> QED BY <2>3, <2>4, <2>5 DEF LinkTypeOK, link, requested
  <1> SUFFICES ASSUME ~Constructor PROVE LinkTypeOK'
    BY <1>0
  <1>1. actions # << >>
    BY DEF Scheduler, OnConnected, OnLost, OnRequest, OnReply, OnTell, OnMode, Runs
  <1>2. /\ Action \in Actions /\ Tail(actions) \in Seq(Actions)
        /\ Action.of \in Nat /\ Action.arg \in Nat
    BY <1>1, HeadAndTail
  <1>3. PackToMode(settings) \in Nat /\ UnpackFromMode(Action.arg) \in Settings
    BY <1>2, PackIsNat, UnpackIsSettings DEF LinkTypeOK
  <1> USE DEF LinkTypeOK, link, requested, mode, Dequeued
  <1>4. CASE OnConnected
    <2>1. In("added", Action.of, 0) \in Spots
      BY <1>2, PlacesThereAre DEF Steps
    <2>2. change' = change \/ NowAt("scheduler", In("added", Action.of, 0))
      BY <1>4 DEF OnConnected
    <2>3. change' \in [Threads -> Spots]
      BY <2>1, <2>2, Places, PlacesThereAre
    <2> QED BY <1>2, <1>4, <2>3 DEF OnConnected, BecomesAlive
  <1>5. CASE OnLost
    BY <1>2, <1>5 DEF OnLost
  <1>6. CASE OnRequest
    <2>1. \/ replies' = replies
          \/ replies' = [replies EXCEPT ![Action.arg] = @ + 1]
      BY <1>6 DEF OnRequest, Reply
    <2>2. replies' \in [Requests -> Nat]
      <3>1. replies \in [Requests -> Nat]
        OBVIOUS
      <3>2. [replies EXCEPT ![Action.arg] = @ + 1] \in [Requests -> Nat]
        BY <3>1, Counting
      <3> QED BY <2>1, <3>1, <3>2
    <2>3. [of |-> control, id |-> Action.arg] \in [of : Nat, id : Nat]
      BY <1>2
    <2> DEFINE job == [of |-> control, id |-> Action.arg]
    <2>4. game_tasks' \in Seq([of : Nat, id : Nat])
      <3>1. game_tasks' = game_tasks \/ game_tasks' = Append(game_tasks, job)
        BY <1>6 DEF OnRequest
      <3> HIDE DEF job
      <3>2. \A T : job \in T /\ game_tasks \in Seq(T) => Append(game_tasks, job) \in Seq(T)
        OBVIOUS
      <3> QED BY <2>3, <3>1, <3>2 DEF job
    <2> QED BY <1>2, <1>6, <2>2, <2>4 DEF OnRequest
  <1>7. CASE OnReply
    <2>1. \/ replies' = replies
          \/ replies' = [replies EXCEPT ![Action.arg] = @ + 1]
      BY <1>7 DEF OnReply, Reply
    <2>2. replies' \in [Requests -> Nat]
      <3>1. replies \in [Requests -> Nat]
        OBVIOUS
      <3>2. [replies EXCEPT ![Action.arg] = @ + 1] \in [Requests -> Nat]
        BY <3>1, Counting
      <3> QED BY <2>1, <3>1, <3>2
    <2> QED BY <1>2, <1>7, <2>2 DEF OnReply
  <1>8. CASE OnTell
    BY <1>2, <1>8 DEF OnTell, Tell
  <1>9. CASE OnMode
    <2>1. change' = change \/ NowAt("scheduler", In("changed", 0, 0))
      BY <1>9 DEF OnMode
    <2>2. In("changed", 0, 0) \in Spots
      BY PlacesThereAre DEF Steps
    <2>3. change' \in [Threads -> Spots]
      BY <2>1, <2>2, Places, PlacesThereAre
    <2> QED BY <1>2, <1>3, <1>9, <2>3 DEF OnMode
  <1> QED BY <1>4, <1>5, <1>6, <1>7, <1>8, <1>9 DEF Scheduler

\* And the game thread, and what either does when the settings have changed.
LEMMA GameType ==
    ASSUME Chosen, LinkTypeOK, Changing \/ RunTask \/ \E new \in UserSettings : Edit(new)
    PROVE  LinkTypeOK'
  <1> USE DEF LinkTypeOK, link, requested, mode, Queue
  <1>1. ASSUME NEW kind \in {"reply", "tell"}, NEW of \in Nat, NEW arg \in Nat
        PROVE  Append(actions, [kind |-> kind, of |-> of, arg |-> arg]) \in Seq(Actions)
    BY DEF Actions
  <1> DEFINE Spots == [step : Steps, of : Nat, mode : Nat]
  <1>2. ASSUME NEW thread \in Threads, RetrieveSettings(thread) PROVE LinkTypeOK'
    <2>1. PackToMode(settings) \in Nat
      BY PackIsNat
    <2>2. In("retrieved", control, PackToMode(settings)) \in Spots
      BY <2>1, PlacesThereAre DEF Steps
    <2>3. change' \in [Threads -> Spots]
      BY <1>2, <2>2, Places, PlacesThereAre DEF RetrieveSettings
    <2> QED BY <1>2, <2>3 DEF RetrieveSettings
  <1>3. ASSUME NEW thread \in Threads, Report(thread) PROVE LinkTypeOK'
    <2>1. change[thread].mode \in Nat
      OBVIOUS
    <2>2. change' \in [Threads -> Spots]
      BY <1>3, Places, PlacesThereAre DEF Report
    <2>3. actions' \in Seq(Actions)
      <3>1. Append(actions, [kind |-> "tell", of |-> control, arg |-> change[thread].mode]) \in Seq(Actions)
        BY <1>1, <2>1
      <3> QED BY <1>3, <3>1 DEF Report
    <2>4. playMode' \in Nat \cup {Unwritten} /\ told' \in Nat /\ freed' \in BOOLEAN
      BY <1>3, <2>1 DEF Report, Remembers, Tell
    <2> QED BY <1>3, <2>2, <2>3, <2>4 DEF Report
  <1>4. CASE RunTask
    <2> DEFINE Tasks == [of : Nat, id : Nat]
    <2>1. /\ Head(game_tasks) \in Tasks /\ Tail(game_tasks) \in Seq(Tasks)
          /\ Head(game_tasks).id \in Nat
      <3>1. game_tasks \in Seq(Tasks) /\ game_tasks # << >>
        BY <1>4 DEF RunTask
      <3> HIDE DEF Tasks
      <3>2. Head(game_tasks) \in Tasks /\ Tail(game_tasks) \in Seq(Tasks)
        BY <3>1
      <3> QED BY <3>2 DEF Tasks
    <2>2. actions' \in Seq(Actions) /\ freed' \in BOOLEAN
      <3>1. Append(actions, [kind |-> "reply", of |-> control, arg |-> Head(game_tasks).id]) \in Seq(Actions)
        BY <1>1, <2>1
      <3> QED BY <1>4, <3>1 DEF RunTask
    <2>3. game_tasks' \in Seq(Tasks)
      <3>1. game_tasks' = Tail(game_tasks)
        BY <1>4 DEF RunTask
      <3> QED BY <2>1, <3>1
    <2>4. UNCHANGED <<connection, ended, notified, alive, model, control, asked, replies>>
      BY <1>4 DEF RunTask
    <2>5. UNCHANGED <<settings, playMode, told, change, changes, crossed>>
      BY <1>4 DEF RunTask
    <2>6. /\ connection' \in Nat /\ ended' \subseteq Nat /\ notified' \subseteq Nat
          /\ alive' \in BOOLEAN /\ model' \in Nat /\ control' \in Nat
          /\ asked' \in Seq(Nat) /\ replies' \in [Requests -> Nat]
      BY <2>4
    <2>7. /\ settings' \in Settings /\ playMode' \in Nat \cup {Unwritten} /\ told' \in Nat
          /\ change' \in [Threads -> Spots] /\ changes' \in Nat /\ crossed' \in BOOLEAN
      BY <2>5
    <2> HIDE DEF link, requested, mode
    <2> QED BY ONLY <2>2, <2>3, <2>6, <2>7, ZenonT(40) DEF LinkTypeOK
  <1>5. ASSUME NEW new \in UserSettings, Edit(new) PROVE LinkTypeOK'
    <2>1. In("changed", 0, 0) \in Spots
      BY PlacesThereAre DEF Steps
    <2>2. change' \in [Threads -> Spots]
      BY <1>5, <2>1, Places, PlacesThereAre DEF Edit
    <2> QED BY <1>5, <2>2 DEF Edit, Chosen
  <1> QED BY <1>2, <1>3, <1>4, <1>5 DEF Changing

-----------------------------------------------------------------------------
(* The order of the queue *)

\* An action that is not about a connection is added.
LEMMA AnyQueued ==
    ASSUME Inv, NEW a \in Actions, a.kind \notin {"connected", "lost"},
           actions' = Append(actions, a),
           UNCHANGED <<connection, ended, notified, alive, model, control>>
    PROVE  LinkInv'
  <1>1. /\ Len(actions') = Len(actions) + 1 /\ Len(actions) \in Nat
        /\ \A i \in 1 .. Len(actions) : actions'[i] = actions[i]
        /\ actions'[Len(actions) + 1] = a
    BY DEF Inv, LinkTypeOK
  <1>2. Numbered'
    BY <1>1 DEF Inv, Numbered
  <1>3. LostFirst'
    BY <1>1 DEF Inv, LostFirst
  <1>4. AliveIsNotified'
    BY <1>1 DEF Inv, AliveIsNotified
  <1> QED BY <1>2, <1>3, <1>4 DEF LinkInv

\* One that is not about a connection has run.
LEMMA AnyRun ==
    ASSUME Inv, actions # << >>, Action.kind \notin {"connected", "lost"},
           actions' = Tail(actions),
           UNCHANGED <<connection, ended, notified, alive, model, control>>
    PROVE  LinkInv'
  <1>1. /\ Len(actions) \in Nat \ {0} /\ Len(actions') = Len(actions) - 1
        /\ \A i \in 1 .. Len(actions') : actions'[i] = actions[i + 1]
        /\ Action = actions[1]
    BY DEF Inv, LinkTypeOK, Action
  <1>2. \A i \in 1 .. Len(actions') : i + 1 \in 1 .. Len(actions)
    BY <1>1
  <1>3. \A i \in 1 .. Len(actions) :
            actions[i].kind = "lost" => i - 1 \in 1 .. Len(actions') /\ actions'[i - 1] = actions[i]
    BY <1>1
  <1>4. Numbered'
    BY <1>1, <1>2 DEF Inv, Numbered
  <1>5. LostFirst'
    <2> SUFFICES ASSUME alive, NEW j \in 1 .. Len(actions'), actions'[j].kind = "connected"
                 PROVE  \E i \in 1 .. Len(actions') : i < j /\ actions'[i].kind = "lost"
      BY DEF LostFirst
    <2>1. PICK i \in 1 .. Len(actions) : i < j + 1 /\ actions[i].kind = "lost"
      BY <1>1, <1>2 DEF Inv, LostFirst
    <2> QED BY <1>1, <1>3, <2>1
  <1>6. AliveIsNotified'
    BY <1>3 DEF Inv, AliveIsNotified
  <1> QED BY <1>4, <1>5, <1>6 DEF LinkInv

\* A new connection is announced behind the loss of the one before.
LEMMA ConnectStep == ASSUME Inv, Connect PROVE LinkInv'
  <1> DEFINE a == [kind |-> "connected", of |-> connection + 1, arg |-> 0]
  <1>1. /\ connection' = connection + 1 /\ actions' = Append(actions, a)
        /\ UNCHANGED <<ended, notified, alive, model, control>>
        /\ connection \in Nat /\ model \in Nat /\ actions \in Seq(Actions)
        /\ connection = 0 \/ connection \in ended
    BY DEF Connect, Connected, Queue, Inv, LinkTypeOK
  <1>2. /\ Len(actions') = Len(actions) + 1 /\ Len(actions) \in Nat
        /\ \A i \in 1 .. Len(actions) : actions'[i] = actions[i]
        /\ actions'[Len(actions) + 1] = a
    BY <1>1
  <1>3. Numbered'
    <2>1. 1 .. connection' - 1 \subseteq ended'
      BY <1>1 DEF Inv, Numbered
    <2>2. model' <= connection'
      BY <1>1 DEF Inv, Numbered
    <2>3. \A j \in 1 .. Len(actions) : actions[j].kind = "connected" =>
              /\ actions[j].of \in 1 .. connection
              /\ \A k \in 1 .. Len(actions) :
                     j < k /\ actions[k].kind = "connected" => actions[j].of < actions[k].of
      BY DEF Inv, Numbered
    <2> QED BY <1>1, <1>2, <2>1, <2>2, <2>3 DEF Numbered
  <1>4. alive => \E i \in 1 .. Len(actions) : actions[i].kind = "lost"
    <2> SUFFICES ASSUME alive PROVE model \in ended
      BY DEF Inv, AliveIsNotified
    <2> QED BY <1>1 DEF Inv, Numbered, AliveIsNotified
  <1>5. LostFirst'
    BY <1>1, <1>2, <1>4 DEF Inv, LostFirst
  <1>6. AliveIsNotified'
    BY <1>1, <1>2, <1>4 DEF Inv, AliveIsNotified
  <1> QED BY <1>3, <1>5, <1>6 DEF LinkInv

\* The end of a connection that was made known is announced.
LEMMA DisconnectStep == ASSUME Inv, Disconnect PROVE LinkInv'
  <1> DEFINE a == [kind |-> "lost", of |-> connection, arg |-> 0]
  <1>1. /\ ended' = ended \cup {connection} /\ connection # 0
        /\ UNCHANGED <<connection, notified, alive, model, control>>
        /\ connection \in Nat /\ model \in Nat /\ actions \in Seq(Actions)
        /\ actions' = IF connection \in notified THEN Append(actions, a) ELSE actions
    BY DEF Disconnect, Connected, Queue, link, Inv, LinkTypeOK
  <1>2. /\ Len(actions) \in Nat /\ Len(actions') >= Len(actions) /\ Len(actions') \in Nat
        /\ \A i \in 1 .. Len(actions) : i \in 1 .. Len(actions') /\ actions'[i] = actions[i]
        /\ \A i \in 1 .. Len(actions') : i \notin 1 .. Len(actions) => actions'[i] = a
        /\ connection \in notified => \E i \in 1 .. Len(actions') : actions'[i].kind = "lost"
    <2>1. CASE connection \in notified
      <3>1. /\ Len(actions') = Len(actions) + 1 /\ Len(actions) \in Nat
            /\ \A i \in 1 .. Len(actions) : actions'[i] = actions[i]
            /\ actions'[Len(actions) + 1] = a /\ a.kind = "lost"
        BY <1>1, <2>1
      <3> HIDE DEF a
      <3> QED BY <3>1
    <2>2. CASE connection \notin notified
      BY <1>1, <2>2
    <2> QED BY <2>1, <2>2
  <1>3. Numbered'
    BY <1>1, <1>2 DEF Inv, Numbered
  <1>4. LostFirst'
    BY <1>1, <1>2 DEF Inv, LostFirst
  <1>5. AliveIsNotified'
    BY <1>1, <1>2 DEF Inv, AliveIsNotified
  <1> QED BY <1>3, <1>4, <1>5 DEF LinkInv

\* When a connection is made known no model is alive; if it is still up, it is the last.
LEMMA OnConnectedStep == ASSUME Inv, OnConnected PROVE LinkInv'
  <1> DEFINE c == Action.of
  <1>1. /\ actions # << >> /\ actions' = Tail(actions) /\ Action.kind = "connected"
        /\ model' = c /\ connection' = connection /\ ended' = ended
        /\ notified' = IF c \in ended THEN notified ELSE notified \cup {c}
        /\ c \notin ended => control' = c
        /\ c \in ended => alive' = alive
        /\ connection \in Nat /\ actions \in Seq(Actions)
    BY DEF OnConnected, BecomesAlive, Runs, Dequeued, Action, Inv, LinkTypeOK
  <1>2. /\ Len(actions) \in Nat \ {0} /\ Len(actions') = Len(actions) - 1
        /\ \A i \in 1 .. Len(actions') : actions'[i] = actions[i + 1] /\ i + 1 \in 1 .. Len(actions)
        /\ Action = actions[1]
    BY <1>1 DEF Action
  <1>3. /\ c \in 1 .. connection
        /\ \A k \in 1 .. Len(actions) : 1 < k /\ actions[k].kind = "connected" =>
               c < actions[k].of /\ actions[k].of \in 1 .. connection
    BY <1>1, <1>2 DEF Inv, Numbered
  <1>4. ~alive
    <2>1. \A i \in 1 .. Len(actions) : ~(i < 1)
      BY <1>2
    <2> QED BY <1>1, <1>2, <2>1 DEF Inv, LostFirst
  <1>5. alive' => /\ c \notin ended /\ c = connection
    <2>1. \A n \in 1 .. connection : n \notin 1 .. connection - 1 => n = connection
      BY <1>1
    <2>2. c \notin ended => c = connection
      BY <1>3, <2>1 DEF Inv, Numbered
    <2> QED BY <1>1, <1>4, <2>2
  <1>6. Numbered'
    BY <1>1, <1>2, <1>3 DEF Inv, Numbered
  <1>7. LostFirst'
    <2>1. \A j \in 1 .. Len(actions') : j \in Nat /\ 1 < j + 1
      BY <1>2
    <2>2. ASSUME alive', NEW j \in 1 .. Len(actions'), actions'[j].kind = "connected" PROVE FALSE
      <3>1. j + 1 \in 1 .. Len(actions) /\ 1 < j + 1 /\ actions[j + 1].kind = "connected"
        BY <1>2, <2>1, <2>2
      <3>2. c < actions[j + 1].of /\ actions[j + 1].of \in 1 .. connection /\ c = connection
        BY <1>3, <1>5, <2>2, <3>1
      <3> HIDE DEF c
      <3> QED BY <1>1, <3>2
    <2> QED BY <2>2 DEF LostFirst
  <1>8. AliveIsNotified'
    BY <1>1, <1>3, <1>5 DEF AliveIsNotified
  <1> QED BY <1>6, <1>7, <1>8 DEF LinkInv

\* After a loss no model is alive.
LEMMA OnLostStep == ASSUME Inv, OnLost PROVE LinkInv'
  <1>1. /\ actions # << >> /\ actions' = Tail(actions)
        /\ ~alive' /\ UNCHANGED <<connection, ended, model>>
        /\ actions \in Seq(Actions)
    BY DEF OnLost, Runs, Dequeued, Inv, LinkTypeOK
  <1>2. /\ Len(actions) \in Nat \ {0} /\ Len(actions') = Len(actions) - 1
        /\ \A i \in 1 .. Len(actions') : actions'[i] = actions[i + 1] /\ i + 1 \in 1 .. Len(actions)
    BY <1>1
  <1>3. Numbered'
    BY <1>1, <1>2 DEF Inv, Numbered
  <1> QED BY <1>1, <1>3 DEF LinkInv, LostFirst, AliveIsNotified

-----------------------------------------------------------------------------

\* Everything else leaves the connections alone and adds or takes one action at most.
LEMMA OtherSteps ==
    ASSUME Chosen, Inv,
           \/ Request \/ \E m \in RiderModes : playModeFromRider(m)
           \/ Constructor \/ OnRequest \/ OnReply \/ OnTell \/ OnMode
           \/ Changing \/ RunTask \/ \E new \in UserSettings : Edit(new)
    PROVE  LinkInv'
  <1> DEFINE Same == UNCHANGED <<connection, ended, notified, alive, model, control>>
             Queues(kind) == \E of, arg \in Nat :
                 actions' = Append(actions, [kind |-> kind, of |-> of, arg |-> arg])
  <1>1. ASSUME NEW kind \in {"request", "mode", "reply", "tell"}, Same, Queues(kind)
        PROVE  LinkInv'
    <2>1. PICK of \in Nat, arg \in Nat :
              actions' = Append(actions, [kind |-> kind, of |-> of, arg |-> arg])
      BY <1>1
    <2> DEFINE a == [kind |-> kind, of |-> of, arg |-> arg]
    <2>2. a \in Actions /\ a.kind \notin {"connected", "lost"}
      BY DEF Actions
    <2> HIDE DEF a
    <2> QED BY <1>1, <2>1, <2>2, AnyQueued DEF a
  <1>2. ASSUME actions # << >>, Action.kind \notin {"connected", "lost"},
               actions' = Tail(actions), Same
        PROVE  LinkInv'
    BY <1>2, AnyRun
  <1>3. ASSUME actions' = actions, Same PROVE LinkInv'
    BY <1>3 DEF Inv, LinkInv, Numbered, LostFirst, AliveIsNotified
  <1>4. connection \in Nat /\ control \in Nat /\ Len(asked) + 1 \in Nat
    BY DEF Inv, LinkTypeOK
  <1>5. CASE Request
    <2>1. Same /\ Queues("request")
      BY <1>4, <1>5 DEF Request, Queue, link
    <2> QED BY <1>1, <2>1
  <1>6. ASSUME NEW m \in RiderModes, playModeFromRider(m) PROVE LinkInv'
    <2>1. Same /\ Queues("mode")
      BY <1>4, <1>6 DEF playModeFromRider, Queue, link, Chosen
    <2> QED BY <1>1, <2>1
  <1>7. CASE OnRequest \/ OnReply \/ OnTell \/ OnMode
    BY <1>2, <1>7 DEF OnRequest, OnReply, OnTell, OnMode, Runs, Dequeued, Action, link
  <1>8. ASSUME NEW thread \in Threads, RetrieveSettings(thread) PROVE LinkInv'
    BY <1>3, <1>8 DEF RetrieveSettings, link
  <1>9. ASSUME NEW thread \in Threads, Report(thread) PROVE LinkInv'
    <2>1. change[thread].mode \in Nat
      BY DEF Inv, LinkTypeOK
    <2>2. Same /\ (Queues("tell") \/ actions' = actions)
      BY <1>4, <1>9, <2>1 DEF Report, Queue, link
    <2> QED BY <1>1, <1>3, <2>2
  <1>10. CASE RunTask
    <2>1. Head(game_tasks).id \in Nat
      BY <1>10, TaskId DEF RunTask, Inv
    <2>2. Same /\ (Queues("reply") \/ actions' = actions)
      BY <1>4, <1>10, <2>1 DEF RunTask, Queue, link
    <2> QED BY <1>1, <1>3, <2>2
  <1>11. ASSUME NEW new \in UserSettings, Edit(new) PROVE LinkInv'
    BY <1>3, <1>11 DEF Edit, link
  <1>12. CASE Constructor
    BY <1>3, <1>12 DEF Constructor, InitialRead, InitialStore, InitialTell, link
  <1> QED BY <1>5, <1>6, <1>7, <1>8, <1>9, <1>10, <1>11, <1>12 DEF Changing

\* A FRiderGameControl is made step by step, and stays until it is.
LEMMA ConstructsStep == ASSUME Chosen, Inv, LinkNext PROVE Constructs'
  <1>1. /\ LinkTypeOK /\ Constructs /\ PackToMode(settings) \in Nat /\ control \in Nat /\ 0 \in Nat
        /\ change["scheduler"].mode \in Nat
        /\ {"still", "changed", "retrieved", "added", "read", "stored"} \subseteq Steps
    BY PackIsNat, PlacesThereAre DEF Inv, LinkTypeOK, Steps
  <1>2. CASE Connect \/ Disconnect \/ Request \/ (\E m \in RiderModes : playModeFromRider(m))
             \/ OnRequest \/ OnReply \/ OnTell \/ RunTask
    <2>1. UNCHANGED <<change, control, playMode>>
      BY <1>2 DEF Connect, Disconnect, Request, playModeFromRider, OnRequest, OnReply, OnTell,
                  RunTask, link, mode
    <2> QED BY <1>1, <2>1 DEF Constructs, Making
  <1>3. CASE OnConnected
    <2>1. \/ Action.of \in ended /\ UNCHANGED <<change, control, playMode>>
          \/ control' = Action.of /\ NowAt("scheduler", In("added", Action.of, 0))
      BY <1>3 DEF OnConnected, BecomesAlive
    <2>2. CASE UNCHANGED <<change, control, playMode>>
      BY <1>1, <2>2 DEF Constructs, Making
    <2>3. CASE control' = Action.of /\ NowAt("scheduler", In("added", Action.of, 0))
      <3>1. Action.of \in Nat
        BY <1>3, <1>1, HeadAndTail DEF OnConnected, Runs
      <3>2. Action.of # 0
        <4>1. actions # << >> /\ Action.kind = "connected" /\ actions \in Seq(Actions)
          BY <1>1, <1>3 DEF OnConnected, Runs, Action, LinkTypeOK
        <4>2. 1 \in 1 .. Len(actions) /\ actions[1] = Action
          BY <4>1 DEF Action
        <4>3. Action.of \in 1 .. connection
          BY <4>1, <4>2 DEF Inv, Numbered
        <4> QED BY <4>3
      <3>3. In("added", Action.of, 0) \in [step : Steps, of : Nat, mode : Nat]
        BY <1>1, <3>1, PlacesThereAre
      <3>4. change'["scheduler"].step = "added" /\ change'["game"] = change["game"]
        BY <1>1, <2>3, <3>3, Places, PlacesThereAre
      <3> QED BY <1>1, <2>3, <3>2, <3>4 DEF Constructs, Making
    <2> QED BY <2>1, <2>2, <2>3
  <1>4. CASE OnLost
    <2>1. change["scheduler"].step = "still" /\ UNCHANGED <<change, playMode>>
      BY <1>4, PlacesThereAre DEF OnLost, Runs, mode
    <2> QED BY <1>1, <2>1 DEF Constructs, Making
  <1>5. CASE OnMode
    <2>1. change["scheduler"].step = "still" /\ UNCHANGED <<control, playMode>>
      BY <1>5, PlacesThereAre DEF OnMode, Runs, link
    <2>2. change' = change \/ NowAt("scheduler", In("changed", 0, 0))
      BY <1>5 DEF OnMode
    <2>3. /\ change'["scheduler"].step \in {"still", "changed"}
          /\ change'["game"] = change["game"]
      <3>1. "changed" \in Steps /\ 0 \in Nat /\ "scheduler" \in Threads /\ "game" \in Threads
        BY PlacesThereAre DEF Steps
      <3>2. CASE NowAt("scheduler", In("changed", 0, 0))
        BY <1>1, <3>1, <3>2, GoesTo
      <3> QED BY <2>1, <2>2, <3>2
    <2> QED BY <1>1, <2>1, <2>3 DEF Constructs, Making
  <1>6. CASE Constructor
    <2>1. /\ change["scheduler"].step \in {"added", "read", "stored"} /\ control' = control
          /\ \/ playMode' = playMode /\ change["scheduler"].step = "added"
                /\ NowAt("scheduler", In("read", control, PackToMode(settings)))
             \/ playMode' = change["scheduler"].mode
                /\ NowAt("scheduler", In("stored", control, 0))
             \/ playMode' = playMode /\ change["scheduler"].step = "stored"
                /\ NowAt("scheduler", Still)
      BY <1>6 DEF Constructor, InitialRead, InitialStore, InitialTell, link
    <2>2. Unwritten \notin Nat
      BY DEF Unwritten
    <2>3. /\ \/ playMode' = playMode /\ change'["scheduler"].step = "read"
             \/ playMode' # Unwritten
          /\ change'["game"] = change["game"]
      <3>1. /\ "read" \in Steps /\ "stored" \in Steps /\ 0 \in Nat
            /\ "scheduler" \in Threads /\ "game" \in Threads
        BY PlacesThereAre DEF Steps
      <3>2. CASE /\ playMode' = playMode
                 /\ NowAt("scheduler", In("read", control, PackToMode(settings)))
        <4>1. change'["scheduler"].step = "read" /\ change'["game"] = change["game"]
          BY <1>1, <3>1, <3>2, GoesTo
        <4> QED BY <3>2, <4>1
      <3>3. CASE playMode' = change["scheduler"].mode /\ NowAt("scheduler", In("stored", control, 0))
        <4>1. change'["game"] = change["game"]
          BY <1>1, <3>1, <3>3, GoesTo
        <4> QED BY <1>1, <2>2, <3>3, <4>1
      <3>4. CASE /\ playMode' = playMode /\ change["scheduler"].step = "stored"
                 /\ NowAt("scheduler", Still)
        <4>1. change'["game"] = change["game"]
          BY <1>1, <3>1, <3>4, Places, PlacesThereAre
        <4>2. playMode # Unwritten
          BY <1>1, <3>4 DEF Constructs
        <4> QED BY <3>4, <4>1, <4>2
      <3> QED BY <2>1, <3>2, <3>3, <3>4
    <2> QED BY <1>1, <2>1, <2>3 DEF Constructs, Making
  <1>7. ASSUME NEW thread \in Threads, RetrieveSettings(thread) \/ Report(thread)
        PROVE  Constructs'
    <2>1. /\ control' = control /\ change[thread].step \in {"changed", "retrieved"}
          /\ \E at \in [step : Steps, of : Nat, mode : Nat] :
                 NowAt(thread, at) /\ at.step \in {"still", "retrieved"}
      BY <1>1, <1>7, PlacesThereAre DEF RetrieveSettings, Report, link
    <2>2. /\ change'[thread].step \in {"still", "retrieved"}
          /\ \A other \in Threads : other # thread => change'[other] = change[other]
      BY <1>1, <2>1, Places
    <2>3. playMode' = playMode \/ playMode' \in Nat
      BY <1>1, <1>7 DEF RetrieveSettings, Report, Remembers, LinkTypeOK
    <2>4. playMode' = Unwritten => playMode = Unwritten
      BY <2>3 DEF Unwritten
    <2>5. thread = "scheduler" \/ thread = "game"
      BY DEF Threads
    <2> QED BY <1>1, <2>1, <2>2, <2>4, <2>5, PlacesThereAre DEF Constructs, Making
  <1>8. ASSUME NEW new \in UserSettings, Edit(new) PROVE Constructs'
    <2>1. UNCHANGED <<control, playMode>> /\ NowAt("game", In("changed", 0, 0))
      BY <1>8 DEF Edit, link
    <2>2. change'["game"].step = "changed" /\ change'["scheduler"] = change["scheduler"]
      <3>1. "changed" \in Steps /\ "scheduler" # "game"
        BY DEF Steps
      <3>2. In("changed", 0, 0) \in [step : Steps, of : Nat, mode : Nat]
        BY <3>1, PlacesThereAre
      <3>3. /\ change'["game"] = In("changed", 0, 0)
            /\ \A other \in Threads : other # "game" => change'[other] = change[other]
        BY <1>1, <2>1, <3>2, Places, PlacesThereAre
      <3> QED BY <3>1, <3>3, PlacesThereAre
    <2> QED BY <1>1, <2>1, <2>2 DEF Constructs, Making
  <1> QED BY <1>2, <1>3, <1>4, <1>5, <1>6, <1>7, <1>8 DEF LinkNext, Scheduler, Changing

\* The invariant holds when the editor has started.
LEMMA InvInit == ASSUME Chosen PROVE LinkInit => Inv
  <1> SUFFICES ASSUME LinkInit PROVE Inv
    OBVIOUS
  <1>1. LinkTypeOK
    <2>1. change \in [Threads -> [step : Steps, of : Nat, mode : Nat]]
      BY PlacesThereAre DEF LinkInit
    <2>2. replies \in [Requests -> Nat] /\ settings \in Settings
      BY DEF LinkInit, Chosen
    <2>3. actions \in Seq(Actions) /\ asked \in Seq(Nat) /\ game_tasks \in Seq([of : Nat, id : Nat])
      <3>1. \A T : << >> \in Seq(T)
        OBVIOUS
      <3> QED BY <3>1 DEF LinkInit
    <2>4. /\ connection \in Nat /\ ended \subseteq Nat /\ notified \subseteq Nat
          /\ alive \in BOOLEAN /\ model \in Nat /\ control \in Nat
          /\ playMode \in Nat /\ told \in Nat
          /\ changes \in Nat /\ crossed \in BOOLEAN /\ freed \in BOOLEAN
      BY DEF LinkInit
    <2> QED BY <2>1, <2>2, <2>3, <2>4 DEF LinkTypeOK
  <1>2. Numbered /\ LostFirst /\ AliveIsNotified
    BY DEF LinkInit, Numbered, LostFirst, AliveIsNotified
  <1>3. Constructs
    <2>1. change["scheduler"] = Still /\ change["game"] = Still
      BY PlacesThereAre DEF LinkInit
    <2>2. change["scheduler"].step = "still" /\ change["game"].step = "still" /\ playMode = 0
      BY <2>1, PlacesThereAre DEF LinkInit
    <2> QED BY <2>2 DEF Constructs, Making, Unwritten
  <1> QED BY <1>1, <1>2, <1>3 DEF Inv

\* Every step keeps it.
LEMMA InvStep == ASSUME Chosen PROVE Inv /\ [LinkNext]_linkVars => Inv'
  <1> SUFFICES ASSUME Inv, [LinkNext]_linkVars PROVE Inv'
    OBVIOUS
  <1>1. CASE UNCHANGED linkVars
    BY <1>1 DEF linkVars, link, requested, mode, Inv, LinkTypeOK, Numbered, LostFirst, AliveIsNotified,
                Constructs, Making
  <1>2. CASE LinkNext
    <2>1. LinkTypeOK'
      BY <1>2, WireType, SchedulerType, GameType DEF LinkNext, Inv
    <2>2. LinkInv'
      BY <1>2, ConnectStep, DisconnectStep, OnConnectedStep, OnLostStep, OtherSteps
         DEF LinkNext, Scheduler
    <2>3. Constructs'
      BY <1>2, ConstructsStep
    <2> QED BY <2>1, <2>2, <2>3 DEF Inv, LinkInv
  <1> QED BY <1>1, <1>2

LEMMA Invariant == ASSUME Chosen PROVE LinkSpec => []Inv
  BY InvInit, InvStep, PTL DEF LinkSpec

\* RiderLink.cpp, RiderGameControl.cpp.  The variables keep their types; with settings that
\* the editor admits every mode Rider is told is a number that stands for settings.
THEOREM LinkTypeCorrect == ASSUME Chosen PROVE LinkSpec => []LinkTypeOK
  <1>1. Inv => LinkTypeOK
    BY DEF Inv
  <1> QED BY <1>1, Invariant, PTL

\* What the invariant says of a model that is alive.
LEMMA AliveByInvariant == Inv => AliveModelIsCurrent
  <1>1. LinkTypeOK => DOMAIN actions = 1 .. Len(actions)
    BY DEF LinkTypeOK
  <1> QED BY <1>1 DEF Inv, AliveIsNotified, AliveModelIsCurrent, Queued

\* RiderLink.cpp:53-72, 101-111.  A model that is shown as alive is the current one,
\* and if it is gone the views are about to be told.
THEOREM AliveIsCurrent == ASSUME Chosen PROVE LinkSpec => []AliveModelIsCurrent
  BY AliveByInvariant, Invariant, PTL

-----------------------------------------------------------------------------
(* Rider ends up with the mode of the settings.  As long as no changes      *)
(* cross, one thread at a time changes them, and what is told last is what  *)
(* the FRiderGameControl remembers.                                         *)

IsTell(action, c) == action.kind = "tell" /\ action.of = c

\* Of what c has queued, or has told already, the last is the mode known.
TellsAtLast(line, c, known, last) ==
    /\ last # known => \E i \in 1 .. Len(line) : IsTell(line[i], c)
    /\ \A i \in 1 .. Len(line) : IsTell(line[i], c) /\ line[i].arg # known =>
           \E k \in 1 .. Len(line) : i < k /\ IsTell(line[k], c)

\* The models that are still to come have told nothing.
Succession(line, m) ==
    \A j \in 1 .. Len(line) : /\ line[j].kind = "tell" => line[j].of <= m
                              /\ line[j].kind = "connected" => m < line[j].of

NoneTells(line, c) == \A i \in 1 .. Len(line) : ~IsTell(line[i], c)
NoneChanges == \A t \in Threads : change[t].step = "still"

\* A thread is in OnObjectPropertyChanged.
Handles(t) == change[t].step \in {"changed", "retrieved"}

\* What is stored while a FRiderGameControl is made, and what OnObjectPropertyChanged
\* has queued, is the mode of the settings: it is told then, or afterwards.
MakesRight(step) ==
    /\ TellsAtLast(actions, control, playMode, playMode)
    /\ step \in {"added", "read"} =>
           \/ playMode = Unwritten /\ NoneTells(actions, control)
           \/ /\ playMode = PackToMode(settings) /\ change["game"].step = "still"
              /\ ~NoneTells(actions, control)
    /\ step = "read" => change["scheduler"].mode = PackToMode(settings)
    /\ step = "stored" /\ change["game"].step = "still" => playMode = PackToMode(settings)

\* When no changes have crossed.
ModeRight ==
    /\ \A t \in Threads : change[t].step = "retrieved" /\ change[t].of = control
                             => change[t].mode = PackToMode(settings)
    /\ Handles("scheduler") => NoneTells(actions, control)
    /\ control # 0 /\ NoneChanges => playMode = PackToMode(settings)
    /\ control # 0 /\ control \notin ended /\ ~Making => TellsAtLast(actions, control, playMode, told)
    /\ Making => MakesRight(change["scheduler"].step)

\* The handler belongs to a FRiderGameControl that there is, or was.
OfThose == \A t \in Threads : change[t].step = "retrieved" => change[t].of \in 1 .. model

ModeInv ==
    /\ alive <=> control # 0
    /\ Succession(actions, model)
    /\ OfThose
    /\ ~crossed => \A t, u \in Threads : Handles(t) /\ Handles(u) => t = u
    /\ ~crossed /\ ~freed => ModeRight

-----------------------------------------------------------------------------

\* Settings a mode can express are what it stands for.
LEMMA PackIsUndone ==
    ASSUME NEW s \in Settings, s.NumberOfClients <= 4, s.PlayMode # "InTargetedMobilePreview"
    PROVE  UnpackFromMode(PackToMode(s)) = s
  <1> DEFINE n == PlayModeToInt(s.PlayMode)
             c == s.NumberOfClients - 1
             a == IF s.bSpawnAtPlayerStart THEN 4 ELSE 0
             b == IF s.bNetDedicated THEN 8 ELSE 0
  <1>1. /\ s.PlayMode \in PlayModes /\ s.NumberOfClients \in Nat \ {0}
        /\ s.bNetDedicated \in BOOLEAN /\ s.bSpawnAtPlayerStart \in BOOLEAN
        /\ s = [PlayMode |-> s.PlayMode, NumberOfClients |-> s.NumberOfClients,
                bNetDedicated |-> s.bNetDedicated, bSpawnAtPlayerStart |-> s.bSpawnAtPlayerStart]
    BY DEF Settings
  <1>2. n \in 0 .. 6 /\ PlayModeFromInt(n) = s.PlayMode
    <2>1. \E k \in 0 .. 6 : PlayModeFromInt(k) = s.PlayMode
      <3>1. /\ PlayModeFromInt(0) = "InViewPort" /\ PlayModeFromInt(1) = "InMobilePreview"
            /\ PlayModeFromInt(2) = "InEditorFloating" /\ PlayModeFromInt(3) = "InVR"
            /\ PlayModeFromInt(4) = "InNewProcess" /\ PlayModeFromInt(5) = "Simulate"
            /\ PlayModeFromInt(6) = "InVulkanPreview"
        BY DEF PlayModeFromInt
      <3>2. 0 \in 0 .. 6 /\ 1 \in 0 .. 6 /\ 2 \in 0 .. 6 /\ 3 \in 0 .. 6
            /\ 4 \in 0 .. 6 /\ 5 \in 0 .. 6 /\ 6 \in 0 .. 6
        OBVIOUS
      <3> QED BY <1>1, <3>1, <3>2, Zenon DEF PlayModes
    <2> QED BY <2>1 DEF PlayModeToInt
  <1>3. c \in 0 .. 3 /\ c + 1 = s.NumberOfClients /\ a \in {0, 4} /\ b \in {0, 8}
    BY <1>1
  <1>4. (a = 4 <=> s.bSpawnAtPlayerStart = TRUE) /\ (b = 8 <=> s.bNetDedicated = TRUE)
    BY <1>1
  <1>5. PackToMode(s) = c + a + b + 16 * n
    BY DEF PackToMode
  <1> HIDE DEF n, a, b, c
  <1> DEFINE m == c + a + b + 16 * n
  <1>6. (m \div 16) % 8 = n
    <2>1. m \div 16 = n
      BY <1>2, <1>3
    <2> QED BY <1>2, <2>1
  <1>7. (m % 4) + 1 = c + 1
    BY <1>2, <1>3
  <1>8. (m \div 8) % 2 = 1 <=> b = 8
    BY <1>2, <1>3
  <1>9. (m \div 4) % 2 = 1 <=> a = 4
    BY <1>2, <1>3
  <1> HIDE DEF m
  <1>10. UnpackFromMode(m) = [PlayMode |-> s.PlayMode, NumberOfClients |-> s.NumberOfClients,
                              bNetDedicated |-> s.bNetDedicated, bSpawnAtPlayerStart |-> s.bSpawnAtPlayerStart]
    <2>1. /\ ((m \div 8) % 2 = 1) = s.bNetDedicated
          /\ ((m \div 4) % 2 = 1) = s.bSpawnAtPlayerStart
      BY <1>1, <1>4, <1>8, <1>9
    <2> QED BY <1>2, <1>3, <1>6, <1>7, <2>1 DEF UnpackFromMode
  <1> QED BY <1>1, <1>5, <1>10 DEF m

\* An action is queued.
LEMMA OneMore ==
    ASSUME NEW line \in Seq(Actions), NEW a \in Actions
    PROVE  LET new == Append(line, a)
           IN  /\ \A m : /\ Succession(line, m) /\ (a.kind = "tell" => a.of <= m)
                           /\ (a.kind = "connected" => m < a.of)
                              => Succession(new, m)
               /\ \A c : NoneTells(new, c) <=> NoneTells(line, c) /\ ~IsTell(a, c)
               /\ \A c, known, last : TellsAtLast(line, c, known, last) /\ ~IsTell(a, c)
                                          => TellsAtLast(new, c, known, last)
               /\ \A c, last : IsTell(a, c) => TellsAtLast(new, c, a.arg, last)
  <1> DEFINE new == Append(line, a)
             n == Len(line)
  <1>1. /\ Len(new) = n + 1 /\ n \in Nat /\ new[n + 1] = a /\ \A i \in 1 .. n : new[i] = line[i]
    OBVIOUS
  <1> HIDE DEF new
  <1>2. /\ \A i \in 1 .. n + 1 : i \in 1 .. n \/ i = n + 1
        /\ n + 1 \in 1 .. n + 1 /\ \A i \in 1 .. n : i \in 1 .. n + 1 /\ i < n + 1
    BY <1>1
  <1> HIDE DEF n
  <1>3. ASSUME NEW c, NEW known, NEW last, TellsAtLast(line, c, known, last), ~IsTell(a, c)
        PROVE  TellsAtLast(new, c, known, last)
    BY <1>1, <1>2, <1>3 DEF TellsAtLast, n
  <1>4. ASSUME NEW c, NEW last, IsTell(a, c) PROVE TellsAtLast(new, c, a.arg, last)
    BY <1>1, <1>2, <1>4 DEF TellsAtLast
  <1>5. ASSUME NEW c PROVE NoneTells(new, c) <=> NoneTells(line, c) /\ ~IsTell(a, c)
    BY <1>1, <1>2 DEF NoneTells, n
  <1>6. ASSUME NEW m, Succession(line, m), a.kind = "tell" => a.of <= m,
               a.kind = "connected" => m < a.of
        PROVE  Succession(new, m)
    BY <1>1, <1>2, <1>6 DEF Succession, n
  <1> QED BY <1>3, <1>4, <1>5, <1>6 DEF new

\* The first one has run.
LEMMA OneLess ==
    ASSUME NEW line \in Seq(Actions), line # << >>
    PROVE  LET rest == Tail(line)
           IN  /\ \A m : Succession(line, m) => Succession(rest, m)
               /\ \A c : NoneTells(line, c) => NoneTells(rest, c)
               /\ \A c, known, last : TellsAtLast(line, c, known, last) /\ ~IsTell(Head(line), c)
                                          => TellsAtLast(rest, c, known, last)
               /\ \A c, known, last : TellsAtLast(line, c, known, last) /\ IsTell(Head(line), c)
                                          => TellsAtLast(rest, c, known, Head(line).arg)
  <1> DEFINE rest == Tail(line)
             n == Len(rest)
  <1>1. /\ Len(line) = n + 1 /\ n \in Nat /\ Head(line) = line[1]
        /\ \A i \in 1 .. n : rest[i] = line[i + 1]
    OBVIOUS
  <1> HIDE DEF rest
  <1>2. /\ 1 \in 1 .. n + 1 /\ \A i \in 1 .. n : i + 1 \in 1 .. n + 1 /\ 1 < i + 1
        /\ \A i \in 1 .. n + 1 : i = 1 \/ (i - 1 \in 1 .. n /\ (i - 1) + 1 = i)
        /\ \A i, k \in 1 .. n : i + 1 < k + 1 => i < k
        /\ \A i \in 1 .. n, k \in 1 .. n + 1 : i + 1 < k => i < k - 1 /\ k # 1
        /\ \A k \in 1 .. n + 1 : 1 < k => k # 1
    BY <1>1
  <1> HIDE DEF n
  <1>3. ASSUME NEW c, NEW known, NEW last, TellsAtLast(line, c, known, last)
        PROVE  \A i \in 1 .. n : IsTell(rest[i], c) /\ rest[i].arg # known =>
                   \E k \in 1 .. n : i < k /\ IsTell(rest[k], c)
    <2> SUFFICES ASSUME NEW i \in 1 .. n, IsTell(rest[i], c), rest[i].arg # known
                 PROVE  \E k \in 1 .. n : i < k /\ IsTell(rest[k], c)
      OBVIOUS
    <2>1. PICK k \in 1 .. n + 1 : i + 1 < k /\ IsTell(line[k], c)
      BY <1>1, <1>2, <1>3 DEF TellsAtLast
    <2>2. k - 1 \in 1 .. n /\ i < k - 1 /\ rest[k - 1] = line[k]
      BY <1>1, <1>2, <2>1
    <2> QED BY <2>1, <2>2
  <1>4. ASSUME NEW c, NEW known, NEW last, TellsAtLast(line, c, known, last), ~IsTell(Head(line), c),
               last # known
        PROVE  \E i \in 1 .. n : IsTell(rest[i], c)
    <2>1. PICK i \in 1 .. n + 1 : IsTell(line[i], c)
      BY <1>1, <1>4 DEF TellsAtLast
    <2>2. i - 1 \in 1 .. n /\ rest[i - 1] = line[i]
      BY <1>1, <1>2, <1>4, <2>1
    <2> QED BY <2>1, <2>2
  <1>5. ASSUME NEW c, NEW known, NEW last, TellsAtLast(line, c, known, last), IsTell(Head(line), c),
               Head(line).arg # known
        PROVE  \E i \in 1 .. n : IsTell(rest[i], c)
    <2>1. PICK k \in 1 .. n + 1 : 1 < k /\ IsTell(line[k], c)
      BY <1>1, <1>2, <1>5 DEF TellsAtLast
    <2>2. k - 1 \in 1 .. n /\ rest[k - 1] = line[k]
      BY <1>1, <1>2, <2>1
    <2> QED BY <2>1, <2>2
  <1>6. \A c : NoneTells(line, c) => NoneTells(rest, c)
    BY <1>1, <1>2 DEF NoneTells, n
  <1>7. \A m : Succession(line, m) => Succession(rest, m)
    BY <1>1, <1>2 DEF Succession, n
  <1>8. \A c, known, last : TellsAtLast(line, c, known, last) /\ ~IsTell(Head(line), c)
                                => TellsAtLast(rest, c, known, last)
    BY <1>3, <1>4 DEF TellsAtLast, n
  <1>9. \A c, known, last : TellsAtLast(line, c, known, last) /\ IsTell(Head(line), c)
                                => TellsAtLast(rest, c, known, Head(line).arg)
    BY <1>3, <1>5 DEF TellsAtLast, n
  <1> QED BY <1>6, <1>7, <1>8, <1>9 DEF rest

LEMMA NothingToTell ==
    ASSUME NEW line, NEW c, NoneTells(line, c), NEW known PROVE TellsAtLast(line, c, known, known)
  BY DEF NoneTells, TellsAtLast

-----------------------------------------------------------------------------

\* What is queued are actions, and there is one who changes the settings on each thread.
LEMMA ModeTyped ==
    ASSUME Inv
    PROVE  /\ actions \in Seq(Actions) /\ settings \in Settings /\ PackToMode(settings) \in Nat
           /\ model \in Nat /\ control \in Nat /\ connection \in Nat /\ told \in Nat
           /\ playMode \in Nat \cup {Unwritten} /\ Unwritten \notin Nat
           /\ crossed \in BOOLEAN /\ freed \in BOOLEAN /\ alive \in BOOLEAN
           /\ DOMAIN actions = 1 .. Len(actions)
           /\ LinkTypeOK /\ Constructs
           /\ \A t \in Threads : change[t].of \in Nat /\ change[t].mode \in Nat
           /\ alive => control = model
           /\ Threads = {"scheduler", "game"}
           /\ {"still", "changed", "retrieved", "added", "read", "stored"} \subseteq Steps /\ 0 \in Nat
  BY PackIsNat DEF Inv, LinkTypeOK, AliveIsNotified, Unwritten, Steps, Threads

\* Whatever is queued or has run, if it is not the mode that it tells.
LEMMA ModeKept ==
    ASSUME Inv, ModeInv, UNCHANGED <<alive, model, control, settings, playMode, told, change, crossed>>,
           ended \subseteq ended', freed' \in BOOLEAN, freed => freed',
           \/ actions' = actions
           \/ \E a \in Actions : /\ actions' = Append(actions, a) /\ a.kind # "tell"
                                 /\ a.kind = "connected" => model < a.of
           \/ /\ actions # << >> /\ actions' = Tail(actions) /\ change["scheduler"].step = "still"
              /\ freed' \/ ~IsTell(Head(actions), control)
    PROVE  ModeInv'
  <1>1. actions \in Seq(Actions) /\ freed \in BOOLEAN
    BY ModeTyped
  <1>2. /\ Succession(actions', model)
        /\ ~freed' => /\ NoneTells(actions, control) => NoneTells(actions', control)
                      /\ Making => (NoneTells(actions', control) => NoneTells(actions, control))
                      /\ \A last : TellsAtLast(actions, control, playMode, last)
                             => TellsAtLast(actions', control, playMode, last)
    <2>1. CASE actions' = actions
      BY <2>1 DEF ModeInv
    <2>2. ASSUME NEW a \in Actions, actions' = Append(actions, a), a.kind # "tell",
                 a.kind = "connected" => model < a.of
          PROVE  /\ Succession(actions', model)
                 /\ NoneTells(actions, control) <=> NoneTells(actions', control)
                 /\ \A last : TellsAtLast(actions, control, playMode, last)
                        => TellsAtLast(actions', control, playMode, last)
      <3>1. ~IsTell(a, control) /\ Succession(actions, model)
        BY <2>2 DEF IsTell, ModeInv
      <3> QED BY <1>1, <2>2, <3>1, OneMore
    <2>3. CASE /\ actions # << >> /\ actions' = Tail(actions) /\ change["scheduler"].step = "still"
               /\ freed' \/ ~IsTell(Head(actions), control)
      <3>1. Succession(actions, model) /\ ~Making
        BY <2>3 DEF ModeInv, Making
      <3> QED BY <1>1, <2>3, <3>1, OneLess
    <2> QED BY <2>1, <2>2, <2>3
  <1>3. UNCHANGED <<NoneChanges, Making, OfThose, Handles("scheduler")>>
        /\ \A t \in Threads : Handles(t)' = Handles(t)
    BY DEF NoneChanges, Making, OfThose, Handles
  <1>4. ASSUME ~crossed, ~freed' PROVE ModeRight'
    <2>1. ModeRight /\ ~freed
      BY <1>1, <1>4 DEF ModeInv
    <2>2. /\ Handles("scheduler") => NoneTells(actions', control)
          /\ control # 0 /\ control \notin ended' /\ ~Making => TellsAtLast(actions', control, playMode, told)
      BY <1>2, <1>4, <2>1 DEF ModeRight
    <2>3. ASSUME Making PROVE MakesRight(change["scheduler"].step)'
      <3>1. MakesRight(change["scheduler"].step)
        BY <2>1, <2>3 DEF ModeRight
      <3>2. /\ NoneTells(actions, control) <=> NoneTells(actions', control)
            /\ TellsAtLast(actions', control, playMode, playMode)
        BY <1>2, <1>4, <2>3, <3>1 DEF MakesRight
      <3> QED BY <3>1, <3>2 DEF MakesRight
    <2> QED BY <1>3, <2>1, <2>2, <2>3 DEF ModeRight
  <1> QED BY <1>1, <1>2, <1>3, <1>4 DEF ModeInv

\* A new FRiderGameControl has told nothing.
LEMMA OnConnectedMode == ASSUME Inv, ModeInv, OnConnected PROVE ModeInv'
  <1> DEFINE c == Action.of
             A == actions
  <1>1. /\ A # << >> /\ A' = Tail(A) /\ Action = Head(A) /\ Action.kind = "connected" /\ model' = c
        /\ UNCHANGED <<connection, ended, settings, told, changes, crossed, freed>>
        /\ change["scheduler"] = Still
        /\ IF c \in ended THEN UNCHANGED <<alive, control, playMode, change>>
           ELSE /\ alive' = TRUE /\ control' = c /\ playMode' = Unwritten
                /\ NowAt("scheduler", In("added", c, 0))
    BY DEF OnConnected, Runs, Dequeued, Action, BecomesAlive, requested
  <1>2. /\ A \in Seq(Actions) /\ Len(A) \in Nat \ {0} /\ A[1] = Head(A) /\ 1 \in 1 .. Len(A)
        /\ Len(A') = Len(A) - 1
        /\ \A i \in 1 .. Len(A') : A'[i] = A[i + 1] /\ i + 1 \in 1 .. Len(A) /\ 1 < i + 1
        /\ \A i \in 1 .. Len(A) : A[i].of \in Nat
    <2>1. A \in Seq(Actions)
      BY ModeTyped
    <2>2. \A i \in 1 .. Len(A) : A[i] \in Actions
      BY <2>1
    <2> QED BY <1>1, <2>1, <2>2 DEF Actions
  <1>3. /\ c \in 1 .. connection /\ c # 0 /\ c \in Nat /\ connection \in Nat /\ model \in Nat
        /\ \A k \in 1 .. Len(A) : 1 < k /\ A[k].kind = "connected" => c < A[k].of
        /\ model < c
    <2>1. /\ c \in 1 .. connection
          /\ \A k \in 1 .. Len(A) : 1 < k /\ A[k].kind = "connected" => c < A[k].of
      BY <1>1, <1>2 DEF Inv, Numbered
    <2>2. model < c
      BY <1>1, <1>2 DEF ModeInv, Succession
    <2> QED BY <2>1, <2>2, ModeTyped
  <1>4. ~alive /\ control = 0
    <2>1. \A i \in 1 .. Len(A) : ~(i < 1)
      BY <1>2
    <2>2. ~alive
      BY <1>1, <1>2, <2>1 DEF Inv, LostFirst
    <2> QED BY <2>2 DEF ModeInv
  <1>5. \A i \in 1 .. Len(A') : A'[i].kind = "tell" => A'[i].of < c /\ A'[i].of # c
    <2>1. \A i \in 1 .. Len(A) : A[i].kind = "tell" => A[i].of <= model
      BY DEF ModeInv, Succession
    <2> HIDE DEF c, A
    <2>2. \A n \in Nat : n <= model => n < c /\ n # c
      BY <1>3
    <2> QED BY <1>2, <2>1, <2>2
  <1>6. OfThose /\ \A t \in Threads : change[t].step = "retrieved" =>
                       change[t].of \in 1 .. c /\ change[t].of # c /\ change[t].of # 0
    <2>1. OfThose
      BY DEF ModeInv
    <2> HIDE DEF c
    <2>2. \A n \in 1 .. model : n \in 1 .. c /\ n # c /\ n # 0
      BY <1>3
    <2> QED BY <2>1, <2>2 DEF OfThose
  <1> HIDE DEF c, A
  <1>7. Succession(A', model')
    <2>1. \A i \in 1 .. Len(A') : A'[i].kind = "connected" => c < A'[i].of
      BY <1>2, <1>3
    <2>2. \A i \in 1 .. Len(A') : A'[i].kind = "tell" => A'[i].of <= c
      BY <1>2, <1>3, <1>5
    <2> QED BY <1>1, <2>1, <2>2 DEF Succession
  <1>8. NoneTells(A', c)
    BY <1>5 DEF NoneTells, IsTell
  <1>9. change["scheduler"].step = "still" /\ ~Handles("scheduler") /\ ~Making
    BY <1>1, PlacesThereAre DEF Handles, Making
  <1>10. CASE c \in ended
    <2>1. control' = 0 /\ alive' = FALSE /\ change' = change
      BY <1>1, <1>4, <1>10, ModeTyped
    <2>2. OfThose' /\ ~Making' /\ ~Handles("scheduler")' /\ \A t \in Threads : Handles(t)' = Handles(t)
      BY <1>1, <1>6, <1>9, <2>1 DEF OfThose, Making, Handles
    <2>3. ModeRight'
      BY <1>6, <2>1, <2>2 DEF ModeRight
    <2> QED BY <1>1, <1>7, <2>1, <2>2, <2>3 DEF ModeInv, A
  <1>11. CASE c \notin ended
    <2>1. /\ control' = c /\ alive' = TRUE /\ playMode' = Unwritten
          /\ change'["scheduler"].step = "added" /\ change'["game"] = change["game"]
      BY <1>1, <1>3, <1>11, ModeTyped, GoesTo
    <2>2. OfThose' /\ \A t \in Threads : change'[t].step = "retrieved" => change'[t].of # c
      BY <1>1, <1>6, <2>1, ModeTyped DEF OfThose
    <2>3. /\ ~Handles("scheduler")' /\ ~NoneChanges' /\ Making'
          /\ \A t \in Threads : Handles(t)' => Handles(t)
      BY <2>1, ModeTyped DEF Making, Handles, NoneChanges
    <2>4. MakesRight(change["scheduler"].step)'
      BY <1>8, <2>1, NothingToTell DEF MakesRight, A
    <2>5. ModeRight'
      BY <2>1, <2>2, <2>3, <2>4 DEF ModeRight
    <2>6. ~crossed' => \A t, u \in Threads : Handles(t)' /\ Handles(u)' => t = u
      BY <1>1, <2>3 DEF ModeInv
    <2> QED BY <1>1, <1>3, <1>7, <2>1, <2>2, <2>5, <2>6 DEF ModeInv, A
  <1> QED BY <1>10, <1>11

\* It reads the settings.
LEMMA InitialReadMode == ASSUME Inv, ModeInv, InitialRead PROVE ModeInv'
  <1>1. /\ change["scheduler"].step = "added"
        /\ NowAt("scheduler", In("read", control, PackToMode(settings)))
        /\ UNCHANGED <<alive, model, control, ended, actions, settings, playMode, told, crossed, freed>>
    BY DEF InitialRead, link
  <1>2. /\ change'["scheduler"].step = "read" /\ change'["scheduler"].mode = PackToMode(settings)
        /\ change'["game"] = change["game"]
    BY <1>1, ModeTyped, GoesTo
  <1>3. OfThose' /\ Making /\ Making' /\ ~NoneChanges' /\ ~Handles("scheduler")'
        /\ \A t \in Threads : Handles(t)' => Handles(t)
    BY <1>1, <1>2, ModeTyped DEF ModeInv, OfThose, Making, NoneChanges, Handles
  <1>4. MakesRight(change["scheduler"].step) => MakesRight(change["scheduler"].step)'
    BY <1>1, <1>2 DEF MakesRight
  <1>5. ModeRight => ModeRight'
    BY <1>1, <1>2, <1>3, <1>4, ModeTyped DEF ModeRight
  <1> QED BY <1>1, <1>3, <1>5 DEF ModeInv

\* It stores what it has read: nothing is to be told, or just that.
LEMMA InitialStoreMode == ASSUME Inv, ModeInv, InitialStore PROVE ModeInv'
  <1>1. /\ change["scheduler"].step = "read" /\ playMode' = change["scheduler"].mode
        /\ NowAt("scheduler", In("stored", control, 0))
        /\ UNCHANGED <<alive, model, control, ended, actions, settings, told, crossed, freed>>
    BY DEF InitialStore, link
  <1>2. change'["scheduler"].step = "stored" /\ change'["game"] = change["game"]
    BY <1>1, ModeTyped, GoesTo
  <1>3. OfThose' /\ Making /\ Making' /\ ~NoneChanges' /\ ~Handles("scheduler")'
        /\ \A t \in Threads : Handles(t)' => Handles(t)
    BY <1>1, <1>2, ModeTyped DEF ModeInv, OfThose, Making, NoneChanges, Handles
  <1>4. ASSUME MakesRight("read") PROVE MakesRight("stored")'
    <2>1. playMode' = PackToMode(settings)
      BY <1>1, <1>4 DEF MakesRight
    <2>2. \/ NoneTells(actions, control)
          \/ playMode = PackToMode(settings) /\ TellsAtLast(actions, control, playMode, playMode)
      BY <1>4 DEF MakesRight
    <2>3. TellsAtLast(actions', control', playMode', playMode')
      BY <1>1, <2>1, <2>2, NothingToTell
    <2> QED BY <1>1, <2>1, <2>3 DEF MakesRight
  <1>5. ModeRight => ModeRight'
    BY <1>1, <1>2, <1>3, <1>4, ModeTyped DEF ModeRight
  <1> QED BY <1>1, <1>3, <1>5 DEF ModeInv

\* It tells what it has stored, or what OnObjectPropertyChanged will tell once more.
LEMMA InitialTellMode == ASSUME Inv, ModeInv, InitialTell PROVE ModeInv'
  <1>1. /\ change["scheduler"].step = "stored" /\ Tell(playMode) /\ NowAt("scheduler", Still)
        /\ UNCHANGED <<alive, model, control, ended, actions, settings, playMode, crossed, freed>>
    BY DEF InitialTell, link
  <1>2. change'["scheduler"].step = "still" /\ change'["game"] = change["game"]
    <2>1. change'["scheduler"] = Still /\ change'["game"] = change["game"]
      BY <1>1, ModeTyped, Places, PlacesThereAre
    <2> QED BY <2>1, PlacesThereAre
  <1>3. OfThose' /\ Making /\ ~Making' /\ ~Handles("scheduler")'
        /\ \A t \in Threads : Handles(t)' => Handles(t)
    BY <1>1, <1>2, ModeTyped DEF ModeInv, OfThose, Making, Handles
  <1>4. control # 0 /\ control = model /\ (control \notin ended => told' = playMode)
    BY <1>1, <1>3, ModeTyped DEF Constructs, ModeInv, Tell
  <1>5. ASSUME ModeRight PROVE ModeRight'
    <2>1. MakesRight("stored")
      BY <1>1, <1>3, <1>5 DEF ModeRight
    <2>2. NoneChanges' => playMode = PackToMode(settings)
      BY <1>2, <2>1, ModeTyped DEF NoneChanges, MakesRight
    <2>3. control \notin ended => TellsAtLast(actions, control, playMode, told')
      BY <1>4, <2>1 DEF MakesRight
    <2> QED BY <1>1, <1>2, <1>3, <1>5, <2>2, <2>3, ModeTyped DEF ModeRight
  <1> QED BY <1>1, <1>3, <1>5 DEF ModeInv

LEMMA OnLostMode == ASSUME Inv, ModeInv, OnLost PROVE ModeInv'
  <1>1. /\ actions # << >> /\ actions' = Tail(actions) /\ alive' = FALSE /\ control' = 0
        /\ UNCHANGED <<connection, ended, model, settings, playMode, told, change, crossed, freed>>
        /\ change["scheduler"] = Still
    BY DEF OnLost, Runs, Dequeued, requested, mode
  <1>2. Succession(actions', model)
    BY <1>1, ModeTyped, OneLess DEF ModeInv
  <1>3. OfThose' /\ ~Making' /\ ~Handles("scheduler")' /\ \A t \in Threads : Handles(t)' = Handles(t)
    BY <1>1, PlacesThereAre DEF ModeInv, OfThose, Making, Handles
  <1>4. \A t \in Threads : change'[t].step = "retrieved" => change'[t].of # 0
    BY <1>3 DEF OfThose
  <1>5. ModeRight'
    BY <1>1, <1>3, <1>4 DEF ModeRight
  <1> QED BY <1>1, <1>2, <1>3, <1>5 DEF ModeInv

\* Rider is told a mode the game thread has reported.
LEMMA OnTellMode == ASSUME Inv, ModeInv, OnTell PROVE ModeInv'
  <1>1. /\ actions # << >> /\ actions' = Tail(actions) /\ Head(actions).kind = "tell" /\ ~freed
        /\ UNCHANGED <<alive, model, control, ended, settings, playMode, change, crossed>>
        /\ change["scheduler"].step = "still" /\ actions \in Seq(Actions)
    BY ModeTyped, PlacesThereAre DEF OnTell, Runs, Dequeued, Action, link, requested
  <1>2. CASE Head(actions).of # control
    <2>1. freed' = TRUE /\ told' = told
      BY <1>2 DEF OnTell, Action
    <2> QED BY <1>1, <2>1, ModeKept
  <1>3. CASE Head(actions).of = control
    <2>1. freed' = freed /\ told' = IF model \in ended THEN told ELSE Head(actions).arg
      BY <1>3 DEF OnTell, Action, Tell
    <2>2. Succession(actions', model)
      BY <1>1, OneLess DEF ModeInv
    <2>3. ASSUME ~crossed, control # 0, control \notin ended, ModeRight
          PROVE  TellsAtLast(actions', control, playMode, told')
      <3>1. model = control /\ told' = Head(actions).arg
        BY <2>1, <2>3, ModeTyped DEF ModeInv
      <3>2. TellsAtLast(actions, control, playMode, told) /\ IsTell(Head(actions), control)
        BY <1>1, <1>3, <2>3 DEF ModeRight, Making, IsTell
      <3> QED BY <1>1, <3>1, <3>2, OneLess
    <2>4. /\ UNCHANGED <<NoneChanges, OfThose>> /\ ~Making' /\ ~Handles("scheduler")'
          /\ \A t \in Threads : Handles(t)' = Handles(t)
      BY <1>1 DEF NoneChanges, OfThose, Making, Handles
    <2>5. ~crossed /\ ModeRight => ModeRight'
      BY <1>1, <2>3, <2>4 DEF ModeRight
    <2> QED BY <1>1, <2>1, <2>2, <2>4, <2>5 DEF ModeInv
  <1> QED BY <1>2, <1>3

\* Rider's change begins: it crosses the user's, or nothing is to be told.
LEMMA OnModeMode == ASSUME Inv, ModeInv, OnMode PROVE ModeInv'
  <1>1. /\ actions # << >> /\ actions' = Tail(actions) /\ Head(actions).kind = "mode" /\ ~freed
        /\ UNCHANGED <<alive, model, control, ended, playMode, told, freed>>
        /\ change["scheduler"].step = "still" /\ actions \in Seq(Actions)
    BY ModeTyped, PlacesThereAre DEF OnMode, Runs, Dequeued, Action, link, requested
  <1>2. CASE control = 0 \/ Action.of # control
    <2>1. UNCHANGED <<settings, change, crossed>>
      BY <1>2 DEF OnMode
    <2>2. ~IsTell(Head(actions), control)
      BY <1>1 DEF IsTell
    <2> QED BY <1>1, <2>1, <2>2, ModeKept, ModeTyped
  <1>3. CASE control # 0 /\ Action.of = control
    <2>1. /\ NowAt("scheduler", In("changed", 0, 0))
          /\ crossed' = (crossed \/ change["game"] # Still \/ Queued("tell"))
      BY <1>3 DEF OnMode
    <2>2. change'["scheduler"].step = "changed" /\ change'["game"] = change["game"]
      <3>1. "scheduler" \in Threads /\ "game" \in Threads /\ "changed" \in Steps /\ 0 \in Nat
        BY ModeTyped
      <3> QED BY <2>1, <3>1, ModeTyped, GoesTo
    <2>3. Succession(actions', model)
      BY <1>1, OneLess DEF ModeInv
    <2>4. OfThose' /\ ~NoneChanges' /\ ~Making'
      BY <2>2, <1>1, ModeTyped DEF OfThose, ModeInv, NoneChanges, Making
    <2>5. ASSUME ~crossed'
          PROVE  /\ change'["game"].step = "still" /\ ~crossed /\ NoneTells(actions, control)
                 /\ NoneTells(actions', control)
      <3>1. change["game"] = Still /\ ~crossed /\ ~Queued("tell")
        BY <2>1, <2>5
      <3>2. NoneTells(actions, control)
        BY <3>1, ModeTyped DEF Queued, NoneTells, IsTell
      <3>3. NoneTells(actions', control)
        BY <1>1, <3>2, OneLess
      <3> QED BY <2>2, <3>1, <3>2, <3>3, PlacesThereAre
    <2>6. ASSUME ~crossed', control \notin ended PROVE TellsAtLast(actions', control, playMode, told)
      <3>1. TellsAtLast(actions, control, playMode, told) /\ ~IsTell(Head(actions), control)
        BY <1>1, <1>3, <2>5, <2>6 DEF ModeInv, ModeRight, Making, IsTell
      <3> QED BY <1>1, <3>1, OneLess
    <2>7. ~crossed' => /\ \A t, u \in Threads : Handles(t)' /\ Handles(u)' => t = u
                       /\ \A t \in Threads : change'[t].step # "retrieved"
      BY <2>2, <2>5, ModeTyped DEF Handles
    <2>8. ~crossed' => ModeRight'
      BY <1>1, <2>4, <2>5, <2>6, <2>7 DEF ModeRight
    <2> QED BY <1>1, <2>3, <2>4, <2>7, <2>8 DEF ModeInv
  <1> QED BY <1>2, <1>3

\* The user's change begins.
LEMMA EditMode == ASSUME Inv, ModeInv, NEW new \in UserSettings, Edit(new) PROVE ModeInv'
  <1>1. /\ change["game"] = Still /\ ~freed
        /\ NowAt("game", In("changed", 0, 0))
        /\ UNCHANGED <<alive, model, control, ended, actions, playMode, told, freed>>
        /\ crossed' = (\/ crossed \/ change["scheduler"].step \in {"changed", "retrieved", "read"}
                       \/ change["scheduler"].step = "added" /\ Queued("tell"))
    BY DEF Edit, link, requested
  <1>2. change'["game"].step = "changed" /\ change'["scheduler"] = change["scheduler"]
    <2>1. "scheduler" \in Threads /\ "game" \in Threads /\ "changed" \in Steps /\ 0 \in Nat
      BY ModeTyped
    <2> QED BY <1>1, <2>1, ModeTyped, GoesTo
  <1>3. OfThose' /\ ~NoneChanges' /\ Making' = Making /\ Handles("scheduler")' = Handles("scheduler")
    BY <1>1, <1>2, ModeTyped DEF OfThose, ModeInv, NoneChanges, Making, Handles
  <1>4. ASSUME ~crossed'
        PROVE  /\ ~crossed /\ ~Handles("scheduler") /\ change["scheduler"].step # "read"
               /\ change["scheduler"].step = "added" => NoneTells(actions, control)
    <2>1. change["scheduler"].step = "added" => ~Queued("tell")
      BY <1>1, <1>4
    <2>2. ~Queued("tell") => NoneTells(actions, control)
      BY ModeTyped DEF Queued, NoneTells, IsTell
    <2> QED BY <1>1, <1>4, <2>1, <2>2 DEF Handles
  <1>5. ~crossed' => /\ \A t, u \in Threads : Handles(t)' /\ Handles(u)' => t = u
                     /\ \A t \in Threads : change'[t].step # "retrieved"
    BY <1>2, <1>3, <1>4, ModeTyped DEF Handles
  <1>6. ASSUME ~crossed', ModeRight PROVE ModeRight'
    <2>1. ASSUME Making PROVE MakesRight(change["scheduler"].step)'
      <3>1. MakesRight(change["scheduler"].step)
        BY <1>6, <2>1 DEF ModeRight
      <3>2. change["scheduler"].step = "added" => playMode = Unwritten
        BY <1>4, <1>6, <3>1 DEF MakesRight
      <3> QED BY <1>1, <1>2, <1>4, <1>6, <3>1, <3>2 DEF MakesRight
    <2> QED BY <1>1, <1>3, <1>4, <1>5, <1>6, <2>1 DEF ModeRight
  <1> QED BY <1>1, <1>3, <1>4, <1>5, <1>6 DEF ModeInv

\* A thread looks at the settings it has changed.
LEMMA RetrieveMode ==
    ASSUME Inv, ModeInv, NEW thread \in Threads, RetrieveSettings(thread) PROVE ModeInv'
  <1>1. /\ change[thread].step = "changed" /\ ~freed
        /\ UNCHANGED <<alive, model, control, ended, actions, settings, playMode, told, crossed, freed>>
        /\ NowAt(thread, IF control = 0 THEN Still ELSE In("retrieved", control, PackToMode(settings)))
    BY DEF RetrieveSettings, link
  <1>2. /\ \A t \in Threads : t # thread => change'[t] = change[t]
        /\ control = 0 => change'[thread].step = "still"
        /\ control # 0 => /\ change'[thread].step = "retrieved" /\ change'[thread].of = control
                          /\ change'[thread].mode = PackToMode(settings)
    <2>1. CASE control = 0
      <3>1. NowAt(thread, Still)
        BY <1>1, <2>1
      <3>2. change'[thread] = Still /\ \A t \in Threads : t # thread => change'[t] = change[t]
        BY <3>1, ModeTyped, Places, PlacesThereAre
      <3> QED BY <2>1, <3>2, PlacesThereAre
    <2>2. CASE control # 0
      BY <1>1, <2>2, ModeTyped, GoesTo
    <2> QED BY <2>1, <2>2
  <1>3. /\ \A t \in Threads : Handles(t)' => Handles(t)
        /\ Making' <=> Making
        /\ Making => change'["scheduler"] = change["scheduler"]
    BY <1>1, <1>2, ModeTyped DEF Handles, Making
  <1>4. OfThose'
    <2>1. control # 0 => control \in 1 .. model
      BY ModeTyped DEF ModeInv
    <2> QED BY <1>1, <1>2, <2>1 DEF ModeInv, OfThose
  <1>5. control # 0 => ~NoneChanges'
    BY <1>2 DEF NoneChanges
  <1>6. ASSUME ModeRight PROVE ModeRight'
    <2>1. \A t \in Threads : change'[t].step = "retrieved" /\ change'[t].of = control
                                 => change'[t].mode = PackToMode(settings)
      BY <1>2, <1>6 DEF ModeRight
    <2>2. ASSUME Making PROVE MakesRight(change["scheduler"].step)'
      <3>1. MakesRight(change["scheduler"].step) /\ control # 0 /\ thread = "game"
        BY <1>1, <1>6, <2>2, ModeTyped DEF ModeRight, Making, Constructs
      <3>2. change["game"].step # "still" /\ change'["game"].step # "still"
        BY <1>1, <1>2, <3>1
      <3> QED BY <1>1, <1>3, <2>2, <3>1, <3>2 DEF MakesRight
    <2> QED BY <1>1, <1>3, <1>5, <1>6, <2>1, <2>2, ModeTyped DEF ModeRight
  <1> QED BY <1>1, <1>3, <1>4, <1>6 DEF ModeInv

\* It remembers a mode that is new, and tells it: the Scheduler's thread at once, for then
\* nothing else is to be told, the game thread behind what it has told before.
LEMMA ReportMode ==
    ASSUME Inv, ModeInv, NEW thread \in Threads, Report(thread) PROVE ModeInv'
  <1> DEFINE new == change[thread].mode
             a == [kind |-> "tell", of |-> control, arg |-> new]
  <1>1. /\ change[thread].step = "retrieved" /\ ~freed /\ NowAt(thread, Still)
        /\ UNCHANGED <<alive, model, control, ended, settings, crossed>>
    BY DEF Report, link
  <1>2. /\ change'[thread].step = "still"
        /\ \A t \in Threads : t # thread => change'[t] = change[t]
    <2>1. change'[thread] = Still /\ \A t \in Threads : t # thread => change'[t] = change[t]
      BY <1>1, ModeTyped, Places, PlacesThereAre
    <2> QED BY <2>1, PlacesThereAre
  <1>3. /\ OfThose' /\ (Making' <=> Making) /\ (Making => thread = "game")
        /\ \A t \in Threads : Handles(t)' => Handles(t) /\ t # thread
        /\ Making => change'["scheduler"] = change["scheduler"]
    BY <1>1, <1>2, ModeTyped DEF ModeInv, OfThose, Making, Handles
  <1>4. new \in Nat /\ a \in Actions /\ actions \in Seq(Actions) /\ control <= model
    <2>1. control = model \/ control = 0
      BY ModeTyped DEF ModeInv
    <2> QED BY <2>1, ModeTyped DEF Actions
  <1>5. /\ ~crossed => \A t, u \in Threads : Handles(t)' /\ Handles(u)' => t = u
        /\ (alive <=> control # 0)' /\ OfThose'
    BY <1>1, <1>3 DEF ModeInv
  <1> HIDE DEF new
  <1>6. CASE change[thread].of # control
    <2>1. freed' = TRUE /\ actions' = actions
      BY <1>6 DEF Report
    <2> QED BY <1>1, <1>5, <2>1 DEF ModeInv
  <1>7. CASE change[thread].of = control
    <2>1. /\ freed' = freed
          /\ \/ playMode \in {new, Unwritten} /\ UNCHANGED <<actions, playMode, told>>
             \/ playMode' = new /\ thread = "scheduler" /\ Tell(new) /\ actions' = actions
             \/ playMode' = new /\ thread # "scheduler" /\ actions' = Append(actions, a) /\ told' = told
      BY <1>7 DEF Report, Remembers, Queue, new
    <2>2. Succession(actions', model')
      <3>1. Succession(actions, model) /\ a.kind = "tell" /\ a.of <= model
        BY <1>4 DEF ModeInv
      <3> HIDE DEF a
      <3>2. Succession(Append(actions, a), model)
        BY <1>4, <3>1, OneMore
      <3> QED BY <1>1, <2>1, <3>1, <3>2
    <2>3. ASSUME ~crossed, ModeRight PROVE ModeRight'
      <3>1. new = PackToMode(settings)
        BY <1>1, <1>7, <2>3 DEF ModeRight, new
      <3>2. \A t \in Threads : ~Handles(t)' /\ change'[t].step # "retrieved"
        BY <1>1, <1>3, <2>3 DEF ModeInv, Handles
      <3>3. change'["game"].step = "still"
        BY <3>2, <1>2, ModeTyped DEF Handles, Constructs
      <3>4. ~Making => playMode # Unwritten
        BY ModeTyped DEF Constructs, Making
      <3>5. IsTell(a, control) /\ a.arg = new
        BY DEF IsTell
      <3>6. CASE playMode \in {new, Unwritten} /\ UNCHANGED <<actions, playMode, told>>
        <4>1. ASSUME Making PROVE MakesRight(change["scheduler"].step)'
          <5>1. MakesRight(change["scheduler"].step) /\ change["game"].step # "still"
            BY <1>1, <1>3, <2>3, <4>1 DEF ModeRight
          <5>2. change["scheduler"].step = "stored" => playMode = PackToMode(settings)
            BY <3>1, <3>6, ModeTyped DEF Constructs
          <5> QED BY <1>1, <1>3, <3>6, <4>1, <5>1, <5>2 DEF MakesRight
        <4>2. ~Making => playMode = PackToMode(settings)
          BY <3>1, <3>4, <3>6
        <4>3. ~Making \/ ~NoneChanges'
          BY <1>3, ModeTyped DEF Making, NoneChanges
        <4> QED BY <1>1, <1>3, <2>3, <3>2, <3>6, <4>1, <4>2, <4>3, ModeTyped DEF ModeRight
      <3>7. CASE playMode' = new /\ thread = "scheduler" /\ Tell(new) /\ actions' = actions
        <4>1. ~Making /\ NoneTells(actions, control)
          BY <1>1, <1>3, <2>3, <3>7 DEF ModeRight, Handles
        <4>2. control # 0 /\ control \notin ended => told' = new
          BY <3>7, ModeTyped DEF Tell, ModeInv
        <4>3. control # 0 /\ control \notin ended => TellsAtLast(actions', control, playMode', told')
          BY <3>7, <4>1, <4>2, NothingToTell
        <4> QED BY <1>1, <1>3, <3>1, <3>2, <3>7, <4>1, <4>3, ModeTyped DEF ModeRight
      <3>8. CASE playMode' = new /\ thread # "scheduler" /\ actions' = Append(actions, a) /\ told' = told
        <4> HIDE DEF a
        <4>1. /\ \A last : TellsAtLast(actions', control, playMode', last)
              /\ ~NoneTells(actions', control)
          BY <1>4, <3>5, <3>8, OneMore
        <4>2. ASSUME Making PROVE MakesRight(change["scheduler"].step)'
          <5>1. MakesRight(change["scheduler"].step)
            BY <2>3, <4>2 DEF ModeRight
          <5> QED BY <1>1, <1>3, <3>1, <3>3, <3>8, <4>1, <4>2, <5>1 DEF MakesRight
        <4> QED BY <1>1, <1>3, <3>1, <3>2, <3>8, <4>1, <4>2, ModeTyped DEF ModeRight
      <3> QED BY <2>1, <3>6, <3>7, <3>8
    <2> QED BY <1>1, <1>5, <2>1, <2>2, <2>3 DEF ModeInv
  <1> QED BY <1>6, <1>7

\* The other actions leave the modes alone.
LEMMA OtherModes ==
    ASSUME Chosen, Inv, ModeInv,
           \/ Connect \/ Disconnect \/ Request \/ \E m \in RiderModes : playModeFromRider(m)
           \/ OnRequest \/ OnReply \/ RunTask
    PROVE  ModeInv'
  <1> DEFINE Same == /\ UNCHANGED <<alive, model, control, settings, playMode, told, change, crossed>>
                     /\ ended \subseteq ended' /\ freed' \in BOOLEAN /\ (freed => freed')
             Queues(kind) == \E of, arg \in Nat :
                 /\ actions' = Append(actions, [kind |-> kind, of |-> of, arg |-> arg])
                 /\ kind = "connected" => model < of
  <1>1. ASSUME NEW kind \in {"connected", "lost", "request", "mode", "reply"}, Same, Queues(kind)
        PROVE  ModeInv'
    <2>1. PICK of \in Nat, arg \in Nat :
              /\ actions' = Append(actions, [kind |-> kind, of |-> of, arg |-> arg])
              /\ kind = "connected" => model < of
      BY <1>1
    <2> DEFINE a == [kind |-> kind, of |-> of, arg |-> arg]
    <2>2. a \in Actions /\ a.kind = kind /\ a.of = of /\ kind # "tell"
      BY DEF Actions
    <2> HIDE DEF a
    <2>3. \E x \in Actions : /\ actions' = Append(actions, x) /\ x.kind # "tell"
                             /\ x.kind = "connected" => model < x.of
      BY <2>1, <2>2 DEF a
    <2> QED BY <1>1, <2>3, ModeKept
  <1>2. ASSUME actions # << >>, Head(actions).kind # "tell", actions' = Tail(actions),
               change["scheduler"].step = "still", Same
        PROVE  ModeInv'
    <2>1. ~IsTell(Head(actions), control)
      BY <1>2 DEF IsTell
    <2> QED BY <1>2, <2>1, ModeKept
  <1>3. ASSUME actions' = actions, Same PROVE ModeInv'
    BY <1>3, ModeKept
  <1>4. connection \in Nat /\ connection + 1 \in Nat /\ control \in Nat /\ Len(asked) + 1 \in Nat
        /\ freed \in BOOLEAN /\ model < connection + 1
    BY DEF Inv, LinkTypeOK, Numbered
  <1>5. CASE Connect
    <2>1. Same /\ Queues("connected")
      BY <1>4, <1>5 DEF Connect, Queue, requested, mode
    <2> QED BY <1>1, <2>1
  <1>6. CASE Disconnect
    <2>1. Same /\ (Queues("lost") \/ actions' = actions)
      BY <1>4, <1>6 DEF Disconnect, Queue, requested, mode
    <2> QED BY <1>1, <1>3, <2>1
  <1>7. CASE Request
    <2>1. Same /\ Queues("request")
      BY <1>4, <1>7 DEF Request, Queue, link, mode
    <2> QED BY <1>1, <2>1
  <1>8. ASSUME NEW m \in RiderModes, playModeFromRider(m) PROVE ModeInv'
    <2>1. Same /\ Queues("mode")
      BY <1>4, <1>8 DEF playModeFromRider, Queue, link, Chosen
    <2> QED BY <1>1, <2>1
  <1>9. CASE OnRequest \/ OnReply
    <2>1. /\ actions # << >> /\ Head(actions).kind # "tell" /\ actions' = Tail(actions)
          /\ UNCHANGED <<link, mode>> /\ change["scheduler"].step = "still"
          /\ freed' = freed \/ freed' = TRUE
      BY <1>9, PlacesThereAre DEF OnRequest, OnReply, Runs, Dequeued
    <2>2. /\ UNCHANGED <<alive, model, control, settings, playMode, told, change, crossed>>
          /\ ended' = ended
      BY <2>1 DEF link, mode
    <2>3. freed' \in BOOLEAN /\ (freed => freed')
      <3>1. CASE freed' = freed
        BY <1>4, <3>1
      <3>2. CASE freed' = TRUE
        BY <3>2
      <3> QED BY <2>1, <3>1, <3>2
    <2>4. Same
      BY <2>2, <2>3
    <2> QED BY <1>2, <2>1, <2>4
  <1>10. CASE RunTask
    <2>1. Head(game_tasks).id \in Nat
      BY <1>10, TaskId DEF RunTask, Inv
    <2>2. UNCHANGED <<link, mode>> /\ (freed' = freed \/ freed' = TRUE)
      BY <1>10 DEF RunTask
    <2>3. Same
      BY <1>4, <2>2 DEF link, mode
    <2>4. Queues("reply") \/ actions' = actions
      BY <1>4, <1>10, <2>1 DEF RunTask, Queue
    <2> QED BY <1>1, <1>3, <2>3, <2>4
  <1> QED BY <1>5, <1>6, <1>7, <1>8, <1>9, <1>10

LEMMA ModeInvInit == LinkInit => ModeInv
  <1> SUFFICES ASSUME LinkInit PROVE ModeInv
    OBVIOUS
  <1>1. /\ alive = FALSE /\ control = 0 /\ actions = << >> /\ Len(actions) = 0
        /\ \A t \in Threads : change[t] = Still
    BY DEF LinkInit
  <1>2. \A t \in Threads : change[t].step = "still"
    BY <1>1, PlacesThereAre
  <1>3. ~Making /\ ~Handles("scheduler") /\ OfThose /\ \A t \in Threads : ~Handles(t)
    BY <1>2, PlacesThereAre DEF Making, Handles, OfThose
  <1>4. ModeRight
    BY <1>1, <1>2, <1>3 DEF ModeRight
  <1> QED BY <1>1, <1>3, <1>4 DEF ModeInv, Succession

LEMMA ModeInvStep == ASSUME Chosen PROVE Inv /\ ModeInv /\ [LinkNext]_linkVars => ModeInv'
  <1> SUFFICES ASSUME Inv, ModeInv, [LinkNext]_linkVars PROVE ModeInv'
    OBVIOUS
  <1>1. CASE UNCHANGED linkVars
    <2>1. /\ UNCHANGED <<alive, model, control, settings, playMode, told, change, crossed>>
          /\ UNCHANGED <<ended, freed, actions>>
      BY <1>1 DEF linkVars, link, mode
    <2> QED BY <2>1, ModeKept, ModeTyped
  <1>2. CASE LinkNext
    BY <1>2, OtherModes, OnConnectedMode, InitialReadMode, InitialStoreMode, InitialTellMode,
       OnLostMode, OnTellMode, OnModeMode, EditMode, RetrieveMode, ReportMode
       DEF LinkNext, Scheduler, Constructor, Changing
  <1> QED BY <1>1, <1>2

\* What the invariants say of the mode.
LEMMA ModeByInvariant == Inv /\ ModeInv => RiderKnowsMode
  <1> SUFFICES ASSUME Inv, ModeInv, ModeIsSettled, ~crossed
               PROVE  /\ told = PackToMode(settings)
                      /\ settings.NumberOfClients <= 4 /\ settings.PlayMode # "InTargetedMobilePreview"
                             => UnpackFromMode(told) = settings
    BY DEF RiderKnowsMode
  <1>1. control # 0 /\ control \notin ended /\ NoneChanges /\ ~Making /\ ~freed
    BY PlacesThereAre DEF ModeIsSettled, Connected, NoneChanges, Making
  <1>2. playMode = PackToMode(settings) /\ TellsAtLast(actions, control, playMode, told)
    BY <1>1 DEF ModeInv, ModeRight
  <1>3. \A i \in 1 .. Len(actions) : ~IsTell(actions[i], control)
    BY ModeTyped DEF ModeIsSettled, Queued, IsTell
  <1>4. told = PackToMode(settings)
    BY <1>2, <1>3 DEF TellsAtLast
  <1> QED BY <1>4, PackIsUndone, ModeTyped

\* RiderGameControl.cpp:362-377, 430-451.  RiderKnowsMode: when all is settled and no
\* changes have crossed, Rider was told the mode of the editor's settings, which stands
\* for just these when a mode can, however connections and changes have come.
THEOREM RiderIsTold == ASSUME Chosen PROVE LinkSpec => []RiderKnowsMode
  <1>1. LinkInit => Inv /\ ModeInv
    BY InvInit, ModeInvInit
  <1>2. Inv /\ ModeInv /\ [LinkNext]_linkVars => (Inv /\ ModeInv)'
    BY InvStep, ModeInvStep
  <1> QED BY <1>1, <1>2, ModeByInvariant, PTL DEF LinkSpec

-----------------------------------------------------------------------------
(* A request is replied to once at most, though the reply may come from the *)
(* action that carries it out, or from the game thread and the Scheduler.   *)
(* The point is that it is in one place until then.                         *)

\* The places of a line that hold one of M.
PlacesOf(line, M) == {i \in 1 .. Len(line) : line[i] \in M}
OnePlaceIn(places) == \A i, k \in places : i = k

\* What will reply to a request, or pass it on to be replied to.
ToReply(id) == {a \in Actions : a.kind \in {"request", "reply"} /\ a.arg = id}
Tasks == [of : Nat, id : Nat]
ToCarryOut(id) == {work \in Tasks : work.id = id}

Replied(id) == IF id \in Requests THEN replies[id] ELSE 0

OnceAtMost(id) ==
    LET acts == PlacesOf(actions, ToReply(id))
        jobs == PlacesOf(game_tasks, ToCarryOut(id))
    IN  /\ OnePlaceIn(acts) /\ OnePlaceIn(jobs) /\ (acts = {} \/ jobs = {})
        /\ acts # {} \/ jobs # {} => id <= Len(asked) /\ Replied(id) = 0
        /\ id > Len(asked) => Replied(id) = 0
        /\ Replied(id) <= 1

RepliesInv == \A id \in Nat : OnceAtMost(id)

\* What is added is in the last place.
LEMMA PlacesMore ==
    ASSUME NEW S, NEW line \in Seq(S), NEW x \in S, NEW M
    PROVE  LET new == PlacesOf(Append(line, x), M)
           IN  /\ x \notin M => new = PlacesOf(line, M)
               /\ x \in M /\ PlacesOf(line, M) = {} => OnePlaceIn(new)
  <1> DEFINE longer == Append(line, x)
  <1>1. /\ Len(line) \in Nat /\ Len(longer) = Len(line) + 1 /\ longer[Len(line) + 1] = x
        /\ \A i \in 1 .. Len(line) : longer[i] = line[i]
    OBVIOUS
  <1> HIDE DEF longer
  <1>2. 1 .. Len(longer) = 1 .. Len(line) \cup {Len(line) + 1}
    BY <1>1
  <1>3. x \notin M => PlacesOf(longer, M) = PlacesOf(line, M)
    BY <1>1, <1>2 DEF PlacesOf
  <1>4. PlacesOf(line, M) = {} => \A i \in PlacesOf(longer, M) : i = Len(line) + 1
    BY <1>1, <1>2 DEF PlacesOf
  <1> QED BY <1>3, <1>4 DEF longer, OnePlaceIn

\* The first one leaves, the others move up.
LEMMA PlacesLess ==
    ASSUME NEW S, NEW line \in Seq(S), line # << >>, NEW M
    PROVE  LET new == PlacesOf(Tail(line), M)
           IN  /\ PlacesOf(line, M) = {} => new = {}
               /\ OnePlaceIn(PlacesOf(line, M)) => OnePlaceIn(new)
               /\ Head(line) \in M => /\ PlacesOf(line, M) # {}
                                      /\ OnePlaceIn(PlacesOf(line, M)) => new = {}
  <1> DEFINE rest == Tail(line)
  <1>1. /\ Len(line) \in Nat \ {0} /\ Len(rest) = Len(line) - 1 /\ Head(line) = line[1]
        /\ \A i \in 1 .. Len(rest) : rest[i] = line[i + 1]
    OBVIOUS
  <1> HIDE DEF rest
  <1>2. \A i \in PlacesOf(rest, M) : i \in Nat \ {0} /\ i + 1 \in PlacesOf(line, M)
    BY <1>1 DEF PlacesOf
  <1>3. OnePlaceIn(PlacesOf(line, M)) => OnePlaceIn(PlacesOf(rest, M))
    <2> SUFFICES ASSUME OnePlaceIn(PlacesOf(line, M)),
                        NEW i \in PlacesOf(rest, M), NEW k \in PlacesOf(rest, M)
                 PROVE  i = k
      BY DEF OnePlaceIn
    <2>1. i + 1 = k + 1
      BY <1>2 DEF OnePlaceIn
    <2> QED BY <1>2, <2>1
  <1>4. ASSUME Head(line) \in M
        PROVE  /\ PlacesOf(line, M) # {}
               /\ OnePlaceIn(PlacesOf(line, M)) => PlacesOf(rest, M) = {}
    <2>1. 1 \in PlacesOf(line, M)
      BY <1>1, <1>4 DEF PlacesOf
    <2>2. ASSUME OnePlaceIn(PlacesOf(line, M)), NEW i \in PlacesOf(rest, M) PROVE FALSE
      <3>1. i + 1 = 1
        BY <1>2, <2>1, <2>2 DEF OnePlaceIn
      <3> QED BY <1>2, <3>1
    <2> QED BY <2>1, <2>2
  <1> QED BY <1>2, <1>3, <1>4 DEF rest

LEMMA RepliesTyped ==
    ASSUME Inv
    PROVE  /\ actions \in Seq(Actions) /\ game_tasks \in Seq(Tasks)
           /\ control \in Nat /\ connection \in Nat /\ Len(asked) \in Nat
           /\ \A id : Replied(id) \in Nat
  BY DEF Inv, LinkTypeOK, Tasks, Replied

\* An action that is not about a request is queued or has run.
LEMMA OthersReply ==
    ASSUME Inv, RepliesInv, UNCHANGED requested,
           \/ actions' = actions
           \/ \E a \in Actions : a.kind \notin {"request", "reply"} /\ actions' = Append(actions, a)
           \/ actions # << >> /\ actions' = Tail(actions)
    PROVE  RepliesInv'
  <1> SUFFICES ASSUME NEW id \in Nat PROVE OnceAtMost(id)'
    BY DEF RepliesInv
  <1> DEFINE acts == PlacesOf(actions, ToReply(id))
             then == PlacesOf(actions', ToReply(id))
  <1>1. (acts = {} => then = {}) /\ (OnePlaceIn(acts) => OnePlaceIn(then))
    <2>1. CASE actions' = actions
      BY <2>1
    <2>2. ASSUME NEW a \in Actions, a.kind \notin {"request", "reply"}, actions' = Append(actions, a)
          PROVE  then = acts
      BY <2>2, RepliesTyped, PlacesMore DEF ToReply
    <2>3. CASE actions # << >> /\ actions' = Tail(actions)
      BY <2>3, RepliesTyped, PlacesLess
    <2> QED BY <2>1, <2>2, <2>3
  <1>2. UNCHANGED <<Len(asked), Replied(id), PlacesOf(game_tasks, ToCarryOut(id))>>
    BY DEF requested, Replied
  <1> QED BY <1>1, <1>2 DEF RepliesInv, OnceAtMost

\* A new request has a number of its own.
LEMMA RequestReplies ==
    ASSUME Inv, RepliesInv, Request
    PROVE  RepliesInv'
  <1> SUFFICES ASSUME NEW id \in Nat PROVE OnceAtMost(id)'
    BY DEF RepliesInv
  <1> DEFINE n == Len(asked)
             a == [kind |-> "request", of |-> connection, arg |-> n + 1]
             acts == PlacesOf(actions, ToReply(id))
             then == PlacesOf(actions', ToReply(id))
  <1>1. n \in Nat /\ Len(asked') = n + 1 /\ Replied(id) \in Nat
    BY RepliesTyped DEF Request, Inv, LinkTypeOK
  <1>2. /\ a \in Actions /\ (a \in ToReply(id) <=> id = n + 1)
    BY <1>1, RepliesTyped DEF Actions, ToReply
  <1>3. actions' = Append(actions, a)
    BY DEF Request, Queue
  <1>4. UNCHANGED <<Replied(id), PlacesOf(game_tasks, ToCarryOut(id))>>
    BY DEF Request, Replied
  <1> HIDE DEF n, a
  <1>5. (id # n + 1 => then = acts) /\ (id = n + 1 /\ acts = {} => OnePlaceIn(then))
    BY <1>2, <1>3, RepliesTyped, PlacesMore
  <1>6. OnceAtMost(id)
    BY DEF RepliesInv
  <1> HIDE DEF acts, then
  <1>7. CASE id = n + 1
    BY <1>1, <1>4, <1>5, <1>6, <1>7 DEF OnceAtMost, acts, then, n
  <1>8. CASE id # n + 1
    BY <1>1, <1>4, <1>5, <1>6, <1>8 DEF OnceAtMost, acts, then, n
  <1> QED BY <1>7, <1>8

\* A request is replied to at once, given to the game thread, or dropped; a reply
\* that was queued is sent.
LEMMA OnRequestReplies ==
    ASSUME Inv, RepliesInv, OnRequest \/ OnReply
    PROVE  RepliesInv'
  <1> SUFFICES ASSUME NEW id \in Nat PROVE OnceAtMost(id)'
    BY DEF RepliesInv
  <1> DEFINE of == Action.arg
             job == [of |-> control, id |-> of]
             acts == PlacesOf(actions, ToReply(id))
             acts2 == PlacesOf(actions', ToReply(id))
             jobs == PlacesOf(game_tasks, ToCarryOut(id))
             jobs2 == PlacesOf(game_tasks', ToCarryOut(id))
  <1>1. /\ actions # << >> /\ actions' = Tail(actions) /\ UNCHANGED asked
        /\ Action.kind \in {"request", "reply"}
    BY DEF OnRequest, OnReply, Runs, Dequeued, Action
  <1>2. Action \in Actions /\ of \in Nat /\ Action \in ToReply(of)
    BY <1>1, HeadAndTail DEF Inv, ToReply
  <1>3. \/ UNCHANGED <<game_tasks, replies>>
        \/ UNCHANGED game_tasks /\ replies' = [replies EXCEPT ![of] = @ + 1]
        \/ UNCHANGED replies /\ game_tasks' = Append(game_tasks, job)
    BY DEF OnRequest, OnReply, Reply
  <1>4. /\ acts = {} => acts2 = {}
        /\ OnePlaceIn(acts) => OnePlaceIn(acts2)
        /\ id = of => acts # {} /\ (OnePlaceIn(acts) => acts2 = {})
    BY <1>1, <1>2, RepliesTyped, PlacesLess DEF Action
  <1>5. job \in Tasks /\ (job \in ToCarryOut(id) <=> id = of)
    BY <1>2, RepliesTyped DEF Tasks, ToCarryOut
  <1> HIDE DEF job
  <1>6. \/ UNCHANGED <<game_tasks, replies>>
        \/ UNCHANGED game_tasks /\ replies' = [replies EXCEPT ![of] = @ + 1]
        \/ /\ UNCHANGED replies
           /\ id # of => jobs2 = jobs
           /\ id = of /\ jobs = {} => OnePlaceIn(jobs2)
    <2>1. ASSUME game_tasks' = Append(game_tasks, job)
          PROVE  (id # of => jobs2 = jobs) /\ (id = of /\ jobs = {} => OnePlaceIn(jobs2))
      BY <1>5, <2>1, RepliesTyped, PlacesMore
    <2> QED BY <1>3, <2>1
  <1>7. /\ Replied(id) \in Nat /\ Len(asked) \in Nat
        /\ id # of => Replied(id)' = Replied(id)
        /\ Replied(id)' \in {Replied(id), Replied(id) + 1}
        /\ UNCHANGED replies => Replied(id)' = Replied(id)
    <2>1. replies \in [Requests -> Nat]
      BY DEF Inv, LinkTypeOK
    <2> QED BY <1>3, <2>1, RepliesTyped DEF Replied, Requests
  <1>8. OnceAtMost(id)
    BY DEF RepliesInv
  <1> HIDE DEF of, acts, acts2, jobs, jobs2
  <1>9. CASE id = of
    BY <1>1, <1>4, <1>6, <1>7, <1>8, <1>9 DEF OnceAtMost, acts, acts2, jobs, jobs2, OnePlaceIn
  <1>10. CASE id # of
    BY <1>1, <1>4, <1>6, <1>7, <1>8, <1>10 DEF OnceAtMost, acts, acts2, jobs, jobs2, OnePlaceIn
  <1> QED BY <1>9, <1>10

\* The game thread passes what it has carried out back to the Scheduler.
LEMMA RunTaskReplies ==
    ASSUME Inv, RepliesInv, RunTask
    PROVE  RepliesInv'
  <1> SUFFICES ASSUME NEW id \in Nat PROVE OnceAtMost(id)'
    BY DEF RepliesInv
  <1> DEFINE work == Head(game_tasks)
             a == [kind |-> "reply", of |-> control, arg |-> work.id]
             acts == PlacesOf(actions, ToReply(id))
             acts2 == PlacesOf(actions', ToReply(id))
             jobs == PlacesOf(game_tasks, ToCarryOut(id))
             jobs2 == PlacesOf(game_tasks', ToCarryOut(id))
  <1>1. game_tasks # << >> /\ game_tasks' = Tail(game_tasks) /\ UNCHANGED <<asked, replies>>
    BY DEF RunTask
  <1>2. actions' = actions \/ actions' = Append(actions, a)
    BY DEF RunTask, Queue
  <1>3. work \in Tasks /\ work.id \in Nat
    <2>1. \A T : game_tasks \in Seq(T) => Head(game_tasks) \in T
      BY <1>1
    <2> QED BY <2>1, RepliesTyped DEF Tasks
  <1>4. work \in ToCarryOut(id) <=> id = work.id
    BY <1>3 DEF ToCarryOut
  <1>5. /\ jobs = {} => jobs2 = {}
        /\ OnePlaceIn(jobs) => OnePlaceIn(jobs2)
        /\ id = work.id => jobs # {} /\ (OnePlaceIn(jobs) => jobs2 = {})
    BY <1>1, <1>4, RepliesTyped, PlacesLess
  <1>6. a \in Actions /\ (a \in ToReply(id) <=> id = work.id)
    BY <1>3, RepliesTyped DEF Actions, ToReply
  <1> HIDE DEF a, work
  <1>7. \/ acts2 = acts
        \/ id = work.id /\ (acts = {} => OnePlaceIn(acts2))
    <2>1. ASSUME actions' = Append(actions, a)
          PROVE  (id # work.id => acts2 = acts) /\ (id = work.id /\ acts = {} => OnePlaceIn(acts2))
      BY <1>6, <2>1, RepliesTyped, PlacesMore
    <2>2. actions' = actions => acts2 = acts
      OBVIOUS
    <2> QED BY <1>2, <2>1, <2>2
  <1>8. Replied(id)' = Replied(id) /\ Len(asked)' = Len(asked)
    BY <1>1 DEF Replied
  <1>9. OnceAtMost(id)
    BY DEF RepliesInv
  <1> HIDE DEF acts, acts2, jobs, jobs2
  <1> QED BY <1>5, <1>7, <1>8, <1>9 DEF OnceAtMost, acts, acts2, jobs, jobs2

LEMMA RepliesStep == ASSUME Chosen PROVE Inv /\ RepliesInv /\ [LinkNext]_linkVars => RepliesInv'
  <1> SUFFICES ASSUME Inv, RepliesInv, [LinkNext]_linkVars PROVE RepliesInv'
    OBVIOUS
  <1>1. ASSUME NEW kind \in {"connected", "lost", "mode", "tell"}, NEW of \in Nat, NEW arg \in Nat,
               actions' = Append(actions, [kind |-> kind, of |-> of, arg |-> arg]),
               UNCHANGED requested
        PROVE  RepliesInv'
    <2> DEFINE a == [kind |-> kind, of |-> of, arg |-> arg]
    <2>1. a \in Actions /\ a.kind \notin {"request", "reply"}
      BY DEF Actions
    <2> HIDE DEF a
    <2> QED BY <1>1, <2>1, OthersReply DEF a
  <1>2. ASSUME actions' = actions \/ (actions # << >> /\ actions' = Tail(actions)),
               UNCHANGED requested
        PROVE  RepliesInv'
    BY <1>2, OthersReply
  <1>3. connection \in Nat /\ connection + 1 \in Nat /\ control \in Nat /\ 0 \in Nat
    BY RepliesTyped
  <1>4. CASE Connect
    BY <1>1, <1>3, <1>4 DEF Connect, Queue
  <1>5. CASE Disconnect
    BY <1>1, <1>2, <1>3, <1>5 DEF Disconnect, Queue
  <1>6. ASSUME NEW m \in RiderModes, playModeFromRider(m) PROVE RepliesInv'
    BY <1>1, <1>3, <1>6 DEF playModeFromRider, Queue, Chosen
  <1>7. CASE OnConnected \/ OnLost \/ OnTell \/ OnMode
    BY <1>2, <1>7 DEF OnConnected, OnLost, OnTell, OnMode, Runs, Dequeued
  <1>8. ASSUME NEW thread \in Threads, Report(thread) PROVE RepliesInv'
    <2>1. change[thread].mode \in Nat
      BY DEF Inv, LinkTypeOK
    <2> QED BY <1>1, <1>2, <1>3, <1>8, <2>1 DEF Report, Queue
  <1>9. CASE (\E thread \in Threads : RetrieveSettings(thread)) \/ (\E new \in UserSettings : Edit(new))
             \/ Constructor \/ UNCHANGED linkVars
    BY <1>2, <1>9 DEF RetrieveSettings, Edit, Constructor, InitialRead, InitialStore, InitialTell,
                      linkVars
  <1>10. CASE Request \/ OnRequest \/ OnReply \/ RunTask
    BY <1>10, RequestReplies, OnRequestReplies, RunTaskReplies
  <1> QED BY <1>4, <1>5, <1>6, <1>7, <1>8, <1>9, <1>10 DEF LinkNext, Scheduler, Changing

LEMMA RepliesInit == LinkInit => RepliesInv
  <1> SUFFICES ASSUME LinkInit, NEW id \in Nat PROVE OnceAtMost(id)
    BY DEF RepliesInv
  <1>1. actions = << >> /\ game_tasks = << >> /\ Replied(id) = 0
    BY DEF LinkInit, Replied
  <1>2. \A M : PlacesOf(<< >>, M) = {}
    BY DEF PlacesOf
  <1> QED BY <1>1, <1>2 DEF OnceAtMost, OnePlaceIn

LEMMA RepliedByInvariant == RepliesInv => RepliedOnce
  <1> SUFFICES ASSUME RepliesInv, NEW id \in Requests PROVE replies[id] <= 1
    BY DEF RepliedOnce
  <1>1. id \in Nat
    BY DEF Requests
  <1> QED BY <1>1 DEF RepliesInv, OnceAtMost, Replied

\* RiderGameControl.cpp:282-305.  RepliedOnce: whatever its command does, on whichever
\* thread, and whenever its connection ends, no request is replied to twice.
THEOREM NoSecondReply == ASSUME Chosen PROVE LinkSpec => []RepliedOnce
  <1> QED BY InvInit, InvStep, RepliesInit, RepliesStep, RepliedByInvariant, PTL DEF LinkSpec

-----------------------------------------------------------------------------
(* An entity gets what was dispatched to it, once and, on the default       *)
(* scheduler, in order, for any number of messages.  The points are that a  *)
(* message is in one place only on its way from dispatch to the entity, and *)
(* that to each message kept in the Mq belongs a queued action of its own,  *)
(* so that what is put aside with them is forwarded: only what comes when   *)
(* the Mq has been moved out, and is not erased yet, is lost.               *)

BrokerAction == [kind : {"drain", "invoke"}, msg : Nat]
DrainAction(erased) == [kind |-> "drain", msg |-> erased]
InvokeAction(msg) == [kind |-> "invoke", msg |-> msg]

\* pos tells for each kept message which action will take it.  In order, the actions that
\* carry a message themselves lie where it belongs among the kept ones.
Takes(pos, kept, acts, erased, inOrder) ==
    /\ pos \in [1 .. Len(kept) -> 1 .. Len(acts)]
    /\ \A k \in 1 .. Len(kept) : acts[pos[k]] = DrainAction(erased)
    /\ \A j, k \in 1 .. Len(kept) : j < k => pos[j] < pos[k]
    /\ \A i \in 1 .. Len(acts) :
           acts[i] = DrainAction(erased) => \E k \in 1 .. Len(kept) : pos[k] = i
    /\ inOrder =>
           \A i \in 1 .. Len(acts), k \in 1 .. Len(kept) : acts[i].kind = "invoke" =>
               /\ i < pos[k] => acts[i].msg < kept[k]
               /\ pos[k] < i => kept[k] < acts[i].msg

Awaited(kept, acts, erased, inOrder) ==
    \E pos \in [1 .. Len(kept) -> 1 .. Len(acts)] : Takes(pos, kept, acts, erased, inOrder)

InOrder == wire_scheduler = "default"

\* As long as no freed Mq was used, the kept messages will be taken.
EachIsTaken ==
    ~undefined =>
        /\ drain.step # "erase" =>
               Awaited(broker.default_messages, default_actions, broker.erased, InOrder)
        /\ \A i \in 1 .. Len(default_actions) :
               default_actions[i].kind = "drain" => default_actions[i].msg <= broker.erased
        /\ broker.exists /\ drain.step \notin {"look", "move", "erase"} => Len(broker.default_messages) # 0
        /\ Len(broker.default_messages) # 0 \/ Len(broker.custom_messages) # 0 => broker.exists

\* Which places there are for a scheduler, and when.
PlacesUsed ==
    /\ InOrder => /\ Len(own_actions) = 0 /\ Len(drain.forward) = 0
                  /\ Len(broker.custom_messages) = 0 /\ swept = {}
    /\ ~InOrder => \A i \in 1 .. Len(default_actions) : default_actions[i].kind = "drain"
    /\ drain.step \notin {"erase", "forward"} => Len(drain.forward) = 0
    /\ drain.step = "erase" =>
           \A i \in 1 .. Len(broker.custom_messages) : broker.custom_messages[i] \in swept

Rising(w) == \A j, k \in 1 .. Len(w) : j < k => w[j] < w[k]
Before(v, w) == \A j \in 1 .. Len(v), k \in 1 .. Len(w) : v[j] < w[k]

\* The messages that actions carry rise, and come after those in v.
Carried(v, acts, last) ==
    /\ \A i, j \in 1 .. Len(acts) :
           i < j /\ acts[i].kind = "invoke" /\ acts[j].kind = "invoke"
               => acts[i].msg < acts[j].msg
    /\ \A i \in 1 .. Len(acts) : acts[i].kind = "invoke" =>
           acts[i].msg \in 1 .. last /\ \A j \in 1 .. Len(v) : v[j] < acts[i].msg

\* On the default scheduler the messages on their way are later ones.
DefaultInOrder ==
    InOrder =>
        /\ Rising(executed)
        /\ ~undefined => /\ Rising(broker.default_messages)
                         /\ Before(executed, broker.default_messages)
                         /\ Carried(executed, default_actions, dispatches)

Stops == {"executed", "own", "forward", "custom", "kept"}
Stop == [p \in Stops |->
    CASE p = "executed" -> executed [] p = "own" -> own_actions [] p = "forward" -> drain.forward
      [] p = "custom" -> broker.custom_messages [] p = "kept" -> broker.default_messages]

\* No message is at two stops, or twice at one.
Apart(s) ==
    \A p, r \in Stops : \A i \in 1 .. Len(s[p]), j \in 1 .. Len(s[r]) :
        s[p][i] = s[r][j] => p = r /\ i = j

NumberedTo(s, last) == \A p \in Stops : \A i \in 1 .. Len(s[p]) : s[p][i] \in 1 .. last

OneStop ==
    dispatches <= MaxMessages /\ NumberedTo(Stop, dispatches) /\ (~InOrder => Apart(Stop))

\* What the entity is to hear it has got, or it is on its way.
Comes(m, s, acts) ==
    \/ \E p \in Stops \ {"kept"} : \E i \in 1 .. Len(s[p]) : s[p][i] = m
    \/ \E i \in 1 .. Len(acts) : acts[i] = InvokeAction(m)

HeardComes ==
    /\ entity = "advised" <=> subscription = "entity"
    /\ entity = "unadvised" => heard = {}
    /\ entity = "advised" /\ ~undefined => \A m \in heard \ swept : Comes(m, Stop, default_actions)

BrokerInv ==
    BrokerTypeOK /\ EachIsTaken /\ PlacesUsed /\ DefaultInOrder /\ OneStop /\ HeardComes

-----------------------------------------------------------------------------

\* What an element adds to a sequence, and what taking one leaves.
LEMMA Longer ==
    ASSUME NEW S, NEW w \in Seq(S), NEW x \in S
    PROVE  LET new == Append(w, x)
           IN  /\ new \in Seq(S) /\ Len(new) = Len(w) + 1 /\ Len(w) \in Nat /\ new # << >>
               /\ new[Len(w) + 1] = x /\ \A i \in 1 .. Len(w) : new[i] = w[i]
               /\ \A i \in 1 .. Len(w) + 1 : i \in 1 .. Len(w) \/ i = Len(w) + 1
               /\ Len(w) + 1 \in 1 .. Len(w) + 1 /\ \A i \in 1 .. Len(w) : i \in 1 .. Len(w) + 1
  <1>1. Append(w, x) # << >>
    BY AppendProperties
  <1>2. Len(w) \in Nat
    OBVIOUS
  <1>3. /\ Append(w, x) \in Seq(S) /\ Len(Append(w, x)) = Len(w) + 1
        /\ Append(w, x)[Len(w) + 1] = x /\ \A i \in 1 .. Len(w) : Append(w, x)[i] = w[i]
    BY AppendProperties
  <1> DEFINE n == Len(w)
  <1> HIDE DEF n
  <1>4. n \in Nat => /\ \A i \in 1 .. n + 1 : i \in 1 .. n \/ i = n + 1
                     /\ n + 1 \in 1 .. n + 1 /\ \A i \in 1 .. n : i \in 1 .. n + 1
    OBVIOUS
  <1> QED BY <1>1, <1>2, <1>3, <1>4 DEF n

LEMMA Shorter ==
    ASSUME NEW S, NEW w \in Seq(S), w # << >>
    PROVE  LET rest == Tail(w)
           IN  /\ rest \in Seq(S) /\ Len(rest) \in Nat /\ Len(w) = Len(rest) + 1
               /\ Head(w) = w[1] /\ Head(w) \in S /\ 1 \in 1 .. Len(w)
               /\ \A i \in 1 .. Len(rest) : rest[i] = w[i + 1] /\ i + 1 \in 1 .. Len(w)
               /\ \A i \in 1 .. Len(w) : i = 1 \/ (i - 1 \in 1 .. Len(rest) /\ rest[i - 1] = w[i])
  <1>1. /\ Tail(w) \in Seq(S) /\ Len(Tail(w)) = Len(w) - 1 /\ Head(w) \in S
        /\ \A i \in 1 .. Len(Tail(w)) : Tail(w)[i] = w[i + 1]
    BY HeadTailProperties
  <1>2. Len(w) \in Nat /\ Len(w) # 0 /\ Head(w) = w[1]
    BY EmptySeq
  <1> DEFINE n == Len(w)
             m == Len(Tail(w))
  <1>3. m = n - 1 /\ n \in Nat /\ n # 0
    BY <1>1, <1>2
  <1>4. \A i \in 1 .. m : Tail(w)[i] = w[i + 1]
    BY <1>1
  <1> HIDE DEF n, m
  <1>5. /\ m \in Nat /\ n = m + 1 /\ 1 \in 1 .. n
        /\ \A i \in 1 .. m : i + 1 \in 1 .. n
        /\ \A i \in 1 .. n : i = 1 \/ (i - 1 \in 1 .. m /\ (i - 1) + 1 = i)
    BY <1>3
  <1>6. \A i \in 1 .. n : i = 1 \/ (i - 1 \in 1 .. m /\ Tail(w)[i - 1] = w[i])
    BY <1>4, <1>5
  <1> QED BY <1>1, <1>2, <1>4, <1>5, <1>6 DEF n, m

-----------------------------------------------------------------------------
(* The actions and the kept messages.                                       *)

\* A message is kept together with an action that will take it.
LEMMA KeepOne ==
    ASSUME NEW D \in Seq(Nat), NEW A \in Seq(BrokerAction), NEW e \in Nat, NEW inOrder \in BOOLEAN,
           Awaited(D, A, e, inOrder), NEW m \in Nat,
           inOrder => \A i \in 1 .. Len(A) : A[i].kind = "invoke" => A[i].msg < m
    PROVE  Awaited(Append(D, m), Append(A, DrainAction(e)), e, inOrder)
  <1> DEFINE D2 == Append(D, m)
             A2 == Append(A, DrainAction(e))
             n == Len(D)
             l == Len(A)
  <1>1. DrainAction(e) \in BrokerAction /\ DrainAction(e).kind # "invoke"
    BY DEF DrainAction, BrokerAction
  <1>2. /\ Len(D2) = n + 1 /\ n \in Nat /\ D2[n + 1] = m /\ \A k \in 1 .. n : D2[k] = D[k]
        /\ \A k \in 1 .. n + 1 : k \in 1 .. n \/ k = n + 1
    BY Longer
  <1>3. /\ Len(A2) = l + 1 /\ l \in Nat /\ A2[l + 1] = DrainAction(e) /\ \A i \in 1 .. l : A2[i] = A[i]
        /\ \A i \in 1 .. l + 1 : i \in 1 .. l \/ i = l + 1
        /\ l + 1 \in 1 .. l + 1 /\ \A i \in 1 .. l : i \in 1 .. l + 1
    BY <1>1, Longer
  <1> HIDE DEF D2, A2
  <1>4. PICK pos \in [1 .. n -> 1 .. l] : Takes(pos, D, A, e, inOrder)
    BY DEF Awaited
  <1> DEFINE new == [k \in 1 .. n + 1 |-> IF k = n + 1 THEN l + 1 ELSE pos[k]]
  <1>5. /\ \A k \in 1 .. n : pos[k] \in 1 .. l /\ A[pos[k]] = DrainAction(e)
        /\ \A j, k \in 1 .. n : j < k => pos[j] < pos[k]
        /\ \A i \in 1 .. l : A[i] = DrainAction(e) => \E k \in 1 .. n : pos[k] = i
        /\ inOrder =>
               \A i \in 1 .. l, k \in 1 .. n : A[i].kind = "invoke" =>
                   /\ i < pos[k] => A[i].msg < D[k]
                   /\ pos[k] < i => D[k] < A[i].msg
    BY <1>4 DEF Takes
  <1> HIDE DEF n, l
  <1>6. n + 1 \in 1 .. n + 1 /\ \A k \in 1 .. n : k \in 1 .. n + 1 /\ k # n + 1 /\ k < n + 1
    BY <1>2
  <1>7. new[n + 1] = l + 1 /\ \A k \in 1 .. n : new[k] = pos[k]
    BY <1>6
  <1>8. new \in [1 .. n + 1 -> 1 .. l + 1]
    BY <1>2, <1>3, <1>5
  <1> HIDE DEF new
  <1>9. ASSUME NEW k \in 1 .. n + 1 PROVE A2[new[k]] = DrainAction(e)
    <2>1. CASE k = n + 1
      BY <1>3, <1>7, <2>1
    <2>2. CASE k # n + 1
      <3>1. k \in 1 .. n
        BY <1>2, <2>2
      <3>2. new[k] = pos[k] /\ pos[k] \in 1 .. l
        BY <1>5, <1>7, <3>1
      <3> QED BY <1>3, <1>5, <3>1, <3>2
    <2> QED BY <2>1, <2>2
  <1>10. ASSUME NEW j \in 1 .. n + 1, NEW k \in 1 .. n + 1, j < k PROVE new[j] < new[k]
    <2>1. j \in 1 .. n
      BY <1>2, <1>10
    <2>2. pos[j] < l + 1
      BY <1>3, <1>5, <2>1
    <2> QED BY <1>2, <1>5, <1>7, <1>10, <2>1, <2>2
  <1>11. ASSUME NEW i \in 1 .. l + 1, A2[i] = DrainAction(e) PROVE \E k \in 1 .. n + 1 : new[k] = i
    BY <1>3, <1>5, <1>6, <1>7, <1>11
  <1>12. ASSUME inOrder, NEW i \in 1 .. l + 1, NEW k \in 1 .. n + 1, A2[i].kind = "invoke"
         PROVE  /\ i < new[k] => A2[i].msg < D2[k]
                /\ new[k] < i => D2[k] < A2[i].msg
    <2>1. i \in 1 .. l /\ A2[i] = A[i]
      BY <1>1, <1>3, <1>12
    <2>2. i < l + 1 /\ ~(l + 1 < i)
      BY <1>3, <2>1
    <2>3. CASE k = n + 1
      <3>1. A[i].msg < m
        BY <1>12, <2>1 DEF l
      <3> QED BY <1>2, <1>7, <2>1, <2>2, <2>3, <3>1
    <2>4. CASE k \in 1 .. n
      BY <1>2, <1>5, <1>7, <1>12, <2>1, <2>4
    <2> QED BY <1>2, <2>3, <2>4
  <1>13. new \in [1 .. Len(D2) -> 1 .. Len(A2)]
    BY <1>2, <1>3, <1>8
  <1>14. Takes(new, D2, A2, e, inOrder)
    BY <1>2, <1>3, <1>9, <1>10, <1>11, <1>12, <1>13 DEF Takes
  <1>15. Awaited(D2, A2, e, inOrder)
    BY <1>13, <1>14 DEF Awaited
  <1> QED BY <1>15 DEF D2, A2

\* An action that carries a later message than all that are kept.
LEMMA CarryOne ==
    ASSUME NEW D \in Seq(Nat), NEW A \in Seq(BrokerAction), NEW e \in Nat, NEW inOrder \in BOOLEAN,
           Awaited(D, A, e, inOrder), NEW m \in Nat,
           inOrder => \A k \in 1 .. Len(D) : D[k] < m
    PROVE  Awaited(D, Append(A, InvokeAction(m)), e, inOrder)
  <1> DEFINE A2 == Append(A, InvokeAction(m))
             n == Len(D)
             l == Len(A)
  <1>1. InvokeAction(m) \in BrokerAction /\ InvokeAction(m).msg = m /\ InvokeAction(m) # DrainAction(e)
    BY DEF DrainAction, InvokeAction, BrokerAction
  <1>2. /\ Len(A2) = l + 1 /\ l \in Nat /\ A2[l + 1] = InvokeAction(m) /\ \A i \in 1 .. l : A2[i] = A[i]
        /\ \A i \in 1 .. l + 1 : i \in 1 .. l \/ i = l + 1
        /\ \A i \in 1 .. l : i \in 1 .. l + 1
    BY <1>1, Longer
  <1> HIDE DEF A2
  <1>3. PICK pos \in [1 .. n -> 1 .. l] : Takes(pos, D, A, e, inOrder)
    BY DEF Awaited
  <1>4. /\ \A k \in 1 .. n : pos[k] \in 1 .. l /\ A[pos[k]] = DrainAction(e)
        /\ \A j, k \in 1 .. n : j < k => pos[j] < pos[k]
        /\ \A i \in 1 .. l : A[i] = DrainAction(e) => \E k \in 1 .. n : pos[k] = i
        /\ inOrder =>
               \A i \in 1 .. l, k \in 1 .. n : A[i].kind = "invoke" =>
                   /\ i < pos[k] => A[i].msg < D[k]
                   /\ pos[k] < i => D[k] < A[i].msg
    BY <1>3 DEF Takes
  <1>5. pos \in [1 .. n -> 1 .. Len(A2)]
    BY <1>2, <1>3, <1>4
  <1>6. ASSUME inOrder, NEW k \in 1 .. n PROVE ~(l + 1 < pos[k]) /\ D[k] < A2[l + 1].msg
    <2>1. pos[k] \in 1 .. l
      BY <1>4
    <2>2. D[k] < m
      BY <1>6
    <2> HIDE DEF n, l
    <2> QED BY <1>1, <1>2, <2>1, <2>2
  <1> HIDE DEF n, l
  <1>7. Len(A2) = l + 1 /\ Len(D) = n
    BY <1>2 DEF n
  <1>8. \A k \in 1 .. n : A2[pos[k]] = DrainAction(e)
    BY <1>2, <1>4
  <1>9. \A i \in 1 .. l + 1 : A2[i] = DrainAction(e) => \E k \in 1 .. n : pos[k] = i
    BY <1>1, <1>2, <1>4
  <1>10. ASSUME inOrder, NEW i \in 1 .. l + 1, NEW k \in 1 .. n, A2[i].kind = "invoke"
         PROVE  /\ i < pos[k] => A2[i].msg < D[k]
                /\ pos[k] < i => D[k] < A2[i].msg
    BY <1>2, <1>4, <1>6, <1>10
  <1>11. Takes(pos, D, A2, e, inOrder)
    BY <1>4, <1>5, <1>7, <1>8, <1>9, <1>10 DEF Takes
  <1>12. Awaited(D, A2, e, inOrder)
    BY <1>5, <1>7, <1>11 DEF Awaited
  <1> QED BY <1>12 DEF A2

\* The next action, if it takes a message, takes the first one that is kept.
LEMMA TakeOne ==
    ASSUME NEW D \in Seq(Nat), NEW A \in Seq(BrokerAction), NEW e \in Nat, NEW inOrder \in BOOLEAN,
           Awaited(D, A, e, inOrder), A # << >>, A[1] = DrainAction(e)
    PROVE  /\ D # << >> /\ Awaited(Tail(D), Tail(A), e, inOrder)
           /\ inOrder => \A i \in 1 .. Len(A) : A[i].kind = "invoke" => D[1] < A[i].msg
  <1> DEFINE D2 == Tail(D)
             A2 == Tail(A)
             n == Len(D2)
             l == Len(A2)
  <1>1. /\ l \in Nat /\ Len(A) = l + 1 /\ 1 \in 1 .. Len(A)
        /\ \A i \in 1 .. l : A2[i] = A[i + 1] /\ i + 1 \in 1 .. Len(A)
        /\ \A i \in 1 .. Len(A) : i = 1 \/ (i - 1 \in 1 .. l /\ A2[i - 1] = A[i])
    BY Shorter
  <1>2. PICK pos \in [1 .. Len(D) -> 1 .. Len(A)] : Takes(pos, D, A, e, inOrder)
    BY DEF Awaited
  <1>3. PICK k1 \in 1 .. Len(D) : pos[k1] = 1
    BY <1>1, <1>2 DEF Takes
  <1>4. D # << >> /\ Len(D) \in Nat
    BY <1>3
  <1>5. /\ n \in Nat /\ Len(D) = n + 1 /\ 1 \in 1 .. Len(D)
        /\ \A i \in 1 .. n : D2[i] = D[i + 1] /\ i + 1 \in 1 .. Len(D)
        /\ \A i \in 1 .. Len(D) : i = 1 \/ (i - 1 \in 1 .. n /\ D2[i - 1] = D[i])
    BY <1>4, Shorter
  <1>6. /\ \A k \in 1 .. Len(D) : pos[k] \in 1 .. Len(A) /\ A[pos[k]] = DrainAction(e)
        /\ \A j, k \in 1 .. Len(D) : j < k => pos[j] < pos[k]
        /\ \A i \in 1 .. Len(A) : A[i] = DrainAction(e) => \E k \in 1 .. Len(D) : pos[k] = i
        /\ inOrder =>
               \A i \in 1 .. Len(A), k \in 1 .. Len(D) : A[i].kind = "invoke" =>
                   /\ i < pos[k] => A[i].msg < D[k]
                   /\ pos[k] < i => D[k] < A[i].msg
    BY <1>2 DEF Takes
  <1> HIDE DEF n, l, D2, A2
  <1>7. k1 = 1
    <2> SUFFICES ASSUME k1 # 1 PROVE FALSE
      OBVIOUS
    <2>1. 1 < k1
      BY <1>5
    <2>2. pos[1] < 1
      BY <1>3, <1>5, <1>6, <2>1
    <2> QED BY <1>1, <1>5, <1>6, <2>2
  <1>8. \A k \in 1 .. Len(D) : k # 1 => 1 < pos[k]
    <2> SUFFICES ASSUME NEW k \in 1 .. Len(D), k # 1 PROVE 1 < pos[k]
      OBVIOUS
    <2>1. 1 < k
      BY <1>5
    <2> QED BY <1>3, <1>5, <1>6, <1>7, <2>1
  <1> DEFINE new == [k \in 1 .. n |-> pos[k + 1] - 1]
  <1>9. \A k \in 1 .. n : k + 1 \in 1 .. Len(D) /\ k + 1 # 1
    BY <1>5
  <1>10. \A k \in 1 .. n : pos[k + 1] \in 1 .. l + 1 /\ 1 < pos[k + 1]
    BY <1>1, <1>6, <1>8, <1>9
  <1>11. \A k \in 1 .. n : /\ pos[k + 1] - 1 \in 1 .. l
                          /\ \A i \in 1 .. l : /\ i < pos[k + 1] - 1 => i + 1 < pos[k + 1]
                                               /\ pos[k + 1] - 1 < i => pos[k + 1] < i + 1
    <2>1. ASSUME NEW x \in 1 .. l + 1, 1 < x
          PROVE  /\ x - 1 \in 1 .. l
                 /\ \A i \in 1 .. l : (i < x - 1 => i + 1 < x) /\ (x - 1 < i => x < i + 1)
      BY <1>1, <2>1
    <2> QED BY <1>10, <2>1
  <1>12. new \in [1 .. n -> 1 .. l] /\ \A k \in 1 .. n : new[k] = pos[k + 1] - 1
    BY <1>11
  <1> HIDE DEF new
  <1>13. \A k \in 1 .. n : A2[new[k]] = DrainAction(e)
    <2> SUFFICES ASSUME NEW k \in 1 .. n PROVE A2[new[k]] = DrainAction(e)
      OBVIOUS
    <2>1. pos[k + 1] \in 1 .. Len(A) /\ pos[k + 1] # 1
      BY <1>1, <1>10
    <2>2. k + 1 \in 1 .. Len(D) /\ A[pos[k + 1]] = DrainAction(e)
      BY <1>5, <1>6
    <2>3. new[k] \in 1 .. l /\ new[k] + 1 = pos[k + 1]
      <3>1. new[k] \in 1 .. l /\ new[k] = pos[k + 1] - 1
        BY <1>12
      <3>2. pos[k + 1] \in Int
        BY <2>1
      <3> QED BY <3>1, <3>2
    <2>4. A2[new[k]] = A[new[k] + 1]
      BY <1>1, <2>3
    <2> QED BY <2>2, <2>3, <2>4
  <1>14. ASSUME NEW j \in 1 .. n, NEW k \in 1 .. n, j < k PROVE new[j] < new[k]
    <2>1. j + 1 < k + 1
      BY <1>14, <1>5
    <2>2. pos[j + 1] < pos[k + 1]
      BY <1>6, <1>9, <2>1
    <2>3. \A x, y \in 1 .. l + 1 : x < y => x - 1 < y - 1
      BY <1>1
    <2>4. pos[j + 1] - 1 < pos[k + 1] - 1
      BY <1>10, <2>2, <2>3
    <2> QED BY <1>12, <2>4
  <1>15. ASSUME NEW i \in 1 .. l, A2[i] = DrainAction(e) PROVE \E k \in 1 .. n : new[k] = i
    <2>1. i + 1 \in 1 .. Len(A) /\ A[i + 1] = DrainAction(e) /\ i + 1 # 1
      BY <1>1, <1>15
    <2>2. PICK k \in 1 .. Len(D) : pos[k] = i + 1
      BY <1>6, <2>1
    <2>3. k # 1 /\ k - 1 \in 1 .. n /\ (k - 1) + 1 = k
      <3>1. k # 1
        BY <1>3, <1>7, <2>1, <2>2
      <3>2. k - 1 \in 1 .. n
        BY <1>5, <3>1
      <3>3. k \in Int
        BY <2>2
      <3> QED BY <3>1, <3>2, <3>3
    <2>4. new[k - 1] = i
      BY <1>1, <1>12, <2>2, <2>3
    <2> QED BY <2>3, <2>4
  <1>16. ASSUME inOrder, NEW i \in 1 .. l, NEW k \in 1 .. n, A2[i].kind = "invoke"
         PROVE  /\ i < new[k] => A2[i].msg < D2[k]
                /\ new[k] < i => D2[k] < A2[i].msg
    <2>1. A2[i] = A[i + 1] /\ i + 1 \in 1 .. Len(A) /\ D2[k] = D[k + 1]
      BY <1>1, <1>5
    <2>2. /\ A[i + 1].kind = "invoke" /\ k + 1 \in 1 .. Len(D)
      BY <1>5, <1>16, <2>1
    <2>3. /\ i + 1 < pos[k + 1] => A[i + 1].msg < D[k + 1]
          /\ pos[k + 1] < i + 1 => D[k + 1] < A[i + 1].msg
      BY <1>6, <1>9, <1>16, <2>1, <2>2
    <2>4. (i < new[k] => i + 1 < pos[k + 1]) /\ (new[k] < i => pos[k + 1] < i + 1)
      BY <1>11, <1>12
    <2> QED BY <2>1, <2>3, <2>4
  <1>17. Takes(new, D2, A2, e, inOrder)
    BY <1>12, <1>13, <1>14, <1>15, <1>16 DEF Takes, n, l
  <1>18. Awaited(D2, A2, e, inOrder)
    BY <1>12, <1>17 DEF Awaited, n, l
  <1>19. ASSUME inOrder, NEW i \in 1 .. Len(A), A[i].kind = "invoke" PROVE D[1] < A[i].msg
    <2>1. i # 1
      BY <1>19 DEF DrainAction
    <2>2. pos[1] < i
      BY <1>1, <1>3, <1>7, <2>1
    <2> QED BY <1>5, <1>6, <1>19, <2>2
  <1> QED BY <1>4, <1>18, <1>19 DEF D2, A2

\* The next action, if it carries a message, carries one before those that are kept.
LEMMA CarriedOne ==
    ASSUME NEW D \in Seq(Nat), NEW A \in Seq(BrokerAction), NEW e \in Nat, NEW inOrder \in BOOLEAN,
           Awaited(D, A, e, inOrder), A # << >>, A[1].kind = "invoke"
    PROVE  /\ Awaited(D, Tail(A), e, inOrder)
           /\ inOrder => \A k \in 1 .. Len(D) : A[1].msg < D[k]
  <1> DEFINE A2 == Tail(A)
             l == Len(A2)
             n == Len(D)
  <1>1. /\ l \in Nat /\ Len(A) = l + 1 /\ 1 \in 1 .. Len(A)
        /\ \A i \in 1 .. l : A2[i] = A[i + 1] /\ i + 1 \in 1 .. Len(A)
        /\ \A i \in 1 .. Len(A) : i = 1 \/ (i - 1 \in 1 .. l /\ A2[i - 1] = A[i])
    BY Shorter
  <1>2. PICK pos \in [1 .. n -> 1 .. Len(A)] : Takes(pos, D, A, e, inOrder)
    BY DEF Awaited
  <1>3. /\ \A k \in 1 .. n : pos[k] \in 1 .. Len(A) /\ A[pos[k]] = DrainAction(e)
        /\ \A j, k \in 1 .. n : j < k => pos[j] < pos[k]
        /\ \A i \in 1 .. Len(A) : A[i] = DrainAction(e) => \E k \in 1 .. n : pos[k] = i
        /\ inOrder =>
               \A i \in 1 .. Len(A), k \in 1 .. n : A[i].kind = "invoke" =>
                   /\ i < pos[k] => A[i].msg < D[k]
                   /\ pos[k] < i => D[k] < A[i].msg
    BY <1>2 DEF Takes
  <1> HIDE DEF n, l, A2
  <1>4. \A k \in 1 .. n : pos[k] # 1
    BY <1>3 DEF DrainAction
  <1>5. \A k \in 1 .. n : /\ pos[k] - 1 \in 1 .. l /\ (pos[k] - 1) + 1 = pos[k] /\ 1 < pos[k]
                         /\ \A i \in 1 .. l : /\ i < pos[k] - 1 => i + 1 < pos[k]
                                              /\ pos[k] - 1 < i => pos[k] < i + 1
    <2>1. ASSUME NEW x \in 1 .. l + 1, x # 1
          PROVE  /\ x - 1 \in 1 .. l /\ (x - 1) + 1 = x /\ 1 < x
                 /\ \A i \in 1 .. l : /\ i < x - 1 => i + 1 < x
                                      /\ x - 1 < i => x < i + 1
      BY <1>1, <2>1
    <2>2. \A k \in 1 .. n : pos[k] \in 1 .. l + 1 /\ pos[k] # 1
      BY <1>1, <1>3, <1>4
    <2> QED BY <2>1, <2>2
  <1> DEFINE new == [k \in 1 .. n |-> pos[k] - 1]
  <1>6. new \in [1 .. n -> 1 .. l] /\ \A k \in 1 .. n : new[k] = pos[k] - 1
    BY <1>5
  <1> HIDE DEF new
  <1>7. \A k \in 1 .. n : A2[new[k]] = DrainAction(e)
    BY <1>1, <1>3, <1>5, <1>6
  <1>8. \A j, k \in 1 .. n : j < k => new[j] < new[k]
    BY <1>1, <1>3, <1>6
  <1>9. ASSUME NEW i \in 1 .. l, A2[i] = DrainAction(e) PROVE \E k \in 1 .. n : new[k] = i
    <2>1. PICK k \in 1 .. n : pos[k] = i + 1
      BY <1>1, <1>3, <1>9
    <2>2. new[k] = (i + 1) - 1
      BY <1>6, <2>1
    <2>3. (i + 1) - 1 = i
      OBVIOUS
    <2> QED BY <2>2, <2>3
  <1>10. ASSUME inOrder, NEW i \in 1 .. l, NEW k \in 1 .. n, A2[i].kind = "invoke"
         PROVE  /\ i < new[k] => A2[i].msg < D[k]
                /\ new[k] < i => D[k] < A2[i].msg
    <2>1. A2[i] = A[i + 1] /\ i + 1 \in 1 .. Len(A)
      BY <1>1
    <2>2. (i < new[k] => i + 1 < pos[k]) /\ (new[k] < i => pos[k] < i + 1)
      BY <1>5, <1>6
    <2> QED BY <1>3, <1>10, <2>1, <2>2
  <1>11. Takes(new, D, A2, e, inOrder)
    BY <1>6, <1>7, <1>8, <1>9, <1>10 DEF Takes, n, l
  <1>12. Awaited(D, A2, e, inOrder)
    BY <1>6, <1>11 DEF Awaited, n, l
  <1>13. ASSUME inOrder, NEW k \in 1 .. n PROVE A[1].msg < D[k]
    BY <1>1, <1>3, <1>5, <1>13
  <1> QED BY <1>12, <1>13 DEF A2, n

\* Nothing is kept in an Mq that is not there, and no action waits for it.
LEMMA NothingKept ==
    ASSUME NEW A \in Seq(BrokerAction), NEW e \in Nat, NEW inOrder \in BOOLEAN,
           \A i \in 1 .. Len(A) : A[i] # DrainAction(e)
    PROVE  Awaited(<< >>, A, e, inOrder)
  <1> DEFINE pos == [k \in 1 .. 0 |-> 0]
  <1>1. Len(<< >>) = 0 /\ 1 .. 0 = {} /\ pos \in [1 .. 0 -> 1 .. Len(A)]
    OBVIOUS
  <1> HIDE DEF pos
  <1>2. Takes(pos, << >>, A, e, inOrder)
    BY <1>1 DEF Takes
  <1> QED BY <1>1, <1>2 DEF Awaited

-----------------------------------------------------------------------------
(* The stops of a message.                                                  *)

Gain(s, p, m) == [s EXCEPT ![p] = Append(@, m)]
Lose(s, p) == [s EXCEPT ![p] = Tail(@)]
Nowhere(s, m) == \A p \in Stops : \A i \in 1 .. Len(s[p]) : s[p][i] # m

\* A message comes to a stop.
LEMMA Gained ==
    ASSUME NEW s \in [Stops -> Seq(Nat)], NEW p \in Stops, NEW m \in Nat
    PROVE  LET new == Gain(s, p, m)
           IN  /\ new \in [Stops -> Seq(Nat)]
               /\ \A last \in Nat : NumberedTo(s, last) /\ m \in 1 .. last => NumberedTo(new, last)
               /\ Apart(s) /\ Nowhere(s, m) => Apart(new)
               /\ \A A, x : Comes(x, s, A) \/ (p # "kept" /\ x = m) => Comes(x, new, A)
  <1> DEFINE new == Gain(s, p, m)
             n == Len(s[p])
  <1>1. \A r \in Stops : new[r] = IF r = p THEN Append(s[p], m) ELSE s[r]
    BY DEF Gain
  <1>2. /\ Append(s[p], m) \in Seq(Nat) /\ Len(Append(s[p], m)) = n + 1 /\ n \in Nat
        /\ Append(s[p], m)[n + 1] = m /\ \A i \in 1 .. n : Append(s[p], m)[i] = s[p][i]
        /\ \A i \in 1 .. n + 1 : i \in 1 .. n \/ i = n + 1
        /\ n + 1 \in 1 .. n + 1 /\ \A i \in 1 .. n : i \in 1 .. n + 1
    BY Longer
  <1>3. new \in [Stops -> Seq(Nat)]
    BY <1>2 DEF Gain
  <1>4. /\ Len(new[p]) = n + 1 /\ new[p][n + 1] = m
        /\ \A r \in Stops : \A i \in 1 .. Len(s[r]) : i \in 1 .. Len(new[r]) /\ new[r][i] = s[r][i]
        /\ \A r \in Stops : \A i \in 1 .. Len(new[r]) : i \in 1 .. Len(s[r]) \/ (r = p /\ i = n + 1)
    BY <1>1, <1>2
  <1>5. n + 1 \in 1 .. Len(new[p])
    BY <1>2, <1>4
  <1> HIDE DEF new, n
  <1>6. \A last \in Nat : NumberedTo(s, last) /\ m \in 1 .. last => NumberedTo(new, last)
    BY <1>4 DEF NumberedTo
  <1>7. ASSUME Apart(s), Nowhere(s, m) PROVE Apart(new)
    <2>1. \A r, o \in Stops : \A i \in 1 .. Len(s[r]), j \in 1 .. Len(s[o]) :
              s[r][i] = s[o][j] => r = o /\ i = j
      BY <1>7 DEF Apart
    <2>2. \A r \in Stops : \A i \in 1 .. Len(s[r]) : s[r][i] # m
      BY <1>7 DEF Nowhere
    <2> SUFFICES ASSUME NEW r \in Stops, NEW o \in Stops, NEW i \in 1 .. Len(new[r]),
                        NEW j \in 1 .. Len(new[o]), new[r][i] = new[o][j]
                 PROVE  r = o /\ i = j
      BY DEF Apart
    <2>3. (i \in 1 .. Len(s[r]) /\ new[r][i] = s[r][i]) \/ (r = p /\ i = n + 1 /\ new[r][i] = m)
      BY <1>4
    <2>4. (j \in 1 .. Len(s[o]) /\ new[o][j] = s[o][j]) \/ (o = p /\ j = n + 1 /\ new[o][j] = m)
      BY <1>4
    <2>5. CASE i \in 1 .. Len(s[r]) /\ new[r][i] = s[r][i]
      <3>1. new[o][j] # m
        BY <2>2, <2>5
      <3>2. j \in 1 .. Len(s[o]) /\ s[r][i] = s[o][j]
        BY <2>4, <2>5, <3>1
      <3> QED BY <2>1, <2>5, <3>2
    <2>6. CASE r = p /\ i = n + 1 /\ new[r][i] = m
      <3>1. ~(j \in 1 .. Len(s[o]) /\ new[o][j] = s[o][j])
        BY <2>2, <2>6
      <3> QED BY <2>4, <2>6, <3>1
    <2> QED BY <2>3, <2>5, <2>6
  <1>8. \A A, x : Comes(x, s, A) \/ (p # "kept" /\ x = m) => Comes(x, new, A)
    <2>1. ASSUME NEW A, NEW x, Comes(x, s, A) PROVE Comes(x, new, A)
      BY <1>4, <2>1 DEF Comes
    <2>2. ASSUME NEW A, NEW x, p # "kept", x = m PROVE Comes(x, new, A)
      BY <1>4, <1>5, <2>2 DEF Comes
    <2> QED BY <2>1, <2>2
  <1> QED BY <1>3, <1>6, <1>7, <1>8 DEF new

\* The first message leaves a stop.
LEMMA Left ==
    ASSUME NEW s \in [Stops -> Seq(Nat)], NEW p \in Stops, s[p] # << >>
    PROVE  LET new == Lose(s, p)
           IN  /\ new \in [Stops -> Seq(Nat)] /\ s[p][1] \in Nat
               /\ \A last \in Nat : NumberedTo(s, last) => NumberedTo(new, last) /\ s[p][1] \in 1 .. last
               /\ Apart(s) => Apart(new) /\ Nowhere(new, s[p][1])
               /\ \A A, x : Comes(x, s, A) /\ (x = s[p][1] => p = "kept") => Comes(x, new, A)
  <1> DEFINE new == Lose(s, p)
             n == Len(Tail(s[p]))
  <1>1. \A r \in Stops : new[r] = IF r = p THEN Tail(s[p]) ELSE s[r]
    BY DEF Lose
  <1>2. /\ Tail(s[p]) \in Seq(Nat) /\ n \in Nat /\ Len(s[p]) = n + 1 /\ 1 \in 1 .. Len(s[p])
        /\ Head(s[p]) = s[p][1] /\ Head(s[p]) \in Nat
        /\ \A i \in 1 .. n : Tail(s[p])[i] = s[p][i + 1] /\ i + 1 \in 1 .. Len(s[p])
        /\ \A i \in 1 .. Len(s[p]) : i = 1 \/ (i - 1 \in 1 .. n /\ Tail(s[p])[i - 1] = s[p][i])
    BY Shorter
  <1>3. new \in [Stops -> Seq(Nat)]
    BY <1>2 DEF Lose
  <1>4. /\ Len(new[p]) = n
        /\ \A r \in Stops : r # p => new[r] = s[r]
        /\ \A i \in 1 .. n : new[p][i] = s[p][i + 1]
        /\ \A i \in 1 .. Len(s[p]) : i = 1 \/ (i - 1 \in 1 .. n /\ new[p][i - 1] = s[p][i])
    BY <1>1, <1>2
  <1>5. /\ \A i \in 1 .. n : i + 1 \in 1 .. Len(s[p]) /\ i + 1 # 1
        /\ \A i, j \in 1 .. n : i + 1 = j + 1 => i = j
    BY <1>2
  <1> HIDE DEF new, n
  <1>6. \A last \in Nat : NumberedTo(s, last) => NumberedTo(new, last) /\ s[p][1] \in 1 .. last
    <2> SUFFICES ASSUME NEW last \in Nat, NumberedTo(s, last)
                 PROVE  NumberedTo(new, last) /\ s[p][1] \in 1 .. last
      OBVIOUS
    <2>1. \A r \in Stops : \A i \in 1 .. Len(s[r]) : s[r][i] \in 1 .. last
      BY DEF NumberedTo
    <2>2. ASSUME NEW r \in Stops, NEW i \in 1 .. Len(new[r]) PROVE new[r][i] \in 1 .. last
      <3>1. CASE r = p
        <4>1. i + 1 \in 1 .. Len(s[p]) /\ new[r][i] = s[p][i + 1]
          BY <1>4, <1>5, <3>1
        <4> QED BY <2>1, <4>1
      <3>2. CASE r # p
        BY <1>4, <2>1, <3>2
      <3> QED BY <3>1, <3>2
    <2> QED BY <1>2, <2>1, <2>2 DEF NumberedTo
  <1>7. ASSUME Apart(s) PROVE Apart(new) /\ Nowhere(new, s[p][1])
    <2>0. \A r, o \in Stops : \A i \in 1 .. Len(s[r]), j \in 1 .. Len(s[o]) :
              s[r][i] = s[o][j] => r = o /\ i = j
      BY <1>7 DEF Apart
    <2>1. ASSUME NEW r \in Stops, NEW i \in 1 .. Len(new[r])
          PROVE  LET k == IF r = p THEN i + 1 ELSE i
                 IN  k \in 1 .. Len(s[r]) /\ new[r][i] = s[r][k] /\ (r = p => k # 1)
      BY <1>4, <1>5
    <2>2. Apart(new)
      <3> SUFFICES ASSUME NEW r \in Stops, NEW o \in Stops, NEW i \in 1 .. Len(new[r]),
                          NEW j \in 1 .. Len(new[o]), new[r][i] = new[o][j]
                   PROVE  r = o /\ i = j
        BY DEF Apart
      <3> DEFINE k == IF r = p THEN i + 1 ELSE i
                 l == IF o = p THEN j + 1 ELSE j
      <3>1. k \in 1 .. Len(s[r]) /\ new[r][i] = s[r][k] /\ l \in 1 .. Len(s[o]) /\ new[o][j] = s[o][l]
        BY <2>1
      <3>2. (r = p => k = i + 1) /\ (r # p => k = i) /\ (o = p => l = j + 1) /\ (o # p => l = j)
        OBVIOUS
      <3> HIDE DEF k, l
      <3>3. r = o /\ k = l
        <4>1. s[r][k] = s[o][l]
          BY <3>1
        <4> QED BY <2>0, <3>1, <4>1
      <3> QED BY <1>4, <1>5, <3>2, <3>3
    <2>3. Nowhere(new, s[p][1])
      <3> SUFFICES ASSUME NEW r \in Stops, NEW i \in 1 .. Len(new[r]), new[r][i] = s[p][1]
                   PROVE  FALSE
        BY DEF Nowhere
      <3> DEFINE k == IF r = p THEN i + 1 ELSE i
      <3>1. k \in 1 .. Len(s[r]) /\ new[r][i] = s[r][k] /\ (r = p => k # 1)
        BY <2>1
      <3> HIDE DEF k
      <3>2. s[r][k] = s[p][1] /\ 1 \in 1 .. Len(s[p])
        BY <1>2, <3>1
      <3>3. r = p /\ k = 1
        <4>1. s[r][k] = s[p][1] => r = p /\ k = 1
          BY ONLY <2>0, <3>1, <3>2, r \in Stops, p \in Stops
        <4> QED BY <3>2, <4>1
      <3> QED BY <3>1, <3>3
    <2> QED BY <2>2, <2>3
  <1>8. ASSUME NEW A, NEW x, Comes(x, s, A), x = s[p][1] => p = "kept" PROVE Comes(x, new, A)
    <2>1. CASE \E i \in 1 .. Len(A) : A[i] = InvokeAction(x)
      BY <2>1 DEF Comes
    <2>2. CASE \E r \in Stops \ {"kept"} : \E i \in 1 .. Len(s[r]) : s[r][i] = x
      <3>1. PICK r \in Stops \ {"kept"} : \E i \in 1 .. Len(s[r]) : s[r][i] = x
        BY <2>2
      <3>2. PICK i \in 1 .. Len(s[r]) : s[r][i] = x
        BY <3>1
      <3>3. CASE r # p
        BY <1>4, <3>2, <3>3 DEF Comes
      <3>4. CASE r = p
        <4>1. i # 1
          BY <1>8, <3>1, <3>2, <3>4
        <4>2. i - 1 \in 1 .. Len(new[p]) /\ new[p][i - 1] = x
          BY <1>4, <3>2, <3>4, <4>1
        <4> QED BY <3>1, <3>4, <4>2 DEF Comes
      <3> QED BY <3>3, <3>4
    <2> QED BY <1>8, <2>1, <2>2 DEF Comes
  <1> QED BY <1>2, <1>3, <1>6, <1>7, <1>8 DEF new

\* A message that is on its way comes, whatever else is queued.
LEMMA ComesStill ==
    ASSUME NEW A \in Seq(BrokerAction), NEW a \in BrokerAction, NEW s
    PROVE  /\ \A x : Comes(x, s, A) \/ a = InvokeAction(x) => Comes(x, s, Append(A, a))
           /\ A # << >> => \A x : Comes(x, s, A) /\ A[1] # InvokeAction(x) => Comes(x, s, Tail(A))
  <1>1. \A x : Comes(x, s, A) \/ a = InvokeAction(x) => Comes(x, s, Append(A, a))
    <2>1. /\ Len(Append(A, a)) = Len(A) + 1 /\ Append(A, a)[Len(A) + 1] = a
          /\ \A i \in 1 .. Len(A) : Append(A, a)[i] = A[i]
          /\ Len(A) + 1 \in 1 .. Len(A) + 1 /\ \A i \in 1 .. Len(A) : i \in 1 .. Len(A) + 1
      BY Longer
    <2> QED BY <2>1 DEF Comes
  <1>2. ASSUME A # << >> PROVE \A x : Comes(x, s, A) /\ A[1] # InvokeAction(x) => Comes(x, s, Tail(A))
    <2>1. \A i \in 1 .. Len(A) : i = 1 \/ (i - 1 \in 1 .. Len(Tail(A)) /\ Tail(A)[i - 1] = A[i])
      BY <1>2, Shorter
    <2> QED BY <2>1 DEF Comes
  <1> QED BY <1>1, <1>2

-----------------------------------------------------------------------------
(* Messages in order.                                                       *)

LEMMA RisesOn ==
    ASSUME NEW w \in Seq(Nat), NEW x \in Nat, Rising(w), \A i \in 1 .. Len(w) : w[i] < x
    PROVE  Rising(Append(w, x))
  <1> DEFINE n == Len(w)
             new == Append(w, x)
  <1>1. /\ Len(new) = n + 1 /\ n \in Nat /\ new[n + 1] = x /\ \A i \in 1 .. n : new[i] = w[i]
        /\ \A i \in 1 .. n + 1 : i \in 1 .. n \/ i = n + 1
    BY Longer
  <1>2. /\ \A i, j \in 1 .. n : i < j => w[i] < w[j]
        /\ \A i \in 1 .. n : w[i] < x
    BY DEF Rising
  <1> HIDE DEF n, new
  <1>3. ASSUME NEW i \in 1 .. n + 1, NEW j \in 1 .. n + 1, i < j PROVE new[i] < new[j]
    <2>1. i \in 1 .. n
      BY <1>1, <1>3
    <2> QED BY <1>1, <1>2, <1>3, <2>1
  <1> QED BY <1>1, <1>3 DEF Rising, new

LEMMA RisesLess ==
    ASSUME NEW w \in Seq(Nat), w # << >>, Rising(w)
    PROVE  Rising(Tail(w)) /\ \A i \in 1 .. Len(Tail(w)) : w[1] < Tail(w)[i]
  <1> DEFINE n == Len(Tail(w))
  <1>1. /\ n \in Nat /\ 1 \in 1 .. Len(w) /\ \A i \in 1 .. n : Tail(w)[i] = w[i + 1] /\ i + 1 \in 1 .. Len(w)
    BY Shorter
  <1> HIDE DEF n
  <1>2. \A i, j \in 1 .. n : (i < j => i + 1 < j + 1) /\ 1 < i + 1
    BY <1>1
  <1> QED BY <1>1, <1>2 DEF Rising, n

\* A later message is queued, or an action that carries none.
LEMMA CarriesOn ==
    ASSUME NEW v \in Seq(Nat), NEW A \in Seq(BrokerAction), NEW last \in Nat,
           Carried(v, A, last), NEW a \in BrokerAction,
           a.kind = "invoke" => a.msg = last + 1 /\ \A j \in 1 .. Len(v) : v[j] < last + 1
    PROVE  Carried(v, Append(A, a), last + 1)
  <1> DEFINE n == Len(A)
             new == Append(A, a)
  <1>1. /\ Len(new) = n + 1 /\ n \in Nat /\ new[n + 1] = a /\ \A i \in 1 .. n : new[i] = A[i]
        /\ \A i \in 1 .. n + 1 : i \in 1 .. n \/ i = n + 1
    BY Longer
  <1>2. /\ \A i, j \in 1 .. n :
               i < j /\ A[i].kind = "invoke" /\ A[j].kind = "invoke" => A[i].msg < A[j].msg
        /\ \A i \in 1 .. n : A[i].kind = "invoke" =>
               A[i].msg \in 1 .. last /\ \A j \in 1 .. Len(v) : v[j] < A[i].msg
    BY DEF Carried
  <1> HIDE DEF n, new
  <1>3. ASSUME NEW i \in 1 .. n + 1, NEW j \in 1 .. n + 1, i < j, new[i].kind = "invoke", new[j].kind = "invoke"
        PROVE  new[i].msg < new[j].msg
    <2>1. i \in 1 .. n /\ new[i] = A[i]
      BY <1>1, <1>3
    <2>2. CASE j \in 1 .. n
      BY <1>1, <1>2, <1>3, <2>1, <2>2
    <2>3. CASE j = n + 1
      <3>1. A[i].msg \in 1 .. last /\ new[j].msg = last + 1
        BY <1>1, <1>2, <1>3, <2>1, <2>3
      <3> QED BY <2>1, <3>1
    <2> QED BY <1>1, <2>2, <2>3
  <1>4. ASSUME NEW i \in 1 .. n + 1, new[i].kind = "invoke"
        PROVE  new[i].msg \in 1 .. last + 1 /\ \A j \in 1 .. Len(v) : v[j] < new[i].msg
    <2>1. CASE i \in 1 .. n
      <3>1. new[i] = A[i] /\ A[i].msg \in 1 .. last /\ \A j \in 1 .. Len(v) : v[j] < A[i].msg
        BY <1>1, <1>2, <1>4, <2>1
      <3> QED BY <3>1
    <2>2. CASE i = n + 1
      <3>1. a.kind = "invoke" /\ new[i] = a
        BY <1>1, <1>4, <2>2
      <3>2. new[i].msg = last + 1 /\ \A j \in 1 .. Len(v) : v[j] < last + 1
        BY <3>1
      <3> QED BY <3>2
    <2> QED BY <1>1, <2>1, <2>2
  <1> QED BY <1>1, <1>3, <1>4 DEF Carried, new

LEMMA CarriesLess ==
    ASSUME NEW v \in Seq(Nat), NEW A \in Seq(BrokerAction), NEW last \in Nat, A # << >>,
           Carried(v, A, last)
    PROVE  /\ Carried(v, Tail(A), last)
           /\ A[1].kind = "invoke" => /\ \A j \in 1 .. Len(v) : v[j] < A[1].msg
                                      /\ Carried(Append(v, A[1].msg), Tail(A), last)
  <1> DEFINE n == Len(Tail(A))
  <1>1. /\ n \in Nat /\ 1 \in 1 .. Len(A) /\ A[1] \in BrokerAction
        /\ \A i \in 1 .. n : Tail(A)[i] = A[i + 1] /\ i + 1 \in 1 .. Len(A)
    BY Shorter
  <1> HIDE DEF n
  <1>2. \A i, j \in 1 .. n : (i < j => i + 1 < j + 1) /\ 1 < i + 1
    BY <1>1
  <1>3. Carried(v, Tail(A), last)
    BY <1>1, <1>2 DEF Carried, n
  <1>4. ASSUME A[1].kind = "invoke"
        PROVE  /\ \A j \in 1 .. Len(v) : v[j] < A[1].msg
               /\ Carried(Append(v, A[1].msg), Tail(A), last)
    <2> DEFINE new == Append(v, A[1].msg)
    <2>1. A[1].msg \in Nat
      BY <1>1 DEF BrokerAction
    <2>2. /\ Len(new) = Len(v) + 1 /\ new[Len(v) + 1] = A[1].msg
          /\ \A j \in 1 .. Len(v) : new[j] = v[j]
          /\ \A j \in 1 .. Len(v) + 1 : j \in 1 .. Len(v) \/ j = Len(v) + 1
      BY <2>1, Longer
    <2> HIDE DEF new
    <2>3. \A i \in 1 .. n : Tail(A)[i].kind = "invoke" => A[1].msg < Tail(A)[i].msg
      BY <1>1, <1>2, <1>4 DEF Carried
    <2>4. \A i \in 1 .. n : Tail(A)[i].kind = "invoke" => \A j \in 1 .. Len(new) : new[j] < Tail(A)[i].msg
      BY <1>3, <2>2, <2>3 DEF Carried, n
    <2>5. Carried(new, Tail(A), last)
      BY <1>3, <2>4 DEF Carried, n
    <2>6. \A j \in 1 .. Len(v) : v[j] < A[1].msg
      BY <1>1, <1>4 DEF Carried
    <2> QED BY <2>5, <2>6 DEF new
  <1> QED BY <1>3, <1>4

-----------------------------------------------------------------------------
(* The steps.                                                               *)

\* What the type invariant says.
LEMMA BrokerTyped ==
    ASSUME BrokerTypeOK
    PROVE  /\ Stop \in [Stops -> Seq(Nat)]
           /\ Stop["executed"] = executed /\ Stop["own"] = own_actions /\ Stop["forward"] = drain.forward
           /\ Stop["custom"] = broker.custom_messages /\ Stop["kept"] = broker.default_messages
           /\ executed \in Seq(Nat) /\ broker.default_messages \in Seq(Nat)
           /\ default_actions \in Seq(BrokerAction) /\ broker.erased \in Nat
           /\ dispatches \in Nat /\ InOrder \in BOOLEAN
           /\ \A p \in {"executed", "own", "forward", "custom", "kept"} : p \in Stops
  <1>1. Seq(BrokerMessage) \subseteq Seq(Nat)
    BY SeqMonotonic, MessagesAssumption DEF BrokerMessage
  <1>2. /\ executed \in Seq(Nat) /\ own_actions \in Seq(Nat) /\ drain.forward \in Seq(Nat)
        /\ broker.custom_messages \in Seq(Nat) /\ broker.default_messages \in Seq(Nat)
    BY <1>1 DEF BrokerTypeOK
  <1>3. Stop \in [Stops -> Seq(Nat)]
    BY <1>2 DEF Stop, Stops
  <1>4. /\ Stop["executed"] = executed /\ Stop["own"] = own_actions /\ Stop["forward"] = drain.forward
        /\ Stop["custom"] = broker.custom_messages /\ Stop["kept"] = broker.default_messages
    BY DEF Stop, Stops
  <1>5. InOrder \in BOOLEAN
    BY ZenonT(20) DEF InOrder
  <1> QED BY <1>2, <1>3, <1>4, <1>5 DEF BrokerTypeOK, BrokerAction, Stops

\* The next message is later than every other, and nowhere yet.
LEMMA NextIsNew ==
    ASSUME BrokerTypeOK, NumberedTo(Stop, dispatches)
    PROVE  /\ Nowhere(Stop, dispatches + 1) /\ NumberedTo(Stop, dispatches + 1)
           /\ dispatches + 1 \in Nat /\ dispatches + 1 \in 1 .. dispatches + 1
           /\ dispatches < MaxMessages => dispatches + 1 <= MaxMessages
           /\ \A i \in 1 .. Len(executed) : executed[i] < dispatches + 1
           /\ \A i \in 1 .. Len(broker.default_messages) : broker.default_messages[i] < dispatches + 1
  <1>1. dispatches \in Nat
    BY DEF BrokerTypeOK
  <1>2. \A p \in Stops : \A i \in 1 .. Len(Stop[p]) :
            /\ Stop[p][i] \in 1 .. dispatches + 1 /\ Stop[p][i] < dispatches + 1
            /\ Stop[p][i] # dispatches + 1
    BY <1>1 DEF NumberedTo
  <1>3. dispatches < MaxMessages => dispatches + 1 <= MaxMessages
    BY <1>1, MessagesAssumption
  <1>4. Nowhere(Stop, dispatches + 1) /\ NumberedTo(Stop, dispatches + 1)
    BY <1>2 DEF Nowhere, NumberedTo
  <1>5. /\ \A i \in 1 .. Len(executed) : executed[i] < dispatches + 1
        /\ \A i \in 1 .. Len(broker.default_messages) : broker.default_messages[i] < dispatches + 1
    BY <1>2, BrokerTyped
  <1> QED BY <1>1, <1>3, <1>4, <1>5

\* dispatch keeps a message for which nobody has subscribed.
LEMMA UnknownStep == ASSUME BrokerInv, dispatch, LookedUp # "entity" PROVE BrokerInv'
  <1> DEFINE m == dispatches + 1
             D == broker.default_messages
             A == default_actions
             e == broker.erased
  <1>1. BrokerTypeOK /\ NumberedTo(Stop, dispatches)
    BY DEF BrokerInv, OneStop
  <1>2. /\ broker' = [broker EXCEPT !.exists = TRUE, !.default_messages = Append(D, m)]
        /\ A' = Append(A, DrainAction(e)) /\ dispatches' = m /\ subscription' = "null"
        /\ subscription # "entity" /\ ~undefined /\ dispatches < MaxMessages
        /\ UNCHANGED <<wire_scheduler, entity, executed, own_actions, drain, undefined, heard, swept, called_ended>>
    BY <1>1 DEF dispatch, LookedUp, DispatchUnknown, Pass, DrainAction, BrokerTypeOK
  <1>3. /\ m \in BrokerMessage /\ DrainAction(e) \in BrokerAction /\ DrainAction(e).kind = "drain"
        /\ DrainAction(e).msg = e
    BY <1>1, <1>2, MessagesAssumption DEF BrokerMessage, BrokerAction, DrainAction, BrokerTypeOK
  <1>4. /\ D' = Append(D, m) /\ broker'.erased = e /\ broker'.exists = TRUE
        /\ broker'.custom_messages = broker.custom_messages
    BY <1>1, <1>2 DEF BrokerTypeOK
  <1>5. BrokerTypeOK'
    <2>1. Append(D, m) \in Seq(BrokerMessage) /\ A' \in Seq(BrokerAction)
      BY <1>1, <1>2, <1>3, Longer, BrokerTyped DEF BrokerTypeOK
    <2>2. broker' \in [exists : BOOLEAN, default_messages : Seq(BrokerMessage),
                       custom_messages : Seq(BrokerMessage), erased : Nat]
      BY <1>1, <1>2, <2>1 DEF BrokerTypeOK
    <2> QED BY <1>1, <1>2, <2>1, <2>2 DEF BrokerTypeOK, BrokerAction
  <1>6. Stop' = Gain(Stop, "kept", m)
    BY <1>2, <1>4 DEF Stop, Stops, Gain
  <1> USE BrokerTyped
  <1>7. InOrder' = InOrder
    BY <1>2 DEF InOrder
  <1>8. InOrder => Carried(executed, A, dispatches)
    BY <1>2 DEF BrokerInv, DefaultInOrder
  <1>9. InOrder => \A i \in 1 .. Len(A) : A[i].kind = "invoke" => A[i].msg < m
    <2>1. \A x \in 1 .. dispatches : x < m
      BY <1>1
    <2> QED BY <1>8, <2>1 DEF Carried
  <1>10. /\ Len(A') = Len(A) + 1 /\ A'[Len(A) + 1] = DrainAction(e) /\ \A i \in 1 .. Len(A) : A'[i] = A[i]
         /\ \A i \in 1 .. Len(A) + 1 : i \in 1 .. Len(A) \/ i = Len(A) + 1
         /\ Len(D') # 0
    <2>1. A \in Seq(BrokerAction) /\ D \in Seq(Nat) /\ m \in Nat
      BY <1>1, NextIsNew
    <2> HIDE DEF A, D, m, e
    <2>2. /\ Len(Append(D, m)) # 0
          /\ Len(Append(A, DrainAction(e))) = Len(A) + 1
          /\ Append(A, DrainAction(e))[Len(A) + 1] = DrainAction(e)
          /\ \A i \in 1 .. Len(A) : Append(A, DrainAction(e))[i] = A[i]
          /\ \A i \in 1 .. Len(A) + 1 : i \in 1 .. Len(A) \/ i = Len(A) + 1
      BY <1>3, <2>1, Longer
    <2> QED BY <1>2, <1>4, <2>2
  <1> HIDE DEF m, D, A, e
  <1>11. EachIsTaken'
    <2>1. drain.step # "erase" => Awaited(D, A, e, InOrder)
      BY <1>2 DEF BrokerInv, EachIsTaken, D, A, e
    <2>2. drain.step # "erase" => Awaited(Append(D, m), Append(A, DrainAction(e)), e, InOrder)
      BY <1>1, <1>9, <2>1, KeepOne, NextIsNew DEF D, A, e, m
    <2>3. \A i \in 1 .. Len(A') : A'[i].kind = "drain" => A'[i].msg <= e
      <3>1. \A i \in 1 .. Len(A) : A[i].kind = "drain" => A[i].msg <= e
        BY <1>2 DEF BrokerInv, EachIsTaken, A, e
      <3>2. e <= e
        BY <1>1 DEF e
      <3> QED BY <1>3, <1>10, <3>1, <3>2
    <2> QED BY <1>2, <1>4, <1>7, <1>10, <2>2, <2>3 DEF EachIsTaken, D, A, e
  <1>12. PlacesUsed'
    <2>1. ~InOrder => \A i \in 1 .. Len(A') : A'[i].kind = "drain"
      <3>1. ~InOrder => \A i \in 1 .. Len(A) : A[i].kind = "drain"
        BY <1>2 DEF BrokerInv, PlacesUsed, A
      <3> QED BY <1>3, <1>10, <3>1
    <2>2. broker'.custom_messages = broker.custom_messages
      BY <1>4
    <2> QED BY <1>2, <1>7, <2>1, <2>2 DEF BrokerInv, PlacesUsed, A
  <1>13. DefaultInOrder'
    <2> SUFFICES ASSUME InOrder PROVE DefaultInOrder'
      BY <1>7 DEF DefaultInOrder
    <2>1. Rising(executed) /\ Rising(D) /\ Before(executed, D)
      BY <1>2 DEF BrokerInv, DefaultInOrder, D
    <2>2. Rising(Append(D, m))
      BY <1>1, <2>1, RisesOn, NextIsNew DEF m, D
    <2>3. Before(executed, Append(D, m))
      <3>1. /\ Len(Append(D, m)) = Len(D) + 1 /\ Append(D, m)[Len(D) + 1] = m
            /\ \A i \in 1 .. Len(D) : Append(D, m)[i] = D[i]
            /\ \A i \in 1 .. Len(D) + 1 : i \in 1 .. Len(D) \/ i = Len(D) + 1
        BY <1>1, NextIsNew, Longer DEF m, D
      <3>2. \A i \in 1 .. Len(executed) : executed[i] < m
        BY <1>1, NextIsNew DEF m
      <3> QED BY <2>1, <3>1, <3>2 DEF Before
    <2>4. Carried(executed, Append(A, DrainAction(e)), m)
      BY <1>1, <1>3, <1>8, CarriesOn DEF m, A
    <2> QED BY <1>2, <1>4, <2>1, <2>2, <2>3, <2>4 DEF DefaultInOrder, D, A
  <1>14. OneStop'
    <2>1. m <= MaxMessages
      BY <1>1, NextIsNew DEF dispatch, m
    <2>2. NumberedTo(Stop', m) /\ (~InOrder => Apart(Stop'))
      BY <1>1, <1>2, <1>6, <1>7, NextIsNew, Gained DEF BrokerInv, OneStop, m
    <2>3. InOrder' = InOrder
      BY <1>2 DEF InOrder
    <2> QED BY <1>2, <2>1, <2>2, <2>3 DEF OneStop
  <1>15. HeardComes'
    BY <1>2 DEF BrokerInv, HeardComes
  <1> QED BY <1>5, <1>11, <1>12, <1>13, <1>14, <1>15 DEF BrokerInv

\* dispatch queues a message for an entity on the default scheduler.
LEMMA QueuedStep == ASSUME BrokerInv, dispatch, LookedUp = "entity", InOrder PROVE BrokerInv'
  <1> DEFINE m == dispatches + 1
             A == default_actions
             a == InvokeAction(m)
  <1>1. BrokerTypeOK /\ NumberedTo(Stop, dispatches)
    BY DEF BrokerInv, OneStop
  <1>2. /\ A' = Append(A, a) /\ dispatches' = m /\ subscription' = "entity" /\ subscription = "entity"
        /\ heard' = heard \cup {m} /\ ~undefined /\ dispatches < MaxMessages
        /\ UNCHANGED <<wire_scheduler, broker, entity, executed, own_actions, drain, swept, undefined,
                       called_ended>>
    BY <1>1 DEF dispatch, LookedUp, DispatchKnown, invoke, Pass, InvokeAction, InOrder
  <1>3. m \in BrokerMessage /\ a \in BrokerAction /\ a.kind = "invoke" /\ a.msg = m
    BY <1>1, <1>2, MessagesAssumption DEF BrokerMessage, BrokerAction, InvokeAction, BrokerTypeOK
  <1> USE BrokerTyped
  <1>4. BrokerTypeOK'
    <2>1. A' \in Seq(BrokerAction)
      BY <1>1, <1>2, <1>3, Longer
    <2>2. heard' \subseteq BrokerMessage /\ dispatches' \in Nat
      BY <1>1, <1>2, <1>3 DEF BrokerTypeOK
    <2> QED BY <1>1, <1>2, <2>1, <2>2 DEF BrokerTypeOK, BrokerAction
  <1>5. Stop' = Stop /\ InOrder'
    BY <1>2 DEF Stop, InOrder
  <1>6. /\ Len(A') = Len(A) + 1 /\ A'[Len(A) + 1] = a /\ \A i \in 1 .. Len(A) : A'[i] = A[i]
        /\ \A i \in 1 .. Len(A) + 1 : i \in 1 .. Len(A) \/ i = Len(A) + 1
    BY <1>1, <1>2, <1>3, Longer
  <1> HIDE DEF m, A, a
  <1>7. EachIsTaken'
    <2>1. drain.step # "erase" => Awaited(broker.default_messages, A, broker.erased, InOrder)
      BY <1>2 DEF BrokerInv, EachIsTaken, A
    <2>2. drain.step # "erase" =>
              Awaited(broker.default_messages, Append(A, a), broker.erased, InOrder)
      BY <1>1, <2>1, CarryOne, NextIsNew DEF A, a, m
    <2>3. \A i \in 1 .. Len(A') : A'[i].kind = "drain" => A'[i].msg <= broker.erased
      BY <1>2, <1>3, <1>6 DEF BrokerInv, EachIsTaken, A
    <2>4. InOrder' = InOrder
      BY <1>2 DEF InOrder
    <2> QED BY <1>2, <2>2, <2>3, <2>4 DEF BrokerInv, EachIsTaken, A
  <1>8. PlacesUsed'
    BY <1>2, <1>5 DEF BrokerInv, PlacesUsed
  <1>9. DefaultInOrder'
    <2>1. Carried(executed, Append(A, a), m)
      BY <1>1, <1>2, <1>3, CarriesOn, NextIsNew DEF BrokerInv, DefaultInOrder, A, m
    <2> QED BY <1>2, <2>1 DEF BrokerInv, DefaultInOrder, A
  <1>10. OneStop'
    <2>1. m <= MaxMessages
      BY <1>1, NextIsNew DEF dispatch, m
    <2> QED BY <1>1, <1>2, <1>5, <2>1, NextIsNew DEF OneStop, m
  <1>11. HeardComes'
    <2>1. \A x : Comes(x, Stop, A) \/ x = m => Comes(x, Stop, A')
      BY <1>1, <1>2, <1>3, ComesStill DEF a, A
    <2> QED BY <1>2, <1>5, <2>1 DEF BrokerInv, HeardComes, A
  <1> QED BY <1>4, <1>7, <1>8, <1>9, <1>10, <1>11 DEF BrokerInv

\* dispatch gives a message to another scheduler, which may run it at once, or puts it aside.
LEMMA GivenStep == ASSUME BrokerInv, dispatch, LookedUp = "entity", ~InOrder PROVE BrokerInv'
  <1> DEFINE m == dispatches + 1
  <1>1. BrokerTypeOK /\ NumberedTo(Stop, dispatches) /\ Apart(Stop)
    BY DEF BrokerInv, OneStop
  <1>2. /\ dispatches' = m /\ subscription' = "entity" /\ subscription = "entity"
        /\ heard' = heard \cup {m} /\ ~undefined /\ dispatches < MaxMessages
        /\ UNCHANGED <<wire_scheduler, entity, drain, undefined>>
        /\ DispatchKnown(m)
    BY <1>1 DEF dispatch, LookedUp, BrokerTypeOK
  <1>0. wire_scheduler \in {"synchronous", "own"}
    BY <1>1 DEF BrokerTypeOK, InOrder
  <1>4. /\ \/ /\ broker.exists /\ broker' = [broker EXCEPT !.custom_messages = Append(@, m)]
              /\ swept' = (IF drain.step = "erase" THEN swept \cup {m} ELSE swept)
              /\ UNCHANGED <<executed, own_actions, called_ended>>
           \/ /\ wire_scheduler = "own" /\ own_actions' = Append(own_actions, m)
              /\ UNCHANGED <<executed, broker, swept, called_ended>>
           \/ /\ executed' = Append(executed, m) /\ called_ended' \in BOOLEAN
              /\ UNCHANGED <<own_actions, broker, swept>>
         /\ UNCHANGED default_actions
    <2>1. CASE broker.exists
      BY <1>0, <1>2, <2>1 DEF DispatchKnown, Pass, queues
    <2>2. CASE ~broker.exists
      <3>1. invoke(m, default_actions, "entity") /\ UNCHANGED <<broker, swept>>
        BY <1>2, <2>2 DEF DispatchKnown, LookedUp
      <3>2. CASE wire_scheduler = "own"
        BY <3>1, <3>2 DEF invoke, Pass
      <3>3. CASE wire_scheduler = "synchronous"
        <4>1. ExecuteIfKnown(m, "entity") /\ UNCHANGED <<own_actions, default_actions>>
          BY <3>1, <3>3 DEF invoke
        <4>2. (called_ended \/ entity = "ended") \in BOOLEAN
          BY <1>1 DEF BrokerTypeOK
        <4> QED BY <3>1, <4>1, <4>2 DEF ExecuteIfKnown, execute
      <3> QED BY <1>0, <3>2, <3>3
    <2> QED BY <2>1, <2>2
  <1>3. m \in BrokerMessage
    BY <1>1, <1>2, MessagesAssumption DEF BrokerMessage, BrokerTypeOK
  <1>5. BrokerTypeOK'
    <2>1. /\ Append(broker.custom_messages, m) \in Seq(BrokerMessage)
          /\ Append(own_actions, m) \in Seq(BrokerMessage) /\ Append(executed, m) \in Seq(BrokerMessage)
      BY <1>1, <1>3, Longer DEF BrokerTypeOK
    <2>2. heard' \subseteq BrokerMessage /\ dispatches' \in Nat
      BY <1>1, <1>2, <1>3 DEF BrokerTypeOK
    <2>3. /\ executed' \in Seq(BrokerMessage) /\ own_actions' \in Seq(BrokerMessage) /\ called_ended' \in BOOLEAN
          /\ broker' \in [exists : BOOLEAN, default_messages : Seq(BrokerMessage),
                          custom_messages : Seq(BrokerMessage), erased : Nat]
      BY <1>1, <1>4, <2>1 DEF BrokerTypeOK
    <2>4. swept' \subseteq BrokerMessage
      BY <1>1, <1>3, <1>4 DEF BrokerTypeOK
    <2> QED BY <1>1, <1>2, <1>4, <2>2, <2>3, <2>4 DEF BrokerTypeOK
  <1>6. /\ broker'.default_messages = broker.default_messages /\ broker'.erased = broker.erased
        /\ broker'.exists = broker.exists
        /\ Len(broker'.custom_messages) # 0 => Len(broker.custom_messages) # 0 \/ broker.exists
    BY <1>1, <1>4 DEF BrokerTypeOK
  <1>7. PICK p \in Stops \ {"kept"} : Stop' = Gain(Stop, p, m)
    <2>1. Stop' = Gain(Stop, "custom", m) \/ Stop' = Gain(Stop, "own", m) \/ Stop' = Gain(Stop, "executed", m)
      BY <1>1, <1>2, <1>4 DEF Stop, Stops, Gain, BrokerTypeOK
    <2> QED BY <2>1 DEF Stops
  <1>8. InOrder' = InOrder
    BY <1>2 DEF InOrder
  <1> USE BrokerTyped
  <1> HIDE DEF m
  <1>9. EachIsTaken'
    BY <1>2, <1>4, <1>6, <1>8 DEF BrokerInv, EachIsTaken
  <1>10. PlacesUsed'
    <2>1. drain.step = "erase" =>
              \A i \in 1 .. Len(broker'.custom_messages) : broker'.custom_messages[i] \in swept'
      <3>1. CASE broker' = [broker EXCEPT !.custom_messages = Append(@, m)] /\ drain.step = "erase"
        <4>1. /\ broker'.custom_messages = Append(broker.custom_messages, m) /\ m \in swept'
              /\ broker.custom_messages \in Seq(BrokerMessage) /\ swept \subseteq swept'
          BY <1>1, <1>4, <3>1 DEF BrokerTypeOK
        <4>2. \A i \in 1 .. Len(broker'.custom_messages) :
                  \/ broker'.custom_messages[i] = m
                  \/ /\ i \in 1 .. Len(broker.custom_messages)
                     /\ broker'.custom_messages[i] = broker.custom_messages[i]
          BY <1>3, <4>1, Longer
        <4> QED BY <3>1, <4>1, <4>2 DEF BrokerInv, PlacesUsed
      <3>2. CASE broker' = broker /\ swept' = swept
        BY <3>2 DEF BrokerInv, PlacesUsed
      <3> QED BY <1>4, <3>1, <3>2
    <2> QED BY <1>2, <1>4, <1>8, <2>1 DEF BrokerInv, PlacesUsed
  <1>11. DefaultInOrder'
    BY <1>8 DEF DefaultInOrder
  <1>12. NumberedTo(Stop', m) /\ Apart(Stop')
    BY <1>1, <1>7, NextIsNew, Gained DEF m
  <1>13. OneStop'
    <2>1. m <= MaxMessages
      BY <1>1, <1>2, NextIsNew DEF m
    <2> QED BY <1>2, <1>12, <2>1 DEF OneStop
  <1>14. HeardComes'
    <2>1. \A x : Comes(x, Stop, default_actions) \/ x = m => Comes(x, Stop', default_actions)
      BY <1>1, <1>7, NextIsNew, Gained DEF m
    <2>2. heard' \ swept' \subseteq (heard \ swept) \cup {m}
      BY <1>2, <1>4
    <2> QED BY <1>2, <1>4, <2>1, <2>2 DEF BrokerInv, HeardComes
  <1> QED BY <1>5, <1>9, <1>10, <1>11, <1>13, <1>14 DEF BrokerInv

\* dispatch pushes into a Mq that is gone.
LEMMA ErasedUsedStep == ASSUME BrokerInv, DispatchToErased PROVE BrokerInv'
  <1> USE BrokerTyped
  <1>1. /\ BrokerTypeOK /\ undefined' = TRUE /\ dispatches' = dispatches + 1 /\ subscription' = LookedUp
        /\ dispatches < MaxMessages
        /\ UNCHANGED <<wire_scheduler, entity, broker, default_actions, own_actions, drain, executed,
                       heard, swept, called_ended>>
    BY DEF BrokerInv, DispatchToErased, queues
  <1>2. BrokerTypeOK'
    <2>1. LookedUp \in {"null", "entity"} /\ dispatches + 1 \in Nat
      BY <1>1 DEF LookedUp, BrokerTypeOK
    <2> QED BY <1>1, <2>1 DEF BrokerTypeOK
  <1>3. Stop' = Stop /\ InOrder' = InOrder
    BY <1>1 DEF Stop, InOrder
  <1>4. EachIsTaken' /\ PlacesUsed' /\ DefaultInOrder' /\ HeardComes'
    BY <1>1, <1>3 DEF BrokerInv, EachIsTaken, PlacesUsed, DefaultInOrder, HeardComes, LookedUp
  <1>5. OneStop'
    BY <1>1, <1>3, NextIsNew DEF BrokerInv, OneStop
  <1> QED BY <1>2, <1>4, <1>5 DEF BrokerInv

\* An executed message comes before those that actions carry.
LEMMA CarriesAfter ==
    ASSUME NEW v \in Seq(Nat), NEW x \in Nat, NEW A, NEW last, Carried(v, A, last),
           \A i \in 1 .. Len(A) : A[i].kind = "invoke" => x < A[i].msg
    PROVE  Carried(Append(v, x), A, last)
  <1>1. /\ Len(Append(v, x)) = Len(v) + 1 /\ Append(v, x)[Len(v) + 1] = x
        /\ \A i \in 1 .. Len(v) : Append(v, x)[i] = v[i]
        /\ \A i \in 1 .. Len(v) + 1 : i \in 1 .. Len(v) \/ i = Len(v) + 1
    BY Longer, SMTT(30)
  <1> QED BY <1>1 DEF Carried

\* The action of an Mq that was erased: it is used although it is gone.
LEMMA FreedStep ==
    ASSUME BrokerInv, DrainOne, Head(default_actions).msg # broker.erased
    PROVE  BrokerInv'
  <1> DEFINE A == default_actions
  <1>1. BrokerTypeOK
    BY DEF BrokerInv
  <1>2. /\ undefined' = TRUE /\ A' = Tail(A) /\ A # << >> /\ subscription' = LookedUp
        /\ UNCHANGED <<wire_scheduler, dispatches, entity, broker, drain, own_actions, executed, heard, swept, called_ended>>
    BY DEF DrainOne, Pass
  <1> USE BrokerTyped
  <1>3. /\ A' \in Seq(BrokerAction)
        /\ \A i \in 1 .. Len(A') : A'[i] = A[i + 1] /\ i + 1 \in 1 .. Len(A)
    BY <1>1, <1>2, Shorter
  <1>4. BrokerTypeOK'
    BY <1>1, <1>2, <1>3 DEF BrokerTypeOK, LookedUp, BrokerAction
  <1>5. Stop' = Stop /\ InOrder' = InOrder
    BY <1>2 DEF Stop, InOrder
  <1>6. EachIsTaken' /\ DefaultInOrder' /\ OneStop'
    BY <1>2, <1>5 DEF BrokerInv, EachIsTaken, DefaultInOrder, OneStop
  <1>7. PlacesUsed'
    BY <1>2, <1>3, <1>5 DEF BrokerInv, PlacesUsed
  <1>8. HeardComes'
    BY <1>2 DEF BrokerInv, HeardComes, LookedUp
  <1> QED BY <1>4, <1>6, <1>7, <1>8 DEF BrokerInv

\* The action of an Mq takes its first message.
LEMMA TakeMessageStep ==
    ASSUME BrokerInv, DrainOne, Head(default_actions).msg = broker.erased
    PROVE  BrokerInv'
  <1> DEFINE A == default_actions
             D == broker.default_messages
             e == broker.erased
             h == D[1]
  <1> USE BrokerTyped
  <1>1. BrokerTypeOK /\ ~undefined /\ drain.step = "idle"
    BY DEF BrokerInv, DrainOne, Idle
  <1>2. /\ A # << >> /\ Head(A).kind = "drain" /\ Head(A).msg = e /\ subscription' = LookedUp
        /\ broker' = Take(broker) /\ drain' = [Idle EXCEPT !.step = "look", !.subscription = LookedUp]
        /\ UNCHANGED <<wire_scheduler, dispatches, entity, heard, swept, undefined>>
    BY DEF DrainOne
  <1>3. /\ A[1] = DrainAction(e) /\ Tail(A) \in Seq(BrokerAction) /\ A[1] \in BrokerAction
        /\ \A i \in 1 .. Len(Tail(A)) : Tail(A)[i] = A[i + 1] /\ i + 1 \in 1 .. Len(A)
    <2>1. /\ A[1] = Head(A) /\ Head(A) \in BrokerAction /\ Tail(A) \in Seq(BrokerAction)
          /\ \A i \in 1 .. Len(Tail(A)) : Tail(A)[i] = A[i + 1] /\ i + 1 \in 1 .. Len(A)
      BY <1>1, <1>2, Shorter
    <2> QED BY <1>2, <2>1 DEF BrokerAction, DrainAction
  <1>4. /\ D # << >> /\ Awaited(Tail(D), Tail(A), e, InOrder)
        /\ InOrder => \A i \in 1 .. Len(A) : A[i].kind = "invoke" => h < A[i].msg
    <2>1. /\ D \in Seq(Nat) /\ A \in Seq(BrokerAction) /\ e \in Nat /\ InOrder \in BOOLEAN
          /\ Awaited(D, A, e, InOrder)
      BY <1>1 DEF BrokerInv, EachIsTaken
    <2> HIDE DEF D, A, e
    <2> QED BY <1>2, <1>3, <2>1, TakeOne
  <1>5. /\ Head(D) = h /\ h \in BrokerMessage /\ h \in Nat /\ Tail(D) \in Seq(BrokerMessage)
        /\ Tail(D) \in Seq(Nat) /\ Len(D) # 0 /\ 1 \in 1 .. Len(D)
        /\ \A i \in 1 .. Len(Tail(D)) : Tail(D)[i] = D[i + 1] /\ i + 1 \in 1 .. Len(D)
    <2>1. D \in Seq(BrokerMessage) /\ D \in Seq(Nat)
      BY <1>1 DEF BrokerTypeOK
    <2>2. /\ Head(D) = h /\ Head(D) \in BrokerMessage /\ Tail(D) \in Seq(BrokerMessage)
          /\ 1 \in 1 .. Len(D) /\ Len(D) = Len(Tail(D)) + 1 /\ Len(Tail(D)) \in Nat
          /\ \A i \in 1 .. Len(Tail(D)) : Tail(D)[i] = D[i + 1] /\ i + 1 \in 1 .. Len(D)
      BY <1>4, <2>1, Shorter
    <2>3. Tail(D) \in Seq(Nat) /\ Head(D) \in Nat
      BY <1>4, <2>1, Shorter
    <2> QED BY <2>2, <2>3
  <1>6. /\ broker'.default_messages = Tail(D) /\ broker'.erased = e /\ broker'.exists = broker.exists
        /\ broker'.custom_messages = broker.custom_messages
        /\ broker' \in [exists : BOOLEAN, default_messages : Seq(BrokerMessage),
                        custom_messages : Seq(BrokerMessage), erased : Nat]
    <2>1. broker' = [broker EXCEPT !.default_messages = Tail(D)]
      BY <1>1, <1>2, <1>4 DEF Take, BrokerTypeOK
    <2> QED BY <1>1, <1>5, <2>1 DEF BrokerTypeOK
  <1>7. /\ drain'.step = "look" /\ drain'.forward = << >> /\ Len(drain'.forward) = 0
        /\ drain' \in [step : {"idle", "look", "move", "erase", "forward"},
                       subscription : {"null", "entity"}, forward : Seq(BrokerMessage)]
    <2>1. drain' = [step |-> "look", subscription |-> LookedUp, forward |-> << >>]
      BY <1>2 DEF Idle
    <2>2. LookedUp \in {"null", "entity"}
      BY <1>1 DEF LookedUp, BrokerTypeOK
    <2>3. << >> \in Seq(BrokerMessage) /\ Len(<< >>) = 0
      OBVIOUS
    <2> QED BY <2>1, <2>2, <2>3
  <1>8. /\ drain.forward = << >> /\ A' = Tail(A)
        /\ \/ /\ executed' = Append(executed, h) /\ called_ended' \in BOOLEAN /\ UNCHANGED own_actions
           \/ /\ own_actions' = Append(own_actions, h) /\ UNCHANGED <<executed, called_ended>> /\ ~InOrder
           \/ UNCHANGED <<executed, own_actions, called_ended>>
    <2> DEFINE out == \/ /\ executed' = Append(executed, h) /\ called_ended' \in BOOLEAN /\ UNCHANGED own_actions
                      \/ /\ own_actions' = Append(own_actions, h) /\ UNCHANGED <<executed, called_ended>> /\ ~InOrder
                      \/ UNCHANGED <<executed, own_actions, called_ended>>
    <2> SUFFICES drain.forward = << >> /\ A' = Tail(A) /\ out
      OBVIOUS
    <2>1. drain.forward = << >>
      BY DEF DrainOne, Idle
    <2>5. called_ended \in BOOLEAN
      BY <1>1 DEF BrokerTypeOK
    <2>2. CASE LookedUp # "entity"
      <3>1. UNCHANGED <<executed, own_actions, called_ended>> /\ A' = Tail(A)
        BY <1>2, <2>2 DEF DrainOne, Pass
      <3> QED BY <2>1, <3>1
    <2>3. CASE LookedUp = "entity" /\ wire_scheduler = "default"
      <3>1. execute(h) /\ A' = Tail(A) /\ UNCHANGED own_actions
        BY <1>2, <1>4, <1>5, <2>3 DEF DrainOne
      <3>2. (called_ended \/ entity = "ended") \in BOOLEAN
        BY <1>1 DEF BrokerTypeOK
      <3> QED BY <2>1, <3>1, <3>2 DEF execute
    <2>4. CASE LookedUp = "entity" /\ wire_scheduler # "default"
      <3>1. invoke(h, Tail(A), "entity") /\ wire_scheduler \in {"synchronous", "own"}
        BY <1>1, <1>2, <1>4, <1>5, <2>4 DEF DrainOne, BrokerTypeOK
      <3>2. (called_ended \/ entity = "ended") \in BOOLEAN
        BY <1>1 DEF BrokerTypeOK
      <3>3. CASE wire_scheduler = "synchronous"
        <4>1. ExecuteIfKnown(h, "entity") /\ A' = Tail(A) /\ UNCHANGED own_actions
          BY <3>1, <3>3 DEF invoke
        <4>2. executed' = Append(executed, h) /\ called_ended' \in BOOLEAN
          BY <3>2, <4>1 DEF ExecuteIfKnown, execute
        <4> QED BY <2>1, <4>1, <4>2
      <3>4. CASE wire_scheduler = "own"
        <4>1. own_actions' = Append(own_actions, h) /\ UNCHANGED <<executed, called_ended>> /\ A' = Tail(A)
          BY <3>1, <3>4 DEF invoke, Pass
        <4>2. ~InOrder
          BY <3>4 DEF InOrder
        <4> QED BY <2>1, <4>1, <4>2
      <3> QED BY <3>1, <3>3, <3>4
    <2> QED BY <2>2, <2>3, <2>4
  <1>9. BrokerTypeOK'
    <2>1. Append(executed, h) \in Seq(BrokerMessage) /\ Append(own_actions, h) \in Seq(BrokerMessage)
      BY <1>1, <1>5, Longer DEF BrokerTypeOK
    <2>2. executed' \in Seq(BrokerMessage) /\ own_actions' \in Seq(BrokerMessage) /\ called_ended' \in BOOLEAN
      BY <1>1, <1>8, <2>1 DEF BrokerTypeOK
    <2> QED BY <1>1, <1>2, <1>3, <1>6, <1>7, <1>8, <2>2 DEF BrokerTypeOK, LookedUp, BrokerAction
  <1>10. \/ Stop' = Gain(Lose(Stop, "kept"), "executed", h)
         \/ Stop' = Gain(Lose(Stop, "kept"), "own", h)
         \/ Stop' = Lose(Stop, "kept")
    <2>1. /\ broker'.default_messages = Tail(broker.default_messages)
          /\ broker'.custom_messages = broker.custom_messages /\ drain'.forward = drain.forward
      BY <1>6, <1>7, <1>8
    <2> HIDE DEF h
    <2>2. CASE executed' = Append(executed, h) /\ own_actions' = own_actions
      <3>1. Stop' = Gain(Lose(Stop, "kept"), "executed", h)
        BY <2>1, <2>2 DEF Stop, Stops, Gain, Lose
      <3> QED BY <3>1
    <2>3. CASE own_actions' = Append(own_actions, h) /\ executed' = executed
      <3>1. Stop' = Gain(Lose(Stop, "kept"), "own", h)
        BY <2>1, <2>3 DEF Stop, Stops, Gain, Lose
      <3> QED BY <3>1
    <2>4. CASE executed' = executed /\ own_actions' = own_actions
      <3>1. Stop' = Lose(Stop, "kept")
        BY <2>1, <2>4 DEF Stop, Stops, Lose
      <3> QED BY <3>1
    <2> QED BY <1>8, <2>2, <2>3, <2>4
  <1>11. InOrder' = InOrder /\ swept' = swept
    BY <1>2 DEF InOrder
  <1>12. Stop["kept"] # << >> /\ Stop["kept"][1] = h /\ "kept" \in Stops /\ "executed" \in Stops /\ "own" \in Stops
    BY <1>1, <1>4
  <1> HIDE DEF A, D, e, h
  <1>13. EachIsTaken'
    <2>1. \A i \in 1 .. Len(A') : A'[i].kind = "drain" => A'[i].msg <= e
      BY <1>1, <1>3, <1>8 DEF BrokerInv, EachIsTaken, A, e
    <2>2. Len(broker'.default_messages) # 0 \/ Len(broker'.custom_messages) # 0 => broker'.exists
      BY <1>1, <1>5, <1>6 DEF BrokerInv, EachIsTaken, D
    <2> QED BY <1>4, <1>6, <1>7, <1>8, <1>11, <2>1, <2>2 DEF EachIsTaken, A
  <1>14. PlacesUsed'
    <2>1. ~InOrder => \A i \in 1 .. Len(A') : A'[i].kind = "drain"
      BY <1>3, <1>8 DEF BrokerInv, PlacesUsed, A
    <2>2. drain'.step \notin {"erase", "forward"} /\ Len(broker'.custom_messages) = Len(broker.custom_messages)
      BY <1>6, <1>7
    <2>3. InOrder => /\ Len(own_actions) = 0 /\ Len(broker.custom_messages) = 0 /\ swept = {}
                     /\ own_actions' = own_actions
      BY <1>8 DEF BrokerInv, PlacesUsed
    <2> QED BY <1>7, <1>8, <1>11, <2>1, <2>2, <2>3 DEF PlacesUsed, A
  <1>15. DefaultInOrder'
    <2> SUFFICES ASSUME InOrder PROVE DefaultInOrder'
      BY <1>11 DEF DefaultInOrder
    <2>1. Rising(executed) /\ Rising(D) /\ Before(executed, D) /\ Carried(executed, A, dispatches)
      BY <1>1 DEF BrokerInv, DefaultInOrder, D, A
    <2>2. Rising(Tail(D)) /\ \A i \in 1 .. Len(Tail(D)) : h < Tail(D)[i]
      BY <1>1, <1>4, <2>1, RisesLess DEF D, h
    <2>3. Before(executed, Tail(D)) /\ \A i \in 1 .. Len(executed) : executed[i] < h
      BY <1>5, <2>1 DEF Before, h
    <2>4. Carried(executed, Tail(A), dispatches)
      BY <1>1, <1>2, <2>1, CarriesLess DEF A
    <2>5. CASE executed' = executed
      BY <1>2, <1>6, <1>8, <2>1, <2>2, <2>3, <2>4, <2>5 DEF DefaultInOrder, A
    <2>6. CASE executed' = Append(executed, h)
      <3>1. Rising(executed')
        BY <1>1, <1>5, <2>1, <2>3, <2>6, RisesOn
      <3>2. Before(executed', Tail(D))
        <4>1. /\ Len(Append(executed, h)) = Len(executed) + 1 /\ Append(executed, h)[Len(executed) + 1] = h
              /\ \A i \in 1 .. Len(executed) : Append(executed, h)[i] = executed[i]
              /\ \A i \in 1 .. Len(executed) + 1 : i \in 1 .. Len(executed) \/ i = Len(executed) + 1
          <5>1. executed \in Seq(Nat) /\ h \in Nat
            BY <1>1, <1>5
          <5> QED BY <5>1, Longer
        <4> QED BY <2>2, <2>3, <2>6, <4>1 DEF Before
      <3>3. \A i \in 1 .. Len(Tail(A)) : Tail(A)[i].kind = "invoke" => h < Tail(A)[i].msg
        BY <1>3, <1>4
      <3>4. Carried(executed', Tail(A), dispatches)
        BY <1>1, <1>5, <2>4, <2>6, <3>3, CarriesAfter
      <3> QED BY <1>2, <1>6, <1>8, <2>2, <3>1, <3>2, <3>4 DEF DefaultInOrder, A
    <2> QED BY <1>8, <2>5, <2>6
  <1>16. OneStop'
    <2> DEFINE s == Lose(Stop, "kept")
    <2>1. /\ s \in [Stops -> Seq(Nat)] /\ NumberedTo(s, dispatches) /\ h \in 1 .. dispatches
          /\ ~InOrder => Apart(s) /\ Nowhere(s, h)
      BY <1>1, <1>12, Left DEF BrokerInv, OneStop
    <2> HIDE DEF s
    <2>2. \A p \in Stops : NumberedTo(Gain(s, p, h), dispatches) /\ (~InOrder => Apart(Gain(s, p, h)))
      BY <1>1, <1>5, <2>1, Gained
    <2>3. dispatches' <= MaxMessages
      BY <1>2 DEF BrokerInv, OneStop
    <2>4. NumberedTo(Stop', dispatches) /\ (~InOrder => Apart(Stop'))
      BY <1>10, <1>12, <2>1, <2>2 DEF s
    <2> QED BY <1>2, <1>11, <2>3, <2>4 DEF OneStop
  <1>17. HeardComes'
    <2> DEFINE s == Lose(Stop, "kept")
    <2>1. s \in [Stops -> Seq(Nat)] /\ \A x : Comes(x, Stop, A) => Comes(x, s, A)
      BY <1>1, <1>12, Left
    <2> HIDE DEF s
    <2>2. \A x : Comes(x, s, A) => Comes(x, s, Tail(A))
      <3>1. \A x : A[1] # InvokeAction(x)
        BY <1>3 DEF DrainAction, InvokeAction
      <3> QED BY <1>1, <1>2, <1>3, <3>1, ComesStill DEF A
    <2>3. \A p \in Stops : \A x : Comes(x, s, Tail(A)) => Comes(x, Gain(s, p, h), Tail(A))
      BY <1>5, <2>1, Gained
    <2>4. \A x : Comes(x, Stop, A) => Comes(x, Stop', A')
      BY <1>8, <1>10, <1>12, <2>1, <2>2, <2>3 DEF s, A
    <2> QED BY <1>2, <2>4 DEF BrokerInv, HeardComes, LookedUp, A
  <1> QED BY <1>9, <1>13, <1>14, <1>15, <1>16, <1>17 DEF BrokerInv

\* A message goes from one stop to another, which is not the Mq's.
LEMMA Moved ==
    ASSUME NEW s \in [Stops -> Seq(Nat)], NEW p \in Stops, s[p] # << >>, NEW o \in Stops, o # "kept"
    PROVE  LET new == Gain(Lose(s, p), o, s[p][1])
           IN  /\ \A last \in Nat : NumberedTo(s, last) => NumberedTo(new, last)
               /\ Apart(s) => Apart(new)
               /\ \A A, x : Comes(x, s, A) => Comes(x, new, A)
  <1> DEFINE m == s[p][1]
             less == Lose(s, p)
             new == Gain(less, o, m)
  <1>1. /\ less \in [Stops -> Seq(Nat)] /\ m \in Nat
        /\ \A last \in Nat : NumberedTo(s, last) => NumberedTo(less, last) /\ m \in 1 .. last
        /\ Apart(s) => Apart(less) /\ Nowhere(less, m)
        /\ \A A, x : Comes(x, s, A) /\ (x = m => p = "kept") => Comes(x, less, A)
    BY Left
  <1> HIDE DEF less, m
  <1>2. /\ \A last \in Nat : NumberedTo(less, last) /\ m \in 1 .. last => NumberedTo(new, last)
        /\ Apart(less) /\ Nowhere(less, m) => Apart(new)
        /\ \A A, x : Comes(x, less, A) \/ (o # "kept" /\ x = m) => Comes(x, new, A)
    BY <1>1, Gained
  <1> HIDE DEF new
  <1>3. \A A, x : Comes(x, s, A) => Comes(x, new, A)
    <2> SUFFICES ASSUME NEW A, NEW x, Comes(x, s, A) PROVE Comes(x, new, A)
      OBVIOUS
    <2>1. CASE x = m
      BY <1>2, <2>1
    <2>2. CASE x # m
      BY <1>1, <1>2, <2>2
    <2> QED BY <2>1, <2>2
  <1> QED BY <1>1, <1>2, <1>3 DEF new, less, m

\* Another scheduler's message goes on to the entity, to that scheduler, or nowhere when
\* nobody is subscribed any more.
LEMMA DrainGoesOn ==
    ASSUME BrokerInv, BrokerTypeOK', ~InOrder, NEW p \in Stops, Stop[p] # << >>,
           UNCHANGED <<wire_scheduler, dispatches, entity, subscription, broker, default_actions,
                       heard, swept, undefined>>,
           drain'.step = drain.step, drain' = drain \/ drain.step = "forward",
           \/ \E o \in Stops : o # "kept" /\ Stop' = Gain(Lose(Stop, p), o, Stop[p][1])
           \/ Stop' = Lose(Stop, p) /\ subscription = "absent"
    PROVE  BrokerInv'
  <1>1. BrokerTypeOK /\ dispatches \in Nat /\ Stop \in [Stops -> Seq(Nat)] /\ InOrder' = InOrder
    BY BrokerTyped DEF BrokerInv, InOrder
  <1>2. EachIsTaken' /\ DefaultInOrder' /\ PlacesUsed'
    BY <1>1 DEF BrokerInv, EachIsTaken, DefaultInOrder, PlacesUsed
  <1>3. NumberedTo(Stop, dispatches) /\ Apart(Stop) /\ dispatches <= MaxMessages
    BY DEF BrokerInv, OneStop
  <1>4. CASE \E o \in Stops : o # "kept" /\ Stop' = Gain(Lose(Stop, p), o, Stop[p][1])
    <2>1. /\ NumberedTo(Stop', dispatches) /\ Apart(Stop')
          /\ \A x : Comes(x, Stop, default_actions) => Comes(x, Stop', default_actions)
      BY <1>1, <1>3, <1>4, Moved
    <2>2. OneStop'
      BY <1>1, <1>3, <2>1 DEF OneStop
    <2>3. HeardComes'
      BY <2>1 DEF BrokerInv, HeardComes
    <2> QED BY <1>2, <2>2, <2>3 DEF BrokerInv
  <1>5. CASE Stop' = Lose(Stop, p) /\ subscription = "absent"
    <2>1. NumberedTo(Stop', dispatches) /\ Apart(Stop')
      BY <1>1, <1>3, <1>5, Left
    <2>2. OneStop'
      BY <1>1, <1>3, <2>1 DEF OneStop
    <2>3. HeardComes'
      BY <1>5 DEF BrokerInv, HeardComes
    <2> QED BY <1>2, <2>2, <2>3 DEF BrokerInv
  <1> QED BY <1>4, <1>5

\* The thread of the entity's own scheduler.
LEMMA OwnStep == ASSUME BrokerInv, OwnScheduler PROVE BrokerInv'
  <1> DEFINE h == Stop["own"][1]
  <1> USE BrokerTyped
  <1>1. /\ BrokerTypeOK /\ own_actions # << >> /\ own_actions' = Tail(own_actions)
        /\ ExecuteIfKnown(Head(own_actions), subscription)
        /\ UNCHANGED <<wire_scheduler, dispatches, entity, subscription, broker, default_actions, drain,
                       heard, swept, undefined>>
    BY DEF BrokerInv, OwnScheduler
  <1>2. Stop["own"] = own_actions /\ "own" \in Stops /\ "executed" \in Stops
    BY <1>1
  <1>3. /\ Head(own_actions) = h /\ h \in BrokerMessage /\ Tail(own_actions) \in Seq(BrokerMessage)
        /\ Len(own_actions) # 0
    <2>1. own_actions \in Seq(BrokerMessage)
      BY <1>1 DEF BrokerTypeOK
    <2>2. /\ Head(own_actions) = own_actions[1] /\ Head(own_actions) \in BrokerMessage
          /\ Tail(own_actions) \in Seq(BrokerMessage)
          /\ Len(own_actions) = Len(Tail(own_actions)) + 1 /\ Len(Tail(own_actions)) \in Nat
      BY <1>1, <2>1, Shorter
    <2> QED BY <1>2, <2>2
  <1> HIDE DEF h
  <1>4. ~InOrder
    BY <1>3 DEF BrokerInv, PlacesUsed
  <1>5. \/ executed' = Append(executed, h) /\ called_ended' \in BOOLEAN
        \/ UNCHANGED <<executed, called_ended>> /\ subscription = "absent"
    <2>1. (called_ended \/ entity = "ended") \in BOOLEAN
      BY <1>1 DEF BrokerTypeOK
    <2> QED BY <1>1, <1>3, <2>1 DEF ExecuteIfKnown, execute, Pass
  <1>6. BrokerTypeOK'
    <2>1. Append(executed, h) \in Seq(BrokerMessage)
      BY <1>1, <1>3, Longer DEF BrokerTypeOK
    <2>2. executed' \in Seq(BrokerMessage) /\ called_ended' \in BOOLEAN
      BY <1>1, <1>5, <2>1 DEF BrokerTypeOK
    <2> QED BY <1>1, <1>3, <2>2 DEF BrokerTypeOK
  <1>7. \/ Stop' = Gain(Lose(Stop, "own"), "executed", h)
        \/ Stop' = Lose(Stop, "own") /\ subscription = "absent"
    <2>1. CASE executed' = Append(executed, h)
      BY <1>1, <2>1 DEF Stop, Stops, Gain, Lose
    <2>2. CASE executed' = executed /\ subscription = "absent"
      BY <1>1, <2>2 DEF Stop, Stops, Lose
    <2> QED BY <1>5, <2>1, <2>2
  <1>8. \/ \E o \in Stops : o # "kept" /\ Stop' = Gain(Lose(Stop, "own"), o, Stop["own"][1])
        \/ Stop' = Lose(Stop, "own") /\ subscription = "absent"
    BY <1>2, <1>7 DEF h
  <1>9. Stop["own"] # << >> /\ drain'.step = drain.step /\ drain' = drain
    BY <1>1, <1>2
  <1> QED BY <1>1, <1>2, <1>4, <1>6, <1>8, <1>9, DrainGoesOn

\* What was put aside is invoked.
LEMMA ForwardStep == ASSUME BrokerInv, ForwardOne PROVE BrokerInv'
  <1> DEFINE F == drain.forward
             h == Stop["forward"][1]
  <1> USE BrokerTyped
  <1>1. /\ BrokerTypeOK /\ drain.step = "forward" /\ ~undefined
        /\ UNCHANGED <<wire_scheduler, dispatches, entity, subscription, broker, heard, swept>>
    BY DEF BrokerInv, ForwardOne
  <1>2. InOrder' = InOrder
    BY <1>1 DEF InOrder
  <1>3. CASE F = << >>
    <2>1. drain' = Idle /\ UNCHANGED <<executed, called_ended, own_actions, default_actions, undefined>>
      BY <1>3 DEF ForwardOne, Pass, queues
    <2>2. /\ drain' = [step |-> "idle", subscription |-> "null", forward |-> << >>]
          /\ << >> \in Seq(BrokerMessage) /\ Len(<< >>) = 0
      BY <2>1 DEF Idle
    <2>3. BrokerTypeOK'
      BY <1>1, <2>1, <2>2 DEF BrokerTypeOK
    <2>4. Stop' = Stop
      BY <1>1, <1>3, <2>1, <2>2 DEF Stop
    <2>5. EachIsTaken' /\ PlacesUsed' /\ DefaultInOrder' /\ OneStop' /\ HeardComes'
      BY <1>1, <1>2, <2>1, <2>2, <2>4
         DEF BrokerInv, EachIsTaken, PlacesUsed, DefaultInOrder, OneStop, HeardComes
    <2> QED BY <2>3, <2>5 DEF BrokerInv
  <1>4. CASE F # << >> /\ drain.subscription # "entity"
    <2>1. undefined' = TRUE /\ UNCHANGED <<executed, called_ended, own_actions, default_actions, drain>>
      BY <1>4 DEF ForwardOne, Pass, queues
    <2>2. BrokerTypeOK' /\ Stop' = Stop
      BY <1>1, <2>1 DEF BrokerTypeOK, Stop
    <2>3. EachIsTaken' /\ PlacesUsed' /\ DefaultInOrder' /\ OneStop' /\ HeardComes'
      BY <1>1, <1>2, <2>1, <2>2
         DEF BrokerInv, EachIsTaken, PlacesUsed, DefaultInOrder, OneStop, HeardComes
    <2> QED BY <2>2, <2>3 DEF BrokerInv
  <1>5. CASE F # << >> /\ drain.subscription = "entity"
    <2>1. /\ drain' = [drain EXCEPT !.forward = Tail(F)] /\ undefined' = undefined
          /\ invoke(Head(F), default_actions, subscription)
      BY <1>5 DEF ForwardOne
    <2>2. Stop["forward"] = F /\ "forward" \in Stops /\ "executed" \in Stops /\ "own" \in Stops
      BY <1>1
    <2>3. Head(F) = h /\ h \in BrokerMessage /\ Tail(F) \in Seq(BrokerMessage) /\ Len(F) # 0
      <3>1. F \in Seq(BrokerMessage)
        BY <1>1 DEF BrokerTypeOK
      <3>2. /\ Head(F) = F[1] /\ Head(F) \in BrokerMessage /\ Tail(F) \in Seq(BrokerMessage)
            /\ Len(F) = Len(Tail(F)) + 1 /\ Len(Tail(F)) \in Nat
        BY <1>5, <3>1, Shorter
      <3> QED BY <2>2, <3>2
    <2>4. ~InOrder
      BY <2>3 DEF BrokerInv, PlacesUsed
    <2>5. /\ drain'.forward = Tail(F) /\ drain'.step = "forward"
          /\ drain' \in [step : {"idle", "look", "move", "erase", "forward"},
                         subscription : {"null", "entity"}, forward : Seq(BrokerMessage)]
      BY <1>1, <2>1, <2>3 DEF BrokerTypeOK
    <2> HIDE DEF h
    <2>6. /\ UNCHANGED default_actions
          /\ \/ executed' = Append(executed, h) /\ called_ended' \in BOOLEAN /\ UNCHANGED own_actions
             \/ own_actions' = Append(own_actions, h) /\ UNCHANGED <<executed, called_ended>>
             \/ UNCHANGED <<executed, own_actions, called_ended>> /\ subscription = "absent"
      <3>1. CASE wire_scheduler = "own"
        BY <2>1, <2>3, <3>1 DEF invoke, Pass
      <3>2. CASE wire_scheduler = "synchronous"
        <4>1. ExecuteIfKnown(h, subscription) /\ UNCHANGED <<default_actions, own_actions>>
          BY <2>1, <2>3, <3>2 DEF invoke
        <4>2. (called_ended \/ entity = "ended") \in BOOLEAN
          BY <1>1 DEF BrokerTypeOK
        <4> QED BY <4>1, <4>2 DEF ExecuteIfKnown, execute, Pass
      <3> QED BY <1>1, <2>4, <3>1, <3>2 DEF BrokerTypeOK, InOrder
    <2>7. BrokerTypeOK'
      <3>1. Append(executed, h) \in Seq(BrokerMessage) /\ Append(own_actions, h) \in Seq(BrokerMessage)
        BY <1>1, <2>3, Longer DEF BrokerTypeOK
      <3>2. executed' \in Seq(BrokerMessage) /\ own_actions' \in Seq(BrokerMessage) /\ called_ended' \in BOOLEAN
        BY <1>1, <2>6, <3>1 DEF BrokerTypeOK
      <3> QED BY <1>1, <2>1, <2>5, <2>6, <3>2 DEF BrokerTypeOK
    <2>8. \/ Stop' = Gain(Lose(Stop, "forward"), "executed", h)
          \/ Stop' = Gain(Lose(Stop, "forward"), "own", h)
          \/ Stop' = Lose(Stop, "forward") /\ subscription = "absent"
      <3>1. CASE executed' = Append(executed, h) /\ own_actions' = own_actions
        <4>1. Stop' = Gain(Lose(Stop, "forward"), "executed", h)
          BY <1>1, <2>5, <3>1 DEF Stop, Stops, Gain, Lose
        <4> QED BY <4>1
      <3>2. CASE own_actions' = Append(own_actions, h) /\ executed' = executed
        <4>1. Stop' = Gain(Lose(Stop, "forward"), "own", h)
          BY <1>1, <2>5, <3>2 DEF Stop, Stops, Gain, Lose
        <4> QED BY <4>1
      <3>3. CASE executed' = executed /\ own_actions' = own_actions /\ subscription = "absent"
        <4>1. Stop' = Lose(Stop, "forward")
          BY <1>1, <2>5, <3>3 DEF Stop, Stops, Lose
        <4> QED BY <3>3, <4>1
      <3> QED BY <2>6, <3>1, <3>2, <3>3
    <2>9. \/ \E o \in Stops : o # "kept" /\ Stop' = Gain(Lose(Stop, "forward"), o, Stop["forward"][1])
          \/ Stop' = Lose(Stop, "forward") /\ subscription = "absent"
      BY <2>2, <2>8 DEF h
    <2>10. Stop["forward"] # << >> /\ drain'.step = drain.step
      BY <1>1, <1>5, <2>2, <2>5
    <2> QED BY <1>1, <2>1, <2>2, <2>4, <2>6, <2>7, <2>9, <2>10, DrainGoesOn
  <1> QED BY <1>3, <1>4, <1>5

\* Whether a message was the last one that is kept.
LEMMA LookStep == ASSUME BrokerInv, Look PROVE BrokerInv'
  <1> USE BrokerTyped
  <1>1. /\ BrokerTypeOK /\ drain.step = "look" /\ Len(drain.forward) = 0
        /\ UNCHANGED <<wire_scheduler, dispatches, entity, subscription, broker, default_actions,
                       own_actions, executed, heard, swept, undefined, called_ended>>
    BY DEF BrokerInv, PlacesUsed, Look, queues, outcome
  <1>2. /\ << >> \in Seq(BrokerMessage) /\ Len(<< >>) = 0
        /\ drain.forward \in Seq(BrokerMessage) /\ drain.forward = << >>
    BY <1>1, EmptySeq DEF BrokerTypeOK
  <1>3. /\ drain'.forward = drain.forward /\ drain'.step \in {"idle", "move"}
        /\ drain' \in [step : {"idle", "look", "move", "erase", "forward"},
                       subscription : {"null", "entity"}, forward : Seq(BrokerMessage)]
        /\ drain'.step = "idle" => Len(broker.default_messages) # 0
    <2>1. CASE broker.default_messages = << >>
      <3>1. drain' = [drain EXCEPT !.step = "move"]
        BY <2>1 DEF Look, IsLast
      <3> QED BY <1>1, <3>1 DEF BrokerTypeOK
    <2>2. CASE broker.default_messages # << >>
      <3>1. drain' = [step |-> "idle", subscription |-> "null", forward |-> << >>]
        BY <2>2 DEF Look, IsLast, Idle
      <3>2. broker.default_messages \in Seq(Nat)
        BY <1>1
      <3>3. Len(broker.default_messages) # 0
        BY <2>2, <3>2, EmptySeq
      <3> QED BY <1>2, <3>1, <3>3
    <2> QED BY <2>1, <2>2
  <1>4. BrokerTypeOK'
    BY <1>1, <1>3 DEF BrokerTypeOK
  <1>5. Stop' = Stop /\ InOrder' = InOrder
    BY <1>1, <1>3 DEF Stop, InOrder
  <1>6. EachIsTaken' /\ PlacesUsed'
    BY <1>1, <1>3, <1>5 DEF BrokerInv, EachIsTaken, PlacesUsed
  <1>7. DefaultInOrder' /\ OneStop' /\ HeardComes'
    BY <1>1, <1>5 DEF BrokerInv, DefaultInOrder, OneStop, HeardComes
  <1> QED BY <1>4, <1>6, <1>7 DEF BrokerInv

\* The Mq is moved out: what was put aside in it is to be forwarded.
MovedOut(s) == [s EXCEPT !["forward"] = s["custom"], !["custom"] = << >>, !["kept"] = << >>]

LEMMA MovedStops ==
    ASSUME NEW s \in [Stops -> Seq(Nat)], Len(s["forward"]) = 0
    PROVE  /\ \A last \in Nat : NumberedTo(s, last) => NumberedTo(MovedOut(s), last)
           /\ Apart(s) => Apart(MovedOut(s))
           /\ \A A, x : Comes(x, s, A) => Comes(x, MovedOut(s), A)
  <1> DEFINE new == MovedOut(s)
             from(p) == IF p = "forward" THEN "custom" ELSE p
  <1>1. /\ new["forward"] = s["custom"] /\ Len(new["custom"]) = 0 /\ Len(new["kept"]) = 0
        /\ new["executed"] = s["executed"] /\ new["own"] = s["own"]
    BY DEF MovedOut, Stops
  <1>2. ASSUME NEW p \in Stops, NEW i \in 1 .. Len(new[p])
        PROVE  /\ from(p) \in Stops /\ i \in 1 .. Len(s[from(p)]) /\ new[p][i] = s[from(p)][i]
               /\ p \notin {"custom", "kept"}
    <2>1. p \notin {"custom", "kept"}
      BY <1>1
    <2> QED BY <1>1, <2>1 DEF Stops
  <1>3. ASSUME NEW p \in Stops, NEW r \in Stops, p \notin {"custom", "kept"}, r \notin {"custom", "kept"},
               from(p) = from(r)
        PROVE  p = r
    BY <1>3
  <1>4. ASSUME NEW A, NEW x, Comes(x, s, A) PROVE Comes(x, new, A)
    <2>1. CASE \E i \in 1 .. Len(A) : A[i] = InvokeAction(x)
      BY <2>1 DEF Comes
    <2>2. CASE \E p \in Stops \ {"kept"} : \E i \in 1 .. Len(s[p]) : s[p][i] = x
      <3>1. PICK p \in Stops \ {"kept"} : \E i \in 1 .. Len(s[p]) : s[p][i] = x
        BY <2>2
      <3>2. p # "forward"
        BY <3>1
      <3> DEFINE o == IF p = "custom" THEN "forward" ELSE p
      <3>3. o \in Stops \ {"kept"} /\ new[o] = s[p]
        BY <1>1, <3>2 DEF Stops
      <3> HIDE DEF o, new
      <3>4. \E i \in 1 .. Len(new[o]) : new[o][i] = x
        BY <3>1, <3>3
      <3> QED BY <3>3, <3>4 DEF Comes
    <2> QED BY <1>4, <2>1, <2>2 DEF Comes
  <1> HIDE DEF new, from
  <1>5. ASSUME NEW last \in Nat, NumberedTo(s, last) PROVE NumberedTo(new, last)
    BY <1>2, <1>5 DEF NumberedTo
  <1>6. ASSUME Apart(s) PROVE Apart(new)
    <2> SUFFICES ASSUME NEW p \in Stops, NEW r \in Stops, NEW i \in 1 .. Len(new[p]),
                        NEW j \in 1 .. Len(new[r]), new[p][i] = new[r][j]
                 PROVE  p = r /\ i = j
      BY DEF Apart
    <2>1. /\ from(p) \in Stops /\ i \in 1 .. Len(s[from(p)]) /\ p \notin {"custom", "kept"}
          /\ from(r) \in Stops /\ j \in 1 .. Len(s[from(r)]) /\ r \notin {"custom", "kept"}
          /\ s[from(p)][i] = s[from(r)][j]
      BY <1>2
    <2>2. from(p) = from(r) /\ i = j
      BY <1>6, <2>1 DEF Apart
    <2> QED BY <1>3, <2>1, <2>2
  <1> QED BY <1>4, <1>5, <1>6 DEF new

LEMMA MoveStep == ASSUME BrokerInv, Move PROVE BrokerInv'
  <1> DEFINE A == default_actions
  <1> USE BrokerTyped
  <1>1. /\ BrokerTypeOK /\ drain.step = "move" /\ Len(drain.forward) = 0
        /\ drain' = [drain EXCEPT !.step = "erase", !.forward = broker.custom_messages]
        /\ broker' = [broker EXCEPT !.default_messages = << >>, !.custom_messages = << >>]
        /\ UNCHANGED <<wire_scheduler, dispatches, entity, subscription, default_actions,
                       own_actions, executed, heard, swept, undefined, called_ended>>
    BY DEF BrokerInv, PlacesUsed, Move, queues, outcome
  <1>2. /\ drain'.step = "erase" /\ drain'.forward = broker.custom_messages
        /\ drain' \in [step : {"idle", "look", "move", "erase", "forward"},
                       subscription : {"null", "entity"}, forward : Seq(BrokerMessage)]
    BY <1>1 DEF BrokerTypeOK
  <1>3. /\ broker'.exists = broker.exists /\ broker'.default_messages = << >>
        /\ broker'.custom_messages = << >> /\ broker'.erased = broker.erased /\ Len(<< >>) = 0
        /\ broker' \in [exists : BOOLEAN, default_messages : Seq(BrokerMessage),
                        custom_messages : Seq(BrokerMessage), erased : Nat]
    <2>1. << >> \in Seq(BrokerMessage) /\ Len(<< >>) = 0
      BY <1>1
    <2> QED BY <1>1, <2>1 DEF BrokerTypeOK
  <1>4. BrokerTypeOK'
    BY <1>1, <1>2, <1>3 DEF BrokerTypeOK
  <1>5. InOrder' = InOrder /\ Stop' = MovedOut(Stop)
    <2>1. InOrder' = InOrder
      BY <1>1 DEF InOrder
    <2>2. Stop' = MovedOut(Stop)
      BY <1>1, <1>2, <1>3 DEF Stop, Stops, MovedOut
    <2> QED BY <2>1, <2>2
  <1>6. EachIsTaken'
    BY <1>1, <1>2, <1>3 DEF BrokerInv, EachIsTaken
  <1>7. PlacesUsed'
    BY <1>1, <1>2, <1>3, <1>5 DEF BrokerInv, PlacesUsed
  <1>8. DefaultInOrder'
    <2>1. 1 .. Len(<< >>) = {}
      OBVIOUS
    <2>2. Rising(<< >>) /\ Before(executed, << >>)
      BY <2>1 DEF Rising, Before
    <2> QED BY <1>1, <1>3, <1>5, <2>2 DEF BrokerInv, DefaultInOrder
  <1>9. /\ NumberedTo(Stop, dispatches) => NumberedTo(Stop', dispatches)
        /\ Apart(Stop) => Apart(Stop')
        /\ \A x : Comes(x, Stop, A) => Comes(x, Stop', A)
    BY <1>1, <1>5, MovedStops
  <1>10. OneStop' /\ HeardComes'
    BY <1>1, <1>5, <1>9 DEF BrokerInv, OneStop, HeardComes, A
  <1> QED BY <1>4, <1>6, <1>7, <1>8, <1>10 DEF BrokerInv

\* The Mq is erased, with what has come into it since.
Dropped(s) == [s EXCEPT !["custom"] = << >>, !["kept"] = << >>]

LEMMA EraseStep == ASSUME BrokerInv, Erase PROVE BrokerInv'
  <1> DEFINE e == broker.erased
             A == default_actions
  <1> USE BrokerTyped
  <1>1. /\ BrokerTypeOK /\ drain.step = "erase"
        /\ drain' = [drain EXCEPT !.step = "forward"]
        /\ broker' = Mq(FALSE, << >>, << >>, e + 1)
        /\ UNCHANGED <<wire_scheduler, dispatches, entity, subscription, default_actions,
                       own_actions, executed, heard, swept, undefined, called_ended>>
    BY DEF BrokerInv, PlacesUsed, Erase, queues, outcome
  <1>2. /\ drain'.step = "forward" /\ drain'.forward = drain.forward
        /\ drain' \in [step : {"idle", "look", "move", "erase", "forward"},
                       subscription : {"null", "entity"}, forward : Seq(BrokerMessage)]
    BY <1>1 DEF BrokerTypeOK
  <1>3. /\ broker'.exists = FALSE /\ broker'.default_messages = << >> /\ broker'.custom_messages = << >>
        /\ broker'.erased = e + 1 /\ Len(<< >>) = 0
        /\ broker' \in [exists : BOOLEAN, default_messages : Seq(BrokerMessage),
                        custom_messages : Seq(BrokerMessage), erased : Nat]
    <2>1. e + 1 \in Nat /\ << >> \in Seq(BrokerMessage) /\ Len(<< >>) = 0
      BY <1>1
    <2> QED BY <1>1, <2>1 DEF Mq
  <1>4. BrokerTypeOK'
    BY <1>1, <1>2, <1>3 DEF BrokerTypeOK
  <1>5. InOrder' = InOrder /\ Stop' = Dropped(Stop)
    <2>1. InOrder' = InOrder
      BY <1>1 DEF InOrder
    <2>2. Stop' = Dropped(Stop)
      BY <1>1, <1>2, <1>3 DEF Stop, Stops, Dropped
    <2> QED BY <2>1, <2>2
  <1>6. EachIsTaken'
    <2> SUFFICES ASSUME ~undefined PROVE EachIsTaken'
      BY <1>1 DEF EachIsTaken
    <2>1. \A i \in 1 .. Len(A) : A[i].msg \in Nat
      <3>1. A \in Seq(BrokerAction)
        BY <1>1
      <3>2. \A i \in 1 .. Len(A) : A[i] \in BrokerAction
        BY <3>1, ElementOfSeq
      <3>3. \A a \in BrokerAction : a.msg \in Nat
        BY DEF BrokerAction
      <3> QED BY <3>2, <3>3
    <2>2. \A i \in 1 .. Len(A) : A[i].kind = "drain" => A[i].msg <= e
      BY DEF BrokerInv, EachIsTaken, A, e
    <2>3. \A i \in 1 .. Len(A) : A[i].kind = "drain" => A[i].msg <= e + 1 /\ A[i].msg # e + 1
      BY <1>1, <2>1, <2>2 DEF e
    <2>4. \A i \in 1 .. Len(A) : A[i] # DrainAction(e + 1)
      BY <2>3 DEF DrainAction
    <2>5. Awaited(<< >>, A, e + 1, InOrder)
      <3>1. e + 1 \in Nat /\ A \in Seq(BrokerAction) /\ InOrder \in BOOLEAN
        BY <1>1
      <3> QED BY <2>4, <3>1, NothingKept
    <2> QED BY <1>1, <1>2, <1>3, <1>5, <2>3, <2>5 DEF EachIsTaken, A, e
  <1>7. PlacesUsed'
    BY <1>1, <1>2, <1>3, <1>5 DEF BrokerInv, PlacesUsed
  <1>8. DefaultInOrder'
    <2>1. 1 .. Len(<< >>) = {}
      OBVIOUS
    <2>2. Rising(<< >>) /\ Before(executed, << >>)
      BY <2>1 DEF Rising, Before
    <2> QED BY <1>1, <1>3, <1>5, <2>2 DEF BrokerInv, DefaultInOrder
  <1>9. \A p \in Stops :
            \/ Dropped(Stop)[p] = Stop[p]
            \/ p \in {"custom", "kept"} /\ Len(Dropped(Stop)[p]) = 0
    BY <1>1 DEF Dropped, Stops
  <1>10. OneStop'
    <2>1. /\ NumberedTo(Stop, dispatches) => NumberedTo(Dropped(Stop), dispatches)
          /\ Apart(Stop) => Apart(Dropped(Stop))
      BY <1>9 DEF NumberedTo, Apart
    <2> QED BY <1>1, <1>5, <2>1 DEF BrokerInv, OneStop
  <1>11. HeardComes'
    <2>1. ASSUME NEW m \in heard \ swept, Comes(m, Stop, A) PROVE Comes(m, Dropped(Stop), A)
      <3>1. CASE \E i \in 1 .. Len(A) : A[i] = InvokeAction(m)
        BY <3>1 DEF Comes
      <3>2. CASE \E p \in Stops \ {"kept"} : \E i \in 1 .. Len(Stop[p]) : Stop[p][i] = m
        <4>1. PICK p \in Stops \ {"kept"} : \E i \in 1 .. Len(Stop[p]) : Stop[p][i] = m
          BY <3>2
        <4>2. p # "custom"
          BY <1>1, <4>1 DEF BrokerInv, PlacesUsed
        <4>3. Dropped(Stop)[p] = Stop[p]
          BY <1>9, <4>1, <4>2
        <4> QED BY <4>1, <4>3 DEF Comes
      <3> QED BY <2>1, <3>1, <3>2 DEF Comes
    <2> QED BY <1>1, <1>5, <2>1 DEF BrokerInv, HeardComes, A
  <1> QED BY <1>4, <1>6, <1>7, <1>8, <1>10, <1>11 DEF BrokerInv

\* An action that carries a message itself runs.
LEMMA InvokedStep == ASSUME BrokerInv, Invoked PROVE BrokerInv'
  <1> DEFINE A == default_actions
             D == broker.default_messages
             x == A[1].msg
  <1> USE BrokerTyped
  <1>1. /\ BrokerTypeOK /\ ~undefined /\ A # << >> /\ A' = Tail(A)
        /\ drain.step = "idle" /\ Head(A).kind = "invoke" /\ ExecuteIfKnown(Head(A).msg, subscription)
        /\ UNCHANGED <<wire_scheduler, dispatches, entity, subscription, broker, own_actions, drain,
                       heard, swept, undefined>>
    BY DEF BrokerInv, Invoked, Idle
  <1>2. /\ Head(A) = A[1] /\ A[1] \in BrokerAction /\ 1 \in 1 .. Len(A)
        /\ Tail(A) \in Seq(BrokerAction)
        /\ \A i \in 1 .. Len(Tail(A)) : Tail(A)[i] = A[i + 1] /\ i + 1 \in 1 .. Len(A)
    BY <1>1, Shorter
  <1>3. A[1].kind = "invoke" /\ A[1] = InvokeAction(x) /\ x \in Nat
    BY <1>1, <1>2 DEF BrokerAction, InvokeAction
  <1>4. InOrder /\ InOrder'
    <2>1. A[1].kind # "drain"
      BY <1>3
    <2>2. InOrder
      BY <1>2, <2>1 DEF BrokerInv, PlacesUsed, A
    <2> QED BY <1>1, <2>2 DEF InOrder
  <1>5. /\ Rising(executed) /\ Rising(D) /\ Before(executed, D) /\ Carried(executed, A, dispatches)
        /\ Awaited(D, A, broker.erased, InOrder)
    BY <1>1, <1>4 DEF BrokerInv, DefaultInOrder, EachIsTaken, A, D
  <1>6. /\ Carried(executed, Tail(A), dispatches) /\ \A j \in 1 .. Len(executed) : executed[j] < x
        /\ Carried(Append(executed, x), Tail(A), dispatches)
    BY <1>1, <1>3, <1>5, CarriesLess DEF A, x
  <1>7. Awaited(D, Tail(A), broker.erased, InOrder) /\ \A k \in 1 .. Len(D) : x < D[k]
    BY <1>1, <1>3, <1>4, <1>5, CarriedOne DEF A, D, x
  <1>8. x \in 1 .. dispatches /\ x \in BrokerMessage
    <2>1. x \in 1 .. dispatches
      BY <1>2, <1>3, <1>5 DEF Carried
    <2>2. dispatches <= MaxMessages /\ dispatches \in Nat
      BY <1>1 DEF BrokerInv, OneStop
    <2> QED BY <2>1, <2>2, MessagesAssumption DEF BrokerMessage
  <1>9. \/ executed' = Append(executed, x) /\ called_ended' \in BOOLEAN
        \/ UNCHANGED <<executed, called_ended>> /\ subscription = "absent"
    <2>1. (called_ended \/ entity = "ended") \in BOOLEAN
      BY <1>1 DEF BrokerTypeOK
    <2> QED BY <1>1, <1>2, <2>1 DEF ExecuteIfKnown, execute, Pass
  <1> HIDE DEF x, A, D
  <1>10. BrokerTypeOK'
    <2>1. Append(executed, x) \in Seq(BrokerMessage)
      BY <1>1, <1>8, Longer DEF BrokerTypeOK
    <2>2. executed' \in Seq(BrokerMessage) /\ called_ended' \in BOOLEAN
      BY <1>1, <1>9, <2>1 DEF BrokerTypeOK
    <2> QED BY <1>1, <1>2, <2>2 DEF BrokerTypeOK, BrokerAction, A
  <1>11. EachIsTaken'
    <2>1. \A i \in 1 .. Len(Tail(A)) : Tail(A)[i].kind = "drain" => Tail(A)[i].msg <= broker.erased
      BY <1>1, <1>2 DEF BrokerInv, EachIsTaken, A
    <2> QED BY <1>1, <1>4, <1>7, <2>1 DEF BrokerInv, EachIsTaken, A, D
  <1>12. PlacesUsed'
    BY <1>1, <1>4 DEF BrokerInv, PlacesUsed
  <1>13. DefaultInOrder'
    <2>1. CASE executed' = executed
      BY <1>1, <1>4, <1>5, <1>6, <2>1 DEF DefaultInOrder, A, D
    <2>2. CASE executed' = Append(executed, x)
      <3>1. executed \in Seq(Nat) /\ D \in Seq(Nat)
        BY <1>1 DEF D
      <3>2. Rising(Append(executed, x))
        BY <1>3, <1>5, <1>6, <3>1, RisesOn
      <3>3. Before(Append(executed, x), D)
        <4>1. /\ Len(Append(executed, x)) = Len(executed) + 1 /\ Append(executed, x)[Len(executed) + 1] = x
              /\ \A i \in 1 .. Len(executed) : Append(executed, x)[i] = executed[i]
              /\ \A i \in 1 .. Len(executed) + 1 : i \in 1 .. Len(executed) \/ i = Len(executed) + 1
          BY <1>3, <3>1, Longer
        <4> QED BY <1>5, <1>7, <4>1 DEF Before
      <3> QED BY <1>1, <1>4, <1>5, <1>6, <2>2, <3>2, <3>3 DEF DefaultInOrder, A, D
    <2> QED BY <1>9, <2>1, <2>2
  <1>14. CASE executed' = Append(executed, x)
    <2>1. Stop' = Gain(Stop, "executed", x) /\ "executed" \in Stops
      BY <1>1, <1>14 DEF Stop, Stops, Gain
    <2>2. NumberedTo(Stop, dispatches) /\ dispatches <= MaxMessages /\ dispatches \in Nat
      BY <1>1 DEF BrokerInv, OneStop
    <2>3. /\ NumberedTo(Stop', dispatches)
          /\ \A y : Comes(y, Stop, Tail(A)) \/ y = x => Comes(y, Stop', Tail(A))
      BY <1>1, <1>3, <1>8, <2>1, <2>2, Gained
    <2>4. \A y : Comes(y, Stop, A) => Comes(y, Stop', Tail(A))
      <3>1. \A y : Comes(y, Stop, A) /\ A[1] # InvokeAction(y) => Comes(y, Stop, Tail(A))
        <4>1. A \in Seq(BrokerAction) /\ A[1] \in BrokerAction /\ A # << >>
          BY <1>1, <1>2 DEF A
        <4> QED BY <4>1, ComesStill
      <3>2. \A y : A[1] = InvokeAction(y) => y = x
        BY <1>3 DEF InvokeAction
      <3> QED BY <2>3, <3>1, <3>2
    <2>5. OneStop'
      BY <1>1, <1>4, <2>2, <2>3 DEF OneStop
    <2>6. HeardComes'
      BY <1>1, <2>4 DEF BrokerInv, HeardComes, A
    <2> QED BY <1>10, <1>11, <1>12, <1>13, <2>5, <2>6 DEF BrokerInv
  <1>15. CASE UNCHANGED <<executed, called_ended>> /\ subscription = "absent"
    <2>1. Stop' = Stop
      BY <1>1, <1>15 DEF Stop
    <2>2. OneStop' /\ HeardComes'
      BY <1>1, <1>4, <1>15, <2>1 DEF BrokerInv, OneStop, HeardComes
    <2> QED BY <1>10, <1>11, <1>12, <1>13, <2>2 DEF BrokerInv
  <1> QED BY <1>9, <1>14, <1>15

\* The program advises the entity, or ends its lifetime.
LEMMA ProgramStep == ASSUME BrokerInv, advise_on \/ EndLifetime PROVE BrokerInv'
  <1>1. /\ \/ entity = "unadvised" /\ entity' = "advised" /\ subscription' = "entity"
           \/ entity = "advised" /\ entity' = "ended" /\ subscription' = "absent"
        /\ UNCHANGED <<wire_scheduler, dispatches, broker, default_actions, own_actions, drain,
                       executed, heard, swept, undefined, called_ended>>
    BY DEF advise_on, EndLifetime, queues, outcome
  <1>2. BrokerTypeOK'
    BY <1>1 DEF BrokerInv, BrokerTypeOK
  <1>3. Stop' = Stop /\ InOrder' = InOrder
    BY <1>1 DEF Stop, InOrder
  <1>4. EachIsTaken' /\ PlacesUsed' /\ DefaultInOrder' /\ OneStop' /\ HeardComes'
    BY <1>1, <1>3 DEF BrokerInv, EachIsTaken, PlacesUsed, DefaultInOrder, OneStop, HeardComes
  <1> QED BY <1>2, <1>4 DEF BrokerInv

LEMMA BrokerInvInit == BrokerInit => BrokerInv
  <1> SUFFICES ASSUME BrokerInit PROVE BrokerInv
    OBVIOUS
  <1>1. /\ dispatches = 0 /\ entity = "unadvised" /\ subscription = "absent"
        /\ broker.exists = FALSE /\ broker.default_messages = << >>
        /\ broker.custom_messages = << >> /\ broker.erased = 0
        /\ default_actions = << >> /\ own_actions = << >>
        /\ drain.step = "idle" /\ drain.forward = << >>
        /\ executed = << >> /\ heard = {} /\ swept = {}
    BY DEF BrokerInit, Mq, Idle
  <1>2. Len(<< >>) = 0 /\ 1 .. Len(<< >>) = {}
    OBVIOUS
  <1>3. BrokerTypeOK
    <2>1. << >> \in Seq(BrokerMessage) /\ << >> \in Seq([kind : {"drain", "invoke"}, msg : Nat])
      OBVIOUS
    <2> QED BY <2>1 DEF BrokerInit, BrokerTypeOK, Mq, Idle
  <1>4. EachIsTaken
    <2>1. InOrder \in BOOLEAN /\ << >> \in Seq(BrokerAction)
      BY <1>3, BrokerTyped
    <2>2. Awaited(<< >>, << >>, 0, InOrder)
      BY <1>2, <2>1, NothingKept
    <2> QED BY <1>1, <1>2, <2>2 DEF EachIsTaken
  <1>5. PlacesUsed
    BY <1>1, <1>2 DEF PlacesUsed
  <1>6. DefaultInOrder
    BY <1>1, <1>2 DEF DefaultInOrder, Rising, Before, Carried
  <1>7. OneStop
    <2>1. \A p \in Stops : Stop[p] = << >>
      BY <1>1 DEF Stop, Stops
    <2>2. NumberedTo(Stop, dispatches) /\ Apart(Stop)
      BY <1>2, <2>1 DEF NumberedTo, Apart
    <2> QED BY <1>1, <2>2, MessagesAssumption DEF OneStop
  <1>8. HeardComes
    BY <1>1 DEF HeardComes
  <1> QED BY <1>3, <1>4, <1>5, <1>6, <1>7, <1>8 DEF BrokerInv

LEMMA BrokerInvStep == BrokerInv /\ [BrokerNext]_brokerVars => BrokerInv'
  <1> SUFFICES ASSUME BrokerInv, [BrokerNext]_brokerVars PROVE BrokerInv'
    OBVIOUS
  <1>1. CASE dispatch
    BY <1>1, UnknownStep, QueuedStep, GivenStep
  <1>6. CASE DispatchToErased
    BY <1>6, ErasedUsedStep
  <1>2. CASE DrainOne
    BY <1>2, FreedStep, TakeMessageStep
  <1>3. CASE Look \/ Move \/ Erase \/ ForwardOne \/ Invoked
    BY <1>3, LookStep, MoveStep, EraseStep, ForwardStep, InvokedStep
  <1>4. CASE advise_on \/ EndLifetime \/ OwnScheduler
    BY <1>4, ProgramStep, OwnStep
  <1>5. CASE UNCHANGED brokerVars
    <2>1. UNCHANGED <<wire_scheduler, dispatches, entity, subscription, broker, default_actions,
                      own_actions, drain, executed, heard, swept, undefined, called_ended>>
      BY <1>5 DEF brokerVars, queues, outcome
    <2>2. Stop' = Stop /\ InOrder' = InOrder
      BY <2>1 DEF Stop, InOrder
    <2>3. BrokerTypeOK'
      BY <2>1 DEF BrokerInv, BrokerTypeOK
    <2>4. EachIsTaken' /\ PlacesUsed' /\ DefaultInOrder' /\ OneStop' /\ HeardComes'
      BY <2>1, <2>2 DEF BrokerInv, EachIsTaken, PlacesUsed, DefaultInOrder, OneStop, HeardComes
    <2> QED BY <2>3, <2>4 DEF BrokerInv
  <1> QED BY <1>1, <1>2, <1>3, <1>4, <1>5, <1>6 DEF BrokerNext

LEMMA BrokerInvariant == BrokerSpec => []BrokerInv
  <1> QED BY BrokerInvInit, BrokerInvStep, PTL DEF BrokerSpec

\* What the invariant says of the entity.
LEMMA HeardByInvariant == BrokerInv => HeardOnceInOrder
  <1> SUFFICES ASSUME BrokerInv PROVE HeardOnceInOrder
    OBVIOUS
  <1>1. BrokerTypeOK /\ executed \in Seq(Nat) /\ Stop["executed"] = executed /\ "executed" \in Stops
    BY BrokerTyped DEF BrokerInv
  <1>2. DOMAIN executed = 1 .. Len(executed) /\ \A i \in 1 .. Len(executed) : executed[i] \in Nat
    BY <1>1
  <1>3. DispatchedInOrder
    BY <1>2 DEF BrokerInv, DefaultInOrder, InOrder, Rising, DispatchedInOrder
  <1>4. \A j, k \in DOMAIN executed : executed[j] = executed[k] => j = k
    <2>1. CASE InOrder
      <3>1. \A j, k \in 1 .. Len(executed) : j < k => executed[j] < executed[k]
        BY <2>1 DEF BrokerInv, DefaultInOrder, Rising
      <3> SUFFICES ASSUME NEW j \in 1 .. Len(executed), NEW k \in 1 .. Len(executed),
                          executed[j] = executed[k], j # k
                   PROVE  FALSE
        BY <1>2
      <3>2. executed[j] \in Nat /\ executed[k] \in Nat
        BY <1>2
      <3>3. j < k \/ k < j
        OBVIOUS
      <3> QED BY <3>1, <3>2, <3>3
    <2>2. CASE ~InOrder
      BY <1>1, <1>2, <2>2 DEF BrokerInv, OneStop, Apart
    <2> QED BY <2>1, <2>2
  <1>5. ASSUME drain = Idle, default_actions = << >>, own_actions = << >>, entity = "advised", ~undefined,
               NEW m \in heard, m \notin swept
        PROVE  m \in ToSet(executed)
    <2>1. drain.step = "idle" /\ Len(drain.forward) = 0 /\ Len(own_actions) = 0 /\ Len(default_actions) = 0
      BY <1>5 DEF Idle
    <2>2. Len(broker.default_messages) = 0 /\ Len(broker.custom_messages) = 0
      <3>1. Awaited(broker.default_messages, default_actions, broker.erased, InOrder)
        BY <1>5, <2>1 DEF BrokerInv, EachIsTaken
      <3>2. PICK pos \in [1 .. Len(broker.default_messages) -> 1 .. Len(default_actions)] : TRUE
        BY <3>1 DEF Awaited
      <3>3. 1 .. Len(default_actions) = {}
        BY <2>1
      <3>4. \A k \in 1 .. Len(broker.default_messages) : FALSE
        BY <3>2, <3>3
      <3>5. Len(broker.default_messages) \in Nat
        BY <1>1, BrokerTyped
      <3>6. Len(broker.default_messages) = 0
        BY <3>4, <3>5
      <3> QED BY <1>5, <2>1, <3>6 DEF BrokerInv, EachIsTaken
    <2>3. Comes(m, Stop, default_actions)
      BY <1>5 DEF BrokerInv, HeardComes
    <2>4. \A p \in Stops \ {"kept", "executed"} : Len(Stop[p]) = 0
      BY <2>1, <2>2 DEF Stop, Stops
    <2>5. \E i \in 1 .. Len(executed) : executed[i] = m
      BY <1>1, <2>1, <2>3, <2>4 DEF Comes
    <2> QED BY <1>2, <2>5 DEF ToSet
  <1>6. wire_scheduler = "default" => swept = {}
    BY DEF BrokerInv, PlacesUsed, InOrder
  <1> QED BY <1>3, <1>4, <1>5, <1>6 DEF HeardOnce, HeardOnceInOrder

\* BrokerTypeOK: what the broker keeps is what its functions take it for.
THEOREM BrokerInductive ==
    /\ BrokerInit => BrokerInv
    /\ BrokerInv /\ [BrokerNext]_brokerVars => BrokerInv'
    /\ BrokerInv => BrokerTypeOK
  <1> QED BY BrokerInvInit, BrokerInvStep DEF BrokerInv

\* MessageBroker.cpp:52-124.  HeardOnceInOrder: whenever an entity advises, and whichever
\* scheduler it is on, it gets each message once at most, on the default scheduler in the
\* order of dispatch.  None that came while it was advised is left behind, but those that
\* dispatch puts aside between lines 92 and 93.
THEOREM DispatchedIsHeard == BrokerSpec => []HeardOnceInOrder
  <1> QED BY BrokerInvariant, HeardByInvariant, PTL

-----------------------------------------------------------------------------
(* The parts together.  A behaviour of MCRiderLink is one of a single part; *)
(* the program runs all of them, and their steps mix.  Messages go to one   *)
(* entity by its id, and no part changes what is another's, so that a step  *)
(* of all is for each part a step of its own or none.  The fairness that    *)
(* the parts state is left out; nothing here rests on it.                   *)

partsVars == <<propertyVars, callVars, extVars, linkVars, mapVars, listVars, brokerVars,
               lifetimeVars, schedulerVars>>

PartsInit ==
    /\ PropertyInit /\ MapInit /\ ListInit /\ BrokerInit /\ LifetimeInit
    /\ CallInit /\ ExtInit /\ SchedulerInit /\ LinkInit

\* A step of any part, at any time.
AnyPart ==
    \/ PropertyNext /\ OthersRest("property")
    \/ CallNext /\ OthersRest("call")
    \/ ExtNext /\ OthersRest("ext")
    \/ LinkNext /\ OthersRest("rider")
    \/ MapNext /\ OthersRest("map")
    \/ ListNext /\ OthersRest("list")
    \/ BrokerNext /\ OthersRest("broker")
    \/ LifetimeNext /\ OthersRest("lifetime")
    \/ SchedulerNext /\ OthersRest("scheduler")

Together == PartsInit /\ [][AnyPart]_partsVars

\* What each part's module says of it, without fairness.
EachAlone ==
    /\ PropertySpec /\ MapSpec /\ ListSpec /\ BrokerSpec /\ LifetimeSpec
    /\ CallInit /\ [][CallNext]_callVars
    /\ ExtInit /\ [][ExtNext]_extVars
    /\ SchedulerInit /\ [][SchedulerNext]_schedulerVars
    /\ LinkInit /\ [][LinkNext]_linkVars

EachSteps ==
    /\ [PropertyNext]_propertyVars /\ [MapNext]_mapVars /\ [ListNext]_listVars
    /\ [BrokerNext]_brokerVars /\ [LifetimeNext]_lifetimeVars
    /\ [CallNext]_callVars /\ [ExtNext]_extVars
    /\ [SchedulerNext]_schedulerVars /\ [LinkNext]_linkVars

\* What the run checks, a part at a time, is part of this.
LEMMA OneIsTogether == Spec => Together
  <1>1. Init => PartsInit
    BY DEF Init, PartsInit
  <1>2. [Next]_vars => [AnyPart]_partsVars
    BY DEF Next, vars, AnyPart, partsVars, Of
  <1> QED BY <1>1, <1>2, PTL DEF Spec, Together

\* A step is a step of the part it is of, and the others rest.
LEMMA PartsStep == [AnyPart]_partsVars => EachSteps
  <1>1. CASE UNCHANGED partsVars
    BY <1>1 DEF partsVars, EachSteps
  <1>2. CASE PropertyNext /\ OthersRest("property")
    BY <1>2 DEF OthersRest, EachSteps
  <1>3. CASE CallNext /\ OthersRest("call")
    BY <1>3 DEF OthersRest, EachSteps
  <1>4. CASE ExtNext /\ OthersRest("ext")
    BY <1>4 DEF OthersRest, EachSteps
  <1>5. CASE LinkNext /\ OthersRest("rider")
    BY <1>5 DEF OthersRest, EachSteps
  <1>6. CASE MapNext /\ OthersRest("map")
    BY <1>6 DEF OthersRest, EachSteps
  <1>7. CASE ListNext /\ OthersRest("list")
    BY <1>7 DEF OthersRest, EachSteps
  <1>8. CASE BrokerNext /\ OthersRest("broker")
    BY <1>8 DEF OthersRest, EachSteps
  <1>9. CASE LifetimeNext /\ OthersRest("lifetime")
    BY <1>9 DEF OthersRest, EachSteps
  <1>10. CASE SchedulerNext /\ OthersRest("scheduler")
    BY <1>10 DEF OthersRest, EachSteps
  <1> QED BY <1>1, <1>2, <1>3, <1>4, <1>5, <1>6, <1>7, <1>8, <1>9, <1>10 DEF AnyPart

LEMMA EachImplemented == Together => EachAlone
  <1>1. Together => PropertySpec
    <2>1. PartsInit => PropertyInit
      BY DEF PartsInit
    <2>2. [AnyPart]_partsVars => [PropertyNext]_propertyVars
      BY PartsStep DEF EachSteps
    <2> QED BY <2>1, <2>2, PTL DEF Together, PropertySpec
  <1>2. Together => MapSpec
    <2>1. PartsInit => MapInit
      BY DEF PartsInit
    <2>2. [AnyPart]_partsVars => [MapNext]_mapVars
      BY PartsStep DEF EachSteps
    <2> QED BY <2>1, <2>2, PTL DEF Together, MapSpec
  <1>3. Together => ListSpec
    <2>1. PartsInit => ListInit
      BY DEF PartsInit
    <2>2. [AnyPart]_partsVars => [ListNext]_listVars
      BY PartsStep DEF EachSteps
    <2> QED BY <2>1, <2>2, PTL DEF Together, ListSpec
  <1>4. Together => BrokerSpec
    <2>1. PartsInit => BrokerInit
      BY DEF PartsInit
    <2>2. [AnyPart]_partsVars => [BrokerNext]_brokerVars
      BY PartsStep DEF EachSteps
    <2> QED BY <2>1, <2>2, PTL DEF Together, BrokerSpec
  <1>5. Together => LifetimeSpec
    <2>1. PartsInit => LifetimeInit
      BY DEF PartsInit
    <2>2. [AnyPart]_partsVars => [LifetimeNext]_lifetimeVars
      BY PartsStep DEF EachSteps
    <2> QED BY <2>1, <2>2, PTL DEF Together, LifetimeSpec
  <1>6. Together => CallInit /\ [][CallNext]_callVars
    <2>1. PartsInit => CallInit
      BY DEF PartsInit
    <2>2. [AnyPart]_partsVars => [CallNext]_callVars
      BY PartsStep DEF EachSteps
    <2> QED BY <2>1, <2>2, PTL DEF Together
  <1>7. Together => ExtInit /\ [][ExtNext]_extVars
    <2>1. PartsInit => ExtInit
      BY DEF PartsInit
    <2>2. [AnyPart]_partsVars => [ExtNext]_extVars
      BY PartsStep DEF EachSteps
    <2> QED BY <2>1, <2>2, PTL DEF Together
  <1>8. Together => SchedulerInit /\ [][SchedulerNext]_schedulerVars
    <2>1. PartsInit => SchedulerInit
      BY DEF PartsInit
    <2>2. [AnyPart]_partsVars => [SchedulerNext]_schedulerVars
      BY PartsStep DEF EachSteps
    <2> QED BY <2>1, <2>2, PTL DEF Together
  <1>9. Together => LinkInit /\ [][LinkNext]_linkVars
    <2>1. PartsInit => LinkInit
      BY DEF PartsInit
    <2>2. [AnyPart]_partsVars => [LinkNext]_linkVars
      BY PartsStep DEF EachSteps
    <2> QED BY <2>1, <2>2, PTL DEF Together
  <1> QED BY <1>1, <1>2, <1>3, <1>4, <1>5, <1>6, <1>7, <1>8, <1>9 DEF EachAlone

\* The invariants of all parts.
PartsInv ==
    /\ PropertyInv /\ MapInv /\ ListInv /\ BrokerInv /\ LifetimeInv
    /\ CallInv /\ ExtInv /\ SchedulerInv /\ Inv /\ ModeInv /\ RepliesInv

LEMMA PartsInvariant == ASSUME Bound, Chosen PROVE Together => []PartsInv
  <1>1. EachAlone => [](PropertyInv /\ MapInv /\ ListInv /\ BrokerInv /\ LifetimeInv)
    BY PropertyInvariant, MapInductive, ListInductive, BrokerInvariant, LifetimesInductive,
       PTL DEF EachAlone
  <1>2. EachAlone => []CallInv
    BY CallInvInit, CallInvStep, PTL DEF EachAlone
  <1>3. EachAlone => []ExtInv
    BY ExtInvInit, ExtInvStep, PTL DEF EachAlone
  <1>4. EachAlone => []SchedulerInv
    BY SchedulerInvInit, SchedulerInvStep, PTL DEF EachAlone
  <1>5. EachAlone => [](Inv /\ ModeInv /\ RepliesInv)
    <2>1. LinkInit => Inv /\ ModeInv /\ RepliesInv
      BY InvInit, ModeInvInit, RepliesInit
    <2>2. Inv /\ ModeInv /\ RepliesInv /\ [LinkNext]_linkVars => (Inv /\ ModeInv /\ RepliesInv)'
      BY InvStep, ModeInvStep, RepliesStep
    <2> QED BY <2>1, <2>2, PTL DEF EachAlone
  <1> QED BY <1>1, <1>2, <1>3, <1>4, <1>5, EachImplemented, PTL DEF PartsInv

\* PartsTypeOK: the variables of all parts keep their types.
THEOREM PartsTypeCorrect ==
    ASSUME Bound, Chosen
    PROVE  (Together => []PartsTypeOK) /\ (Spec => []PartsTypeOK)
  <1>1. PartsInv => PartsTypeOK
    BY DEF PartsInv, PartsTypeOK, PropertyInv, MapInv, ListInv, BrokerInv, LifetimeInv,
           CallInv, ExtInv, SchedulerInv, Inv
  <1> QED BY <1>1, PartsInvariant, OneIsTogether, PTL

\* The entities, the extension and the call, the broker, the scheduler, the lifetimes and
\* the editor's modules keep, all at once, what each of them promises alone.
THEOREM PartsAreSafe ==
    ASSUME Bound, Chosen
    PROVE  Together => /\ [](PropertyConverges /\ MapConverges /\ ListsDifferOnlyReported)
                       /\ [](SuccessIsClean /\ HeardInOrder /\ HeardOnceInOrder)
                       /\ [](AliveModelIsCurrent /\ RiderKnowsMode /\ RepliedOnce)
                       /\ [](LifetimesEnd /\ QueuedIsRun)
                       /\ ResultIsFinal
  <1>1. EachAlone => [](PropertyConverges /\ MapConverges /\ ListsDifferOnlyReported)
    BY Converges, EntriesConverge, DifferOnlyReported, PTL DEF EachAlone
  <1>2. PartsInv => /\ SuccessIsClean /\ HeardInOrder /\ HeardOnceInOrder
                    /\ AliveModelIsCurrent /\ RiderKnowsMode /\ RepliedOnce
                    /\ LifetimesEnd /\ QueuedIsRun
    BY CleanByInvariant, HeardByFlow, HeardByInvariant, AliveByInvariant, ModeByInvariant,
       RepliedByInvariant, InvEnds, QueuedByInvariant DEF PartsInv
  <1>3. PartsInv /\ [CallNext]_callVars =>
            [\A id \in Ids :
                result[id] # "empty" /\ (terminated => id \in settled)
                    => result'[id] = result[id]]_callVars
    BY ResultStep DEF PartsInv, InTime
  <1>4. EachAlone => [][CallNext]_callVars
    BY PTL DEF EachAlone
  <1> QED BY <1>1, <1>2, <1>3, <1>4, EachImplemented, PartsInvariant, PTL DEF ResultIsFinal
=============================================================================

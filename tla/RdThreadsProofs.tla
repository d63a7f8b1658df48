---------------------------- MODULE RdThreadsProofs ----------------------------
(****************************************************************************)
(* Theorems about the parts of RD that several threads use: calls, the      *)
(* scheduler with a thread of its own, and lifetimes.                       *)
(****************************************************************************)
EXTENDS RdCall, RdScheduler, RdLifetime, SequenceTheorems, FiniteSetTheorems,
        WellFoundedInduction, TLAPS

-----------------------------------------------------------------------------
(* Calls, for any number of them: a result that is there in time stays, and *)
(* nothing goes wrong before a sync has failed.  The point of both is that, *)
(* as long as the lifetime lasts, a request has one answer, which is in one *)
(* place, be it in the hands of the thread that has looked and is about to  *)
(* set it: a task with its result has none coming.                          *)

Bound == MaxCalls \in Nat

\* What the threads that have looked are about to set, and all that is on its way.
Held == {to_set[by] : by \in Setters} \ {Nothing}
Coming == answers \cup scheduled \cup Held

\* A call that was not made has left no trace.
Unused ==
    \A id \in Ids : id > last_id =>
        /\ result[id] = "empty" /\ id \notin requests /\ id \notin subscribed
        /\ \A answer \in Coming : answer.id # id

Made == \A id \in Ids : id <= last_id => task[id] # "none"

\* Until a sync fails the task that sync_task_id stands for is waited for, and tasks
\* are destroyed with their results.
NoneFailed ==
    ~failed => /\ ~refused
               /\ sync_task_id # 0 => sync_task_id \in Ids /\ task[sync_task_id] = "waited"
               /\ \A id \in Ids : task[id] = "destroyed" => result[id] # "empty"

\* A call without a result is a request, an answer under way, one that is scheduled, or
\* one that a thread is about to set.
OnePlace ==
    ~terminated =>
        /\ \A id \in requests :
               /\ result[id] = "empty"
               /\ \A answer \in Coming : answer.id # id
        /\ \A answer \in Coming : result[answer.id] = "empty"
        /\ answers \cap scheduled = {} /\ (answers \cup scheduled) \cap Held = {}
        /\ \A by, other \in Setters : to_set[by] = to_set[other] => by = other \/ to_set[by] = Nothing
        /\ \A answer, other \in Coming : answer.id = other.id => answer = other

Untouched == ~failed => (touched => terminated)

\* A task that got its result in time is in nobody's hands.
InTime(id) == result[id] # "empty" /\ (terminated => id \in settled)
Decided == \A id \in Ids : InTime(id) => \A answer \in Held : answer.id # id
Settled == terminated => \A id \in settled : result[id] # "empty"

CallInv ==
    /\ CallTypeOK /\ Unused /\ Made /\ NoneFailed /\ OnePlace /\ Untouched
    /\ Decided /\ Settled

-----------------------------------------------------------------------------

\* To look, and to find no result, is to hold the answer.
LEMMA LookHolds ==
    ASSUME CallTypeOK, NEW by \in Setters, to_set[by] = Nothing, NEW answer \in Answers,
           set_if_empty(by, answer.id, answer.kind)
    PROVE  /\ to_set' \in [Setters -> Answers \cup {Nothing}]
           /\ \/ to_set' = to_set /\ Held' = Held
              \/ /\ result[answer.id] = "empty" /\ answer # Nothing
                 /\ to_set' = [to_set EXCEPT ![by] = answer] /\ Held' = Held \cup {answer}
  <1>1. answer = [id |-> answer.id, kind |-> answer.kind] /\ answer.id # 0
    BY DEF Answers, Ids
  <1>2. CASE to_set' = to_set
    BY <1>2 DEF CallTypeOK, Held
  <1>3. CASE result[answer.id] = "empty" /\ to_set' = [to_set EXCEPT ![by] = answer]
    <2>1. answer # Nothing
      BY <1>1 DEF Nothing
    <2>2. to_set' \in [Setters -> Answers \cup {Nothing}]
      BY <1>3 DEF CallTypeOK
    <2>3. Held' = Held \cup {answer}
      BY <1>3, <2>1 DEF CallTypeOK, Held
    <2> QED BY <1>3, <2>1, <2>2, <2>3
  <1> QED BY <1>1, <1>2, <1>3 DEF set_if_empty

\* Nothing has happened at first.
LEMMA CallInvInit == ASSUME Bound PROVE CallInit => CallInv
  <1> SUFFICES ASSUME CallInit PROVE CallInv
    OBVIOUS
  <1>1. CallTypeOK
    BY DEF CallInit, CallTypeOK, Bound, Kinds
  <1>2. Held = {}
    BY DEF CallInit, Held
  <1>3. Unused /\ Made /\ NoneFailed /\ OnePlace /\ Untouched
    BY <1>2 DEF CallInit, Unused, Made, NoneFailed, OnePlace, Untouched, Coming, Ids, Bound
  <1>4. Decided /\ Settled
    BY <1>2 DEF CallInit, Decided, Settled
  <1> QED BY <1>1, <1>3, <1>4 DEF CallInv

\* A new call has a number of its own, and sync is refused to nobody.
LEMMA StartStep == ASSUME Bound, CallInv, start_internal PROVE CallInv'
  <1> DEFINE id == last_id + 1
  <1>1. /\ last_id \in Nat /\ id \in Ids /\ last_id' = id /\ ~terminated /\ ~Waiting
        /\ subscribed' = subscribed \cup {id}
        /\ UNCHANGED <<result, to_set, answers, scheduled, terminated, settled, failed, touched>>
    BY DEF start_internal, CallInv, CallTypeOK, Ids, Bound, lasting
  <1>2. \/ /\ task' = [task EXCEPT ![id] = "destroyed"] /\ sync_task_id # 0
           /\ refused' = TRUE /\ UNCHANGED <<sync_task_id, requests>>
        \/ /\ task' = [task EXCEPT ![id] = "waited"] /\ requests' = requests \cup {id}
           /\ sync_task_id' = id /\ refused' = refused
        \/ /\ task' = [task EXCEPT ![id] = "kept"] /\ requests' = requests \cup {id}
           /\ UNCHANGED <<sync_task_id, refused>>
    BY DEF start_internal, StartSync, Start, Send
  <1>3. /\ result[id] = "empty" /\ id \notin requests
        /\ \A answer \in Coming : answer.id # id
    BY <1>1 DEF CallInv, Unused
  <1> HIDE DEF id
  <1>4. ~failed => sync_task_id = 0
    BY <1>1 DEF CallInv, NoneFailed, Waiting
  <1>h. Held' = Held /\ Coming' = Coming
    BY <1>1 DEF Held, Coming
  <1>5. CallTypeOK'
    <2>1. task' \in [Ids -> {"none", "waited", "kept", "destroyed"}]
      BY <1>1, <1>2 DEF CallInv, CallTypeOK
    <2>2. /\ subscribed' \subseteq Ids /\ requests' \subseteq Ids
      BY <1>1, <1>2 DEF CallInv, CallTypeOK
    <2>3. id \in Nat
      BY <1>1 DEF id
    <2>4. sync_task_id' \in Nat /\ last_id' \in Nat /\ refused' \in BOOLEAN
      BY <1>1, <1>2, <2>3 DEF CallInv, CallTypeOK
    <2> QED BY <1>1, <2>1, <2>2, <2>4 DEF CallInv, CallTypeOK
  <1>6. Unused' /\ Made'
    <2>1. \A other \in Ids : other > last_id' => other > last_id /\ other # id
      BY <1>1 DEF id, Ids
    <2>2. \A other \in Ids : other <= last_id' => other <= last_id \/ other = id
      BY <1>1 DEF id, Ids
    <2>3. Unused'
      BY <1>1, <1>2, <1>h, <2>1 DEF CallInv, Unused
    <2>4. Made'
      BY <1>1, <1>2, <2>2 DEF CallInv, Made, CallTypeOK
    <2> QED BY <2>3, <2>4
  <1>7. NoneFailed'
    BY <1>1, <1>2, <1>4 DEF CallInv, NoneFailed, CallTypeOK
  <1>8. OnePlace' /\ Untouched'
    BY <1>1, <1>2, <1>3, <1>h DEF CallInv, OnePlace, Untouched
  <1>9. Decided' /\ Settled'
    BY <1>1, <1>h DEF CallInv, Decided, Settled, InTime
  <1> QED BY <1>5, <1>6, <1>7, <1>8, <1>9 DEF CallInv

\* The end of a sync.
LEMMA SyncStep == ASSUME Bound, CallInv, NEW id \in Ids, sync(id) PROVE CallInv'
  <1>1. /\ task' = [task EXCEPT ![id] = "destroyed"]
        /\ \/ result[id] = "success" /\ sync_task_id' = 0 /\ failed' = failed
           \/ failed' = TRUE /\ sync_task_id' = sync_task_id
        /\ UNCHANGED <<last_id, result, to_set, subscribed, requests, answers, scheduled,
                       terminated, settled, refused, touched>>
    BY DEF sync, Returns, Throws, wired, lasting
  <1>h. Held' = Held /\ Coming' = Coming
    BY <1>1 DEF Held, Coming
  <1>2. CallTypeOK'
    <2>1. task' \in [Ids -> {"none", "waited", "kept", "destroyed"}]
      BY <1>1 DEF CallInv, CallTypeOK
    <2>2. sync_task_id' \in Nat
      BY <1>1 DEF CallInv, CallTypeOK
    <2>3. failed' \in BOOLEAN
      <3>1. failed \in BOOLEAN
        BY DEF CallInv, CallTypeOK
      <3>2. failed' = failed \/ failed' = TRUE
        BY <1>1
      <3> QED BY <3>1, <3>2
    <2> QED BY <1>1, <2>1, <2>2, <2>3 DEF CallInv, CallTypeOK
  <1>3. Unused' /\ Made' /\ OnePlace' /\ Untouched'
    BY <1>1, <1>h DEF CallInv, CallTypeOK, Unused, Made, OnePlace, Untouched
  <1>4. NoneFailed'
    BY <1>1 DEF CallInv, CallTypeOK, NoneFailed
  <1>5. Decided' /\ Settled'
    BY <1>1, <1>h DEF CallInv, Decided, Settled, InTime
  <1> QED BY <1>2, <1>3, <1>4, <1>5 DEF CallInv

\* The end of a task that has its result.
LEMMA DoneStep == ASSUME Bound, CallInv, NEW id \in Ids, Done(id) PROVE CallInv'
  <1>1. /\ task[id] = "kept" /\ result[id] # "empty"
        /\ task' = [task EXCEPT ![id] = "destroyed"]
        /\ UNCHANGED <<sync_task_id, last_id, result, to_set, subscribed, requests, answers,
                       scheduled, terminated, settled, refused, failed, touched>>
    BY DEF Done, wired, lasting, seen
  <1>h. Held' = Held /\ Coming' = Coming
    BY <1>1 DEF Held, Coming
  <1>2. CallTypeOK'
    BY <1>1 DEF CallInv, CallTypeOK
  <1>3. Unused' /\ Made' /\ OnePlace' /\ Untouched'
    BY <1>1, <1>h DEF CallInv, CallTypeOK, Unused, Made, OnePlace, Untouched
  <1>4. NoneFailed'
    BY <1>1 DEF CallInv, CallTypeOK, NoneFailed
  <1>5. Decided' /\ Settled'
    BY <1>1, <1>h DEF CallInv, Decided, Settled, InTime
  <1> QED BY <1>2, <1>3, <1>4, <1>5 DEF CallInv

\* A request becomes its answer.
LEMMA AnswerStep == ASSUME Bound, CallInv, NEW id \in Ids, Answer(id) PROVE CallInv'
  <1>1. PICK kind \in Kinds : answers' = answers \cup {[id |-> id, kind |-> kind]}
    BY DEF Answer
  <1> DEFINE new == [id |-> id, kind |-> kind]
  <1>2. /\ id \in requests /\ requests' = requests \ {id} /\ answers' = answers \cup {new}
        /\ new \in Answers /\ new.id = id
        /\ UNCHANGED <<sync_task_id, last_id, task, result, to_set, subscribed, scheduled,
                       terminated, settled, refused, failed, touched>>
    BY <1>1 DEF Answer, lasting, seen, Answers
  <1> HIDE DEF new
  <1>h. Held' = Held /\ Coming' = Coming \cup {new}
    BY <1>2 DEF Held, Coming
  <1>3. CallTypeOK'
    BY <1>2 DEF CallInv, CallTypeOK
  <1>4. Unused' /\ Made' /\ NoneFailed' /\ Untouched'
    BY <1>2, <1>h DEF CallInv, Unused, Made, NoneFailed, Untouched
  <1>5. OnePlace'
    BY <1>2, <1>h DEF CallInv, OnePlace, Coming
  <1>6. Decided' /\ Settled'
    BY <1>2, <1>h DEF CallInv, Decided, Settled, InTime
  <1> QED BY <1>3, <1>4, <1>5, <1>6 DEF CallInv

\* A thread that holds an answer has found no result.
LEMMA HoldStep ==
    ASSUME CallInv, NEW by \in Setters, to_set[by] = Nothing, NEW answer \in Answers,
           set_if_empty(by, answer.id, answer.kind),
           \/ answer \in answers /\ answers' = answers \ {answer} /\ scheduled' = scheduled
           \/ answer \in scheduled /\ scheduled' = scheduled \ {answer} /\ answers' = answers,
           UNCHANGED <<sync_task_id, last_id, task, result, subscribed, requests, terminated,
                       settled, refused, failed, touched>>
    PROVE  CallInv'
  <1>1. /\ to_set' \in [Setters -> Answers \cup {Nothing}]
        /\ \/ to_set' = to_set /\ Held' = Held
           \/ /\ result[answer.id] = "empty" /\ answer # Nothing
              /\ to_set' = [to_set EXCEPT ![by] = answer] /\ Held' = Held \cup {answer}
    BY LookHolds DEF CallInv
  <1>2. Coming' \subseteq Coming /\ answer \in Coming
    BY <1>1 DEF Coming
  <1>3. CallTypeOK'
    BY <1>1 DEF CallInv, CallTypeOK
  <1>4. Unused' /\ Made' /\ NoneFailed' /\ Untouched' /\ Settled'
    BY <1>2 DEF CallInv, Unused, Made, NoneFailed, Untouched, Settled
  <1>5. OnePlace'
    <2> SUFFICES ASSUME ~terminated PROVE OnePlace'
      BY DEF OnePlace
    <2>1. answer \notin Held /\ \A other \in Setters : to_set[other] # Nothing => to_set[other] # answer
      BY DEF CallInv, OnePlace, Held
    <2>2. /\ answers' \cap scheduled' = {} /\ (answers' \cup scheduled') \cap Held' = {}
      BY <1>1, <2>1 DEF CallInv, OnePlace
    <2>3. \A one, other \in Setters :
              to_set'[one] = to_set'[other] => one = other \/ to_set'[one] = Nothing
      BY <1>1, <2>1 DEF CallInv, OnePlace, CallTypeOK
    <2> QED BY <1>2, <2>2, <2>3 DEF CallInv, OnePlace
  <1>6. Decided'
    BY <1>1 DEF CallInv, Decided, InTime
  <1> QED BY <1>3, <1>4, <1>5, <1>6 DEF CallInv

\* An answer finds its task, or nobody.
LEMMA ReceiveStep == ASSUME Bound, CallInv, NEW answer \in answers, task_on_wire_received(answer) PROVE CallInv'
  <1>1. answer \in Answers /\ answer.id \in Ids /\ answer.kind \in Kinds
    BY DEF CallInv, CallTypeOK, Answers
  <1>2. answer.id \in subscribed => answer.id <= last_id /\ task[answer.id] # "none"
    BY <1>1 DEF CallInv, Unused, Made, CallTypeOK, Ids, Bound
  <1>3. /\ answers' = answers \ {answer} /\ to_set["wire"] = Nothing
        /\ UNCHANGED <<sync_task_id, last_id, task, result, subscribed, requests, terminated,
                       settled, refused, failed>>
        /\ \/ UNCHANGED <<to_set, scheduled, touched>>
           \/ /\ set_if_empty("wire", answer.id, answer.kind)
              /\ UNCHANGED <<scheduled, touched>>
           \/ scheduled' = scheduled \cup {answer} /\ UNCHANGED <<to_set, touched>>
           \/ /\ task[answer.id] = "destroyed" /\ UNCHANGED <<to_set, scheduled>>
              /\ touched' = TRUE
    BY <1>1, <1>2 DEF task_on_wire_received, CallInv, CallTypeOK, lasting
  <1>4. CASE set_if_empty("wire", answer.id, answer.kind) /\ UNCHANGED <<scheduled, touched>>
    BY <1>1, <1>3, <1>4, HoldStep DEF Setters
  <1>5. CASE /\ to_set' = to_set /\ scheduled' \in {scheduled, scheduled \cup {answer}}
             /\ \/ touched' = touched
                \/ task[answer.id] = "destroyed" /\ touched' = TRUE
    <2>1. Held' = Held /\ Coming' \subseteq Coming /\ answer \in Coming
      BY <1>3, <1>5 DEF Held, Coming
    <2>2. CallTypeOK'
      BY <1>1, <1>3, <1>5 DEF CallInv, CallTypeOK
    <2>3. Unused' /\ Made' /\ NoneFailed' /\ Decided' /\ Settled'
      BY <1>3, <2>1 DEF CallInv, Unused, Made, NoneFailed, Decided, InTime, Settled
    <2>4. OnePlace'
      BY <1>3, <1>5, <2>1 DEF CallInv, OnePlace
    <2>5. Untouched'
      BY <1>1, <1>3, <1>5, <2>1 DEF CallInv, NoneFailed, OnePlace, Untouched
    <2> QED BY <2>2, <2>3, <2>4, <2>5 DEF CallInv
  <1> QED BY <1>3, <1>4, <1>5

\* The same on the scheduler that was given to start.
LEMMA ScheduledStep == ASSUME Bound, CallInv, NEW answer \in scheduled, RunScheduled(answer) PROVE CallInv'
  <1>1. answer \in Answers /\ answer.id \in Ids /\ answer.kind \in Kinds
    BY DEF CallInv, CallTypeOK, Answers
  <1>2. /\ scheduled' = scheduled \ {answer} /\ to_set["scheduler"] = Nothing
        /\ UNCHANGED <<sync_task_id, last_id, task, result, subscribed, requests, answers,
                       terminated, settled, refused, failed>>
        /\ \/ task[answer.id] = "destroyed" /\ touched' = TRUE /\ to_set' = to_set
           \/ set_if_empty("scheduler", answer.id, answer.kind) /\ touched' = touched
    BY DEF RunScheduled, lasting
  <1>3. CASE set_if_empty("scheduler", answer.id, answer.kind) /\ touched' = touched
    BY <1>1, <1>2, <1>3, HoldStep DEF Setters
  <1>4. CASE task[answer.id] = "destroyed" /\ touched' = TRUE /\ to_set' = to_set
    <2>1. Held' = Held /\ Coming' \subseteq Coming /\ answer \in Coming
      BY <1>2, <1>4 DEF Held, Coming
    <2>2. CallTypeOK'
      BY <1>2, <1>4 DEF CallInv, CallTypeOK
    <2>3. Unused' /\ Made' /\ NoneFailed' /\ Decided' /\ Settled'
      BY <1>2, <2>1 DEF CallInv, Unused, Made, NoneFailed, Decided, InTime, Settled
    <2>4. OnePlace'
      BY <1>2, <1>4, <2>1 DEF CallInv, OnePlace
    <2>5. Untouched'
      BY <1>1, <1>2, <1>4, <2>1 DEF CallInv, NoneFailed, OnePlace, Untouched
    <2> QED BY <2>2, <2>3, <2>4, <2>5 DEF CallInv
  <1> QED BY <1>2, <1>3, <1>4

\* A thread that has looked sets the result.
LEMMA SetsStep == ASSUME Bound, CallInv, NEW by \in Setters, Sets(by) PROVE CallInv'
  <1> DEFINE answer == to_set[by]
  <1>1. /\ answer \in Answers /\ answer.id \in Ids /\ answer.kind \in Kinds /\ answer \in Held
        /\ to_set \in [Setters -> Answers \cup {Nothing}]
    BY DEF CallInv, CallTypeOK, Sets, Answers, Held
  <1> HIDE DEF answer
  <1>2. /\ to_set' = [to_set EXCEPT ![by] = Nothing]
        /\ \/ task[answer.id] = "destroyed" /\ touched' = TRUE /\ result' = result
           \/ result' = [result EXCEPT ![answer.id] = answer.kind] /\ touched' = touched
        /\ UNCHANGED <<sync_task_id, last_id, task, subscribed, requests, answers, scheduled,
                       terminated, settled, refused, failed>>
    BY DEF Sets, answer, wired, lasting
  <1>3. /\ Held' \subseteq Held /\ Coming' \subseteq Coming /\ answer \in Coming
    BY <1>1, <1>2 DEF Held, Coming
  <1>4. /\ result' \in [Ids -> Kinds \cup {"empty"}] /\ "empty" \notin Kinds
        /\ \A other \in Ids : /\ other # answer.id => result'[other] = result[other]
                              /\ result[other] # "empty" => result'[other] # "empty"
    BY <1>1, <1>2 DEF CallInv, CallTypeOK, Kinds
  <1>5. ~terminated => answer \notin Held'
    <2> SUFFICES ASSUME ~terminated, NEW other \in Setters, to_set'[other] = answer, answer # Nothing
                 PROVE  FALSE
      BY <1>1 DEF Held
    <2> QED BY <1>1, <1>2 DEF CallInv, OnePlace, answer
  <1>6. CallTypeOK'
    <2>1. to_set' \in [Setters -> Answers \cup {Nothing}]
      BY <1>1, <1>2
    <2> QED BY <1>2, <1>4, <2>1 DEF CallInv, CallTypeOK
  <1>7. Unused'
    BY <1>1, <1>2, <1>3, <1>4 DEF CallInv, Unused
  <1>8. Made' /\ Settled'
    BY <1>2, <1>4 DEF CallInv, CallTypeOK, Made, Settled
  <1>9. NoneFailed'
    BY <1>2, <1>4 DEF CallInv, NoneFailed
  <1>10. OnePlace'
    <2> SUFFICES ASSUME ~terminated PROVE OnePlace'
      BY <1>2 DEF OnePlace
    <2>1. answer \notin Coming'
      BY <1>1, <1>2, <1>5 DEF CallInv, OnePlace, Coming
    <2>2. \A other \in Coming' : other.id # answer.id /\ other.id \in Ids
      <3>1. \A other \in Coming : other \in Answers
        BY DEF CallInv, CallTypeOK, Coming, Held
      <3> QED BY <1>3, <2>1, <3>1 DEF CallInv, OnePlace, Answers
    <2>3. \A id \in requests : id # answer.id /\ id \in Ids
      BY <1>3 DEF CallInv, CallTypeOK, OnePlace
    <2>4. \A one, other \in Setters :
              to_set'[one] = to_set'[other] => one = other \/ to_set'[one] = Nothing
      BY <1>1, <1>2 DEF CallInv, OnePlace
    <2> QED BY <1>2, <1>3, <1>4, <2>2, <2>3, <2>4 DEF CallInv, OnePlace
  <1>11. Untouched'
    BY <1>1, <1>2, <1>3 DEF CallInv, NoneFailed, OnePlace, Untouched
  <1>12. Decided'
    <2> SUFFICES ASSUME NEW id \in Ids, InTime(id)', NEW held \in Held', held.id = id
                 PROVE  FALSE
      BY DEF Decided
    <2>1. CASE id # answer.id \/ result[id] # "empty"
      BY <1>2, <1>3, <1>4, <2>1 DEF CallInv, Decided, InTime
    <2>2. CASE id = answer.id /\ result[id] = "empty"
      <3>1. ~terminated
        BY <1>2, <2>2 DEF CallInv, Settled, InTime
      <3>2. held \in Coming /\ held # answer
        BY <1>3, <1>5, <3>1 DEF Coming
      <3> QED BY <1>3, <2>2, <3>1, <3>2 DEF CallInv, OnePlace
    <2> QED BY <2>1, <2>2
  <1> QED BY <1>6, <1>7, <1>8, <1>9, <1>10, <1>11, <1>12 DEF CallInv

\* The end of the lifetime, and what it does to the tasks.
LEMMA CallEndStep == ASSUME Bound, CallInv, Terminate \/ CancelTask PROVE CallInv'
  <1>1. CASE Terminate
    <2>1. /\ terminated' /\ settled' = {id \in Ids : result[id] # "empty"}
          /\ UNCHANGED <<sync_task_id, last_id, task, result, to_set, subscribed, requests, answers,
                         scheduled, refused, failed, touched>> /\ ~terminated
      BY <1>1 DEF Terminate, wired, seen
    <2>2. Held' = Held /\ Coming' = Coming
      BY <2>1 DEF Held, Coming
    <2>3. CallTypeOK'
      BY <1>1, <2>1 DEF Terminate, CallInv, CallTypeOK
    <2>4. Unused' /\ Made' /\ NoneFailed' /\ OnePlace' /\ Untouched'
      BY <2>1, <2>2 DEF CallInv, Unused, Made, NoneFailed, OnePlace, Untouched
    <2>5. Decided' /\ Settled'
      BY <2>1, <2>2 DEF CallInv, Decided, Settled, InTime
    <2> QED BY <2>3, <2>4, <2>5 DEF CallInv
  <1>2. CASE CancelTask
    <2>1. PICK id \in Ids :
              /\ id \in subscribed /\ to_set["lifetime"] = Nothing
              /\ \/ /\ set_if_empty("lifetime", id, "cancelled") /\ result[id] = "empty"
                    /\ subscribed' = subscribed
                 \/ subscribed' = subscribed \ {id} /\ to_set' = to_set
      BY <1>2 DEF CancelTask, LastWired
    <2>2. /\ terminated
          /\ UNCHANGED <<sync_task_id, last_id, task, result, requests, answers, scheduled, terminated,
                         settled, refused, failed, touched>>
      BY <1>2 DEF CancelTask, lasting, seen
    <2>3. id \in Ids /\ id <= last_id /\ subscribed' \subseteq subscribed
      BY <2>1 DEF CallInv, CallTypeOK, Unused, Ids, Bound
    <2> DEFINE new == [id |-> id, kind |-> "cancelled"]
    <2>4. new \in Answers /\ new.id = id /\ new.kind = "cancelled"
      BY DEF Answers, Kinds
    <2> HIDE DEF new
    <2>5. /\ to_set' \in [Setters -> Answers \cup {Nothing}]
          /\ \/ Held' = Held
             \/ result[id] = "empty" /\ Held' = Held \cup {new}
      <3>1. CASE to_set' = to_set
        BY <3>1 DEF Held, CallInv, CallTypeOK
      <3>2. CASE set_if_empty("lifetime", new.id, new.kind)
        <4>1. "lifetime" \in Setters
          BY DEF Setters
        <4> QED BY <2>1, <2>4, <3>2, <4>1, LookHolds DEF CallInv
      <3> QED BY <2>1, <2>4, <3>1, <3>2
    <2>6. CallTypeOK'
      BY <2>2, <2>3, <2>5 DEF CallInv, CallTypeOK
    <2>7. Unused'
      <3>1. \A other \in Ids : other > last_id => other # id
        BY <2>3 DEF Ids, CallInv, CallTypeOK
      <3>2. Coming' \subseteq Coming \cup {new}
        BY <2>2, <2>5 DEF Coming
      <3> QED BY <2>2, <2>3, <2>4, <3>1, <3>2 DEF CallInv, Unused
    <2>8. Made' /\ NoneFailed' /\ OnePlace' /\ Untouched' /\ Settled'
      BY <2>2 DEF CallInv, Made, NoneFailed, OnePlace, Untouched, Settled
    <2>9. Decided'
      BY <2>2, <2>4, <2>5 DEF CallInv, Decided, InTime
    <2> QED BY <2>6, <2>7, <2>8, <2>9 DEF CallInv
  <1> QED BY <1>1, <1>2

\* Every step keeps the invariant.
LEMMA CallInvStep == ASSUME Bound PROVE CallInv /\ [CallNext]_callVars => CallInv'
  <1> SUFFICES ASSUME CallInv, [CallNext]_callVars PROVE CallInv'
    OBVIOUS
  <1>1. CASE UNCHANGED callVars
    <2>1. Held' = Held /\ Coming' = Coming
      BY <1>1 DEF callVars, wired, Held, Coming
    <2> QED BY <1>1, <2>1 DEF callVars, wired, lasting, seen, CallInv, CallTypeOK, Unused, Made,
                              NoneFailed, OnePlace, Untouched, Decided, Settled, InTime
  <1>2. CASE CallNext
    BY <1>2, StartStep, SyncStep, DoneStep, AnswerStep, ReceiveStep, ScheduledStep, SetsStep,
       CallEndStep DEF CallNext
  <1> QED BY <1>1, <1>2

LEMMA CallInvariant == ASSUME Bound PROVE CallSpec => []CallInv
  BY CallInvInit, CallInvStep, PTL DEF CallSpec

-----------------------------------------------------------------------------

\* RdCall.h, WiredRdTaskImpl.h.  The variables keep their types.
THEOREM CallTypeCorrect == ASSUME Bound PROVE CallSpec => []CallTypeOK
  <1>1. CallInv => CallTypeOK
    BY DEF CallInv
  <1> QED BY <1>1, CallInvariant, PTL

\* What the invariant says of calls before one fails.
LEMMA CleanByInvariant == CallInv => SuccessIsClean
  BY DEF CallInv, NoneFailed, Untouched, SuccessIsClean

\* RdCall.h:83-84, 124, WiredRdTaskImpl.h:49.  Before a sync has failed none is refused,
\* and no answer reaches a task that is gone.
THEOREM CleanUntilFailed == ASSUME Bound PROVE CallSpec => []SuccessIsClean
  BY CleanByInvariant, CallInvariant, PTL

\* The only step that replaces a result is that of a thread that holds one for the task.
LEMMA ResultStep ==
    ASSUME CallInv, [CallNext]_callVars, NEW id \in Ids, InTime(id)
    PROVE  result'[id] = result[id]
  <1>1. CASE UNCHANGED callVars
    BY <1>1 DEF callVars
  <1>2. CASE start_internal \/ Terminate \/ CancelTask
    BY <1>2 DEF start_internal, Terminate, CancelTask
  <1>3. ASSUME NEW other \in Ids, sync(other) \/ Done(other) \/ Answer(other) PROVE result' = result
    BY <1>3 DEF sync, Done, Answer
  <1>4. ASSUME NEW answer, task_on_wire_received(answer) \/ RunScheduled(answer) PROVE result' = result
    BY <1>4 DEF task_on_wire_received, RunScheduled
  <1>5. ASSUME NEW by \in Setters, Sets(by) PROVE result'[id] = result[id]
    <2>1. to_set[by] \in Held
      BY <1>5 DEF Held, Sets
    <2>2. to_set[by].id # id
      BY <2>1 DEF CallInv, Decided
    <2> QED BY <1>5, <2>2 DEF Sets, CallInv, CallTypeOK
  <1> QED BY <1>1, <1>2, <1>3, <1>4, <1>5 DEF CallNext

\* IProperty.h:86-92, WiredRdTaskImpl.h:36, 50-58.  Although the threads that look and set
\* take no lock, and whoever looks may be overtaken before it sets, for any number of
\* calls: the result a task has got before the lifetime ends is not replaced any more, by
\* a late answer or by the cancellation.
THEOREM FirstResultStays == ASSUME Bound PROVE CallSpec => ResultIsFinal
  <1>1. CallInv /\ [CallNext]_callVars =>
            [\A id \in Ids :
                result[id] # "empty" /\ (terminated => id \in settled)
                    => result'[id] = result[id]]_callVars
    BY ResultStep DEF InTime
  <1> QED BY <1>1, CallInvariant, PTL DEF CallSpec, ResultIsFinal

-----------------------------------------------------------------------------
(* The scheduler runs what is queued, for any number of threads and of      *)
(* actions.  The point is what the mutex of the pool protects: between the  *)
(* worker's look at the queue and its decision to leave, a push may still   *)
(* happen, but no queue returns.                                            *)

\* The worker holds the mutex from its look at the queue to its sleep.
MutexHeld == mutex <=> worker \in {"check", "decide"}

\* Each action is pushed by the one caller that numbered it, and then queue returns.
PushedOnce ==
    /\ \A i \in 1 .. Len(pushed) : pushed[i] \in 1 .. numbered
    /\ \A i, j \in 1 .. Len(pushed) : pushed[i] = pushed[j] => i = j
    /\ \A c \in Callers : caller[c].step = "push" =>
          /\ caller[c].action \in 1 .. numbered
          /\ \A i \in 1 .. Len(pushed) : pushed[i] # caller[c].action
          /\ \A d \in Callers : caller[d] = caller[c] => d = c
    /\ \A c \in Callers : caller[c].step = "notify" => caller[c].action \in ToSet(pushed)
    /\ returned \subseteq ToSet(pushed)

\* What was pushed is what has run and, until the worker leaves, what is in the queue.
RunInOrder ==
    /\ Len(ran) <= Len(pushed)
    /\ \A i \in 1 .. Len(ran) : ran[i] = pushed[i]
    /\ worker # "exited" =>
          /\ Len(pushed) = Len(ran) + Len(q)
          /\ \A i \in 1 .. Len(q) : q[i] = pushed[Len(ran) + i]
    /\ worker = "run" => ran # << >>

\* The counter counts what was given to queue and has not ended.
TasksCounted == tasks_executing = numbered - Len(ran) + (IF worker = "run" THEN 1 ELSE 0)

\* The worker leaves only after it has seen everything that had returned.
LeavesLast ==
    /\ worker = "decide" => returned \subseteq ToSet(ran)
    /\ worker = "exited" => isDone /\ owed \subseteq ToSet(ran)

SchedulerInv ==
    SchedulerTypeOK /\ MutexHeld /\ PushedOnce /\ RunInOrder /\ TasksCounted /\ LeavesLast

-----------------------------------------------------------------------------

\* No more actions are pushed than were numbered.
LEMMA PushedBounded == ASSUME SchedulerTypeOK, PushedOnce PROVE Len(pushed) <= numbered
  <1> DEFINE P == 1 .. Len(pushed)
             N == 1 .. numbered
  <1>1. Len(pushed) \in Nat /\ numbered \in Nat /\ pushed \in [P -> N]
    BY DEF SchedulerTypeOK, PushedOnce
  <1>2. IsFiniteSet(P) /\ IsFiniteSet(N) /\ Cardinality(P) = Len(pushed) /\ Cardinality(N) = numbered
    <2>1. ASSUME NEW n \in Nat PROVE IsFiniteSet(1 .. n) /\ Cardinality(1 .. n) = n
      <3>1. /\ IsFiniteSet(1 .. n)
            /\ Cardinality(1 .. n) = IF 1 > n THEN 0 ELSE n - 1 + 1
        BY FS_Interval
      <3> QED BY <3>1
    <2> QED BY <1>1, <2>1
  <1>3. Cardinality(P) <= Cardinality(N)
    <2>1. SUFFICES ASSUME Cardinality(P) > Cardinality(N) PROVE FALSE
      BY <1>1, <1>2
    <2>2. \E x, y \in P : x # y /\ pushed[x] = pushed[y]
      BY <1>1, <1>2, <2>1, FS_PigeonHole
    <2> QED BY <2>2 DEF PushedOnce
  <1> QED BY <1>2, <1>3

\* What the scheduler starts with.
LEMMA SchedulerInvInit == SchedulerInit => SchedulerInv
  <1> SUFFICES ASSUME SchedulerInit PROVE SchedulerInv
    OBVIOUS
  <1> USE DEF SchedulerInit
  <1>1. Len(q) = 0 /\ Len(pushed) = 0 /\ Len(ran) = 0
    OBVIOUS
  <1>2. SchedulerTypeOK
    <2>1. caller \in [Callers -> [step : {"idle", "push", "notify", "flush", "notifyAll", "join"},
                                  action : 0 .. MaxActions]]
      BY ActionsAssumption DEF At
    <2>2. q \in Seq(1 .. MaxActions) /\ pushed \in Seq(1 .. MaxActions) /\ ran \in Seq(1 .. MaxActions)
      BY EmptySeq
    <2>3. tasks_executing \in 0 .. MaxActions /\ numbered \in 0 .. MaxActions
      BY ActionsAssumption
    <2>4. /\ isDone \in BOOLEAN /\ mutex \in BOOLEAN
          /\ worker \in {"pop", "run", "lock", "check", "decide", "wait", "exited"}
          /\ returned \subseteq 1 .. MaxActions /\ owed \subseteq returned
      OBVIOUS
    <2> HIDE DEF SchedulerInit
    <2> QED BY <2>1, <2>2, <2>3, <2>4 DEF SchedulerTypeOK
  <1>3. MutexHeld /\ LeavesLast
    BY DEF MutexHeld, LeavesLast
  <1>4. PushedOnce
    BY <1>1 DEF PushedOnce, At
  <1>5. RunInOrder
    BY <1>1 DEF RunInOrder
  <1>6. TasksCounted
    <2>1. tasks_executing = 0 /\ numbered = 0 /\ Len(ran) = 0 /\ worker # "run"
      BY <1>1
    <2> HIDE DEF SchedulerInit
    <2> QED BY <2>1 DEF TasksCounted
  <1> QED BY <1>2, <1>3, <1>4, <1>5, <1>6 DEF SchedulerInv

\* queue gives an action the next number, and counts it.
LEMMA QueueStep ==
    ASSUME SchedulerInv, NEW c \in Callers, queue(c)
    PROVE  SchedulerInv'
  <1> USE DEF queue, At
  <1>1. /\ numbered \in Nat /\ numbered' = numbered + 1 /\ numbered' \in 1 .. MaxActions
        /\ tasks_executing' = tasks_executing + 1
        /\ Len(ran) \in Nat /\ Len(pushed) \in Nat /\ Len(ran) <= Len(pushed)
    BY ActionsAssumption DEF SchedulerInv, SchedulerTypeOK, RunInOrder
  <1>2. worker = "run" => Len(ran) >= 1
    BY <1>1, EmptySeq DEF SchedulerInv, RunInOrder, SchedulerTypeOK
  <1>3. TasksCounted'
    BY <1>1 DEF SchedulerInv, TasksCounted, SchedulerTypeOK
  <1>4. SchedulerTypeOK'
    <2>1. tasks_executing' \in 0 .. MaxActions
      <3>1. Len(pushed) <= numbered /\ tasks_executing \in Nat
        BY PushedBounded DEF SchedulerInv, SchedulerTypeOK
      <3>2. tasks_executing' = numbered' - Len(ran) + (IF worker = "run" THEN 1 ELSE 0)
        BY <1>3 DEF TasksCounted
      <3> HIDE DEF queue
      <3> QED BY <1>1, <1>2, <3>1, <3>2, ActionsAssumption
    <2> QED BY <1>1, <2>1 DEF SchedulerInv, SchedulerTypeOK
  <1>5. PushedOnce'
    <2>1. \A i \in 1 .. Len(pushed) : pushed[i] \in 1 .. numbered' /\ pushed[i] # numbered'
      BY <1>1 DEF SchedulerInv, PushedOnce
    <2>2. \A d \in Callers : caller'[d] = IF d = c THEN [step |-> "push", action |-> numbered'] ELSE caller[d]
      BY <1>1 DEF SchedulerInv, SchedulerTypeOK
    <2>3. \A d \in Callers : caller[d].step = "push" =>
              caller[d].action \in 1 .. numbered' /\ caller[d].action # numbered'
      BY <1>1 DEF SchedulerInv, PushedOnce
    <2> QED BY <1>1, <2>1, <2>2, <2>3 DEF SchedulerInv, PushedOnce
  <1>6. MutexHeld' /\ RunInOrder' /\ LeavesLast'
    BY DEF SchedulerInv, MutexHeld, RunInOrder, LeavesLast
  <1> QED BY <1>3, <1>4, <1>5, <1>6 DEF SchedulerInv

\* Push appends the action to the queue and to what was pushed.
LEMMA PushStep ==
    ASSUME SchedulerInv, NEW c \in Callers, Push(c)
    PROVE  SchedulerInv'
  <1> DEFINE a == caller[c].action
  <1>1. /\ a \in 1 .. numbered /\ a \in 1 .. MaxActions
        /\ numbered \in Nat /\ Len(ran) \in Nat /\ Len(pushed) \in Nat /\ Len(q) \in Nat
    BY ActionsAssumption DEF SchedulerInv, SchedulerTypeOK, PushedOnce, Push
  <1> HIDE DEF a
  <1>2. /\ q' = Append(q, a) /\ pushed' = Append(pushed, a)
        /\ caller' = [caller EXCEPT ![c].step = "notify"]
        /\ UNCHANGED <<tasks_executing, isDone, mutex, worker, numbered, ran, returned, owed>>
    BY DEF Push, Goes, a
  <1>3. /\ Len(pushed') = Len(pushed) + 1 /\ pushed'[Len(pushed) + 1] = a
        /\ \A i \in 1 .. Len(pushed) : pushed'[i] = pushed[i]
        /\ Len(q') = Len(q) + 1 /\ q'[Len(q) + 1] = a
        /\ \A i \in 1 .. Len(q) : q'[i] = q[i]
        /\ q' \in Seq(1 .. MaxActions) /\ pushed' \in Seq(1 .. MaxActions)
    BY <1>1, <1>2, AppendProperties DEF SchedulerInv, SchedulerTypeOK
  <1>4. SchedulerTypeOK'
    BY <1>2, <1>3 DEF SchedulerInv, SchedulerTypeOK
  <1>5. PushedOnce'
    <2>1. \A i \in 1 .. Len(pushed) : pushed[i] \in 1 .. numbered /\ pushed[i] # a
      BY DEF SchedulerInv, PushedOnce, a, Push
    <2>2. \A i \in 1 .. Len(pushed') : i \in 1 .. Len(pushed) \/ i = Len(pushed) + 1
      BY <1>1, <1>3
    <2>3. \A d \in Callers : /\ d # c => caller'[d] = caller[d]
                             /\ caller'[c].step = "notify" /\ caller'[c].action = a
      BY <1>2 DEF SchedulerInv, SchedulerTypeOK, a
    <2>4. ToSet(pushed') = ToSet(pushed) \cup {a}
      BY <1>1, <1>3, <2>2 DEF ToSet
    <2>5. \A i, j \in 1 .. Len(pushed') : pushed'[i] = pushed'[j] => i = j
      BY <1>3, <2>1, <2>2 DEF SchedulerInv, PushedOnce
    <2>6. \A d \in Callers : d # c /\ caller[d].step = "push" => caller[d].action # a
      <3> SUFFICES ASSUME NEW d \in Callers, d # c, caller[d].step = "push", caller[d].action = a
                   PROVE FALSE
        OBVIOUS
      <3>1. caller[c].step = "push" /\ caller[c].action = a
        BY DEF Push, a
      <3>2. caller[d] = caller[c]
        BY <3>1 DEF SchedulerInv, SchedulerTypeOK
      <3> QED BY <3>1, <3>2 DEF SchedulerInv, PushedOnce
    <2>7. \A d \in Callers : caller'[d].step = "push" =>
              /\ caller'[d].action \in 1 .. numbered
              /\ \A i \in 1 .. Len(pushed') : pushed'[i] # caller'[d].action
              /\ \A e \in Callers : caller'[e] = caller'[d] => e = d
      BY <1>3, <2>2, <2>3, <2>6 DEF SchedulerInv, PushedOnce
    <2>8. \A i \in 1 .. Len(pushed') : pushed'[i] \in 1 .. numbered
      BY <1>1, <1>3, <2>1, <2>2
    <2>9. \A d \in Callers : caller'[d].step = "notify" => caller'[d].action \in ToSet(pushed')
      BY <2>3, <2>4 DEF SchedulerInv, PushedOnce
    <2> QED BY <1>2, <2>4, <2>5, <2>7, <2>8, <2>9 DEF SchedulerInv, PushedOnce
  <1>6. RunInOrder'
    <2>1. /\ Len(ran) <= Len(pushed)
          /\ \A i \in 1 .. Len(ran) : ran[i] = pushed[i]
          /\ worker # "exited" => /\ Len(pushed) = Len(ran) + Len(q)
                                  /\ \A i \in 1 .. Len(q) : q[i] = pushed[Len(ran) + i]
          /\ worker = "run" => ran # << >>
      BY DEF SchedulerInv, RunInOrder
    <2>0. worker # "exited" => Len(pushed) + 1 = Len(ran) + (Len(q) + 1)
      <3> DEFINE p == Len(pushed)
                 r == Len(ran)
                 k == Len(q)
      <3>1. p \in Nat /\ r \in Nat /\ k \in Nat /\ (worker # "exited" => p = r + k)
        BY <1>1, <2>1
      <3> HIDE DEF p, r, k
      <3>2. worker # "exited" => p + 1 = r + (k + 1)
        BY <3>1
      <3> QED BY <3>2 DEF p, r, k
    <2>2. \A i \in 1 .. Len(q') : i \in 1 .. Len(q) \/ i = Len(q) + 1
      BY <1>1, <1>3
    <2>3. ASSUME worker # "exited", NEW i \in 1 .. Len(q') PROVE q'[i] = pushed'[Len(ran) + i]
      <3>1. CASE i \in 1 .. Len(q)
        <4>1. Len(ran) + i \in 1 .. Len(pushed)
          BY <1>1, <2>1, <2>3, <3>1
        <4> QED BY <1>3, <2>1, <2>3, <3>1, <4>1
      <3>2. CASE i = Len(q) + 1
        <4>1. Len(ran) + i = Len(pushed) + 1
          BY <2>0, <2>3, <3>2
        <4> QED BY <1>3, <3>2, <4>1
      <3> QED BY <2>2, <3>1, <3>2
    <2>4. \A i \in 1 .. Len(ran) : i \in 1 .. Len(pushed)
      BY <1>1, <2>1
    <2>5. Len(ran) <= Len(pushed) + 1
      BY <1>1, <2>1
    <2> QED BY <1>2, <1>3, <2>0, <2>1, <2>3, <2>4, <2>5 DEF RunInOrder
  <1>7. MutexHeld' /\ TasksCounted' /\ LeavesLast'
    BY <1>2 DEF SchedulerInv, MutexHeld, TasksCounted, LeavesLast
  <1> QED BY <1>4, <1>5, <1>6, <1>7 DEF SchedulerInv

\* Where the callers are matters to the pushes only.
LEMMA CallerMoves ==
    ASSUME SchedulerTypeOK, PushedOnce, NEW c \in Callers,
           NEW step \in {"idle", "flush", "notifyAll", "join"}, caller' = [caller EXCEPT ![c].step = step],
           UNCHANGED <<numbered, pushed>>, returned' \subseteq ToSet(pushed)
    PROVE  PushedOnce'
  <1>1. \A d \in Callers : IF d = c THEN caller'[d].step = step ELSE caller'[d] = caller[d]
    BY DEF SchedulerTypeOK
  <1>2. step # "push" /\ step # "notify"
    OBVIOUS
  <1>3. \A d \in Callers : caller'[d].step = "push" =>
            /\ caller[d].step = "push" /\ caller'[d] = caller[d]
            /\ \A e \in Callers : caller'[e] = caller'[d] => caller'[e] = caller[e]
    BY <1>1, <1>2
  <1>4. \A d \in Callers : caller'[d].step = "push" =>
            /\ caller'[d].action \in 1 .. numbered
            /\ \A i \in 1 .. Len(pushed) : pushed[i] # caller'[d].action
            /\ \A e \in Callers : caller'[e] = caller'[d] => e = d
    BY <1>3 DEF PushedOnce
  <1>5. \A d \in Callers : caller'[d].step = "notify" => caller'[d].action \in ToSet(pushed)
    BY <1>1, <1>2 DEF PushedOnce
  <1> QED BY <1>4, <1>5 DEF PushedOnce

\* Notify: the mutex is free, so the worker has not yet looked, or is asleep.
LEMMA NotifyStep ==
    ASSUME SchedulerInv, NEW c \in Callers, Notify(c)
    PROVE  SchedulerInv'
  <1>1. /\ caller[c].action \in ToSet(pushed) /\ ~mutex
        /\ worker' \in {worker, "lock"} /\ (worker' # worker => worker = "wait")
        /\ returned' = returned \cup {caller[c].action}
        /\ caller' = [caller EXCEPT ![c].step = "idle"]
        /\ UNCHANGED <<tasks_executing, q, isDone, mutex, numbered, pushed, ran, owed>>
    BY DEF Notify, MayNotify, Wakes, Goes, SchedulerInv, PushedOnce
  <1>2. ToSet(pushed) \subseteq 1 .. MaxActions
    <2>1. pushed \in Seq(1 .. MaxActions) /\ DOMAIN pushed = 1 .. Len(pushed)
      BY DEF SchedulerInv, SchedulerTypeOK
    <2>2. \A i \in DOMAIN pushed : pushed[i] \in 1 .. MaxActions
      BY <2>1, ElementOfSeq
    <2> QED BY <2>2 DEF ToSet
  <1>3. SchedulerTypeOK'
    BY <1>1, <1>2 DEF SchedulerInv, SchedulerTypeOK
  <1>4. PushedOnce'
    BY <1>1, CallerMoves DEF SchedulerInv, PushedOnce
  <1>5. MutexHeld' /\ RunInOrder' /\ TasksCounted' /\ LeavesLast'
    BY <1>1 DEF SchedulerInv, MutexHeld, RunInOrder, TasksCounted, LeavesLast
  <1> QED BY <1>3, <1>4, <1>5 DEF SchedulerInv

\* flush, and the end of the lifetime up to the join.
LEMMA CallerStep ==
    ASSUME SchedulerInv, NEW c \in Callers, flush(c) \/ Flushed(c) \/ stop(c) \/ NotifyAll(c)
    PROVE  SchedulerInv'
  <1>1. PICK step \in {"idle", "flush", "notifyAll", "join"} : caller' = [caller EXCEPT ![c].step = step]
    BY DEF flush, Flushed, stop, NotifyAll, Goes
  <1>2. /\ UNCHANGED <<tasks_executing, q, mutex, numbered, pushed, ran, returned>>
        /\ worker' \in {worker, "lock"} /\ (worker' # worker => worker = "wait")
        /\ isDone' \in BOOLEAN /\ (isDone => isDone') /\ owed' \in {owed, returned}
        /\ (owed' # owed => ~isDone)
    BY DEF flush, Flushed, stop, NotifyAll, Wakes, SchedulerInv, SchedulerTypeOK
  <1>3. SchedulerTypeOK'
    BY <1>1, <1>2 DEF SchedulerInv, SchedulerTypeOK
  <1>4. PushedOnce'
    BY <1>1, <1>2, CallerMoves DEF SchedulerInv, PushedOnce
  <1>5. LeavesLast'
    BY <1>2 DEF SchedulerInv, LeavesLast
  <1>6. MutexHeld' /\ RunInOrder' /\ TasksCounted'
    BY <1>2 DEF SchedulerInv, MutexHeld, RunInOrder, TasksCounted
  <1> QED BY <1>3, <1>4, <1>5, <1>6 DEF SchedulerInv

\* Join: the worker has gone, and what is queued is dropped with the pool.
LEMMA JoinStep ==
    ASSUME SchedulerInv, NEW c \in Callers, Join(c)
    PROVE  SchedulerInv'
  <1>1. /\ worker = "exited" /\ q' = << >> /\ caller' = [caller EXCEPT ![c].step = "idle"]
        /\ UNCHANGED <<tasks_executing, isDone, mutex, worker, numbered, pushed, ran, returned, owed>>
    BY DEF Join, Goes
  <1>2. SchedulerTypeOK'
    BY <1>1, EmptySeq DEF SchedulerInv, SchedulerTypeOK
  <1>3. PushedOnce'
    BY <1>1, CallerMoves DEF SchedulerInv, PushedOnce
  <1>4. MutexHeld' /\ RunInOrder' /\ TasksCounted' /\ LeavesLast'
    BY <1>1 DEF SchedulerInv, MutexHeld, RunInOrder, TasksCounted, LeavesLast
  <1> QED BY <1>2, <1>3, <1>4 DEF SchedulerInv

-----------------------------------------------------------------------------
(* The worker.                                                              *)

\* An action is taken from the queue and run: it is the next that was pushed.
LEMMA RunStep ==
    ASSUME SchedulerInv, q # << >>, worker \in {"pop", "check"},
           ran' = Append(ran, Head(q)), q' = Tail(q), worker' = "run", mutex' = FALSE,
           UNCHANGED <<tasks_executing, isDone, caller, numbered, pushed, returned, owed>>
    PROVE  SchedulerInv'
  <1> DEFINE r == Len(ran)
             k == Len(q)
             p == Len(pushed)
  <1>1. r \in Nat /\ k \in Nat /\ p \in Nat /\ k >= 1 /\ p = r + k /\ numbered \in Nat
    <2>1. k # 0
      BY EmptySeq DEF SchedulerInv, SchedulerTypeOK
    <2>2. r \in Nat /\ k \in Nat /\ p \in Nat /\ numbered \in Nat
      BY ActionsAssumption DEF SchedulerInv, SchedulerTypeOK
    <2> QED BY <2>1, <2>2 DEF SchedulerInv, RunInOrder
  <1>2. /\ Head(q) = q[1] /\ q[1] \in 1 .. MaxActions
        /\ q' \in Seq(1 .. MaxActions) /\ Len(q') = k - 1
        /\ \A i \in 1 .. k - 1 : q'[i] = q[i + 1]
    <2>1. q \in Seq(1 .. MaxActions) /\ q # << >>
      BY DEF SchedulerInv, SchedulerTypeOK
    <2>2. /\ Head(q) \in 1 .. MaxActions /\ Tail(q) \in Seq(1 .. MaxActions)
          /\ Len(Tail(q)) = Len(q) - 1 /\ \A i \in 1 .. Len(Tail(q)) : Tail(q)[i] = q[i + 1]
      BY <2>1, HeadTailProperties
    <2>3. Head(q) = q[1]
      BY <2>1
    <2> QED BY <2>2, <2>3
  <1>3. /\ ran' \in Seq(1 .. MaxActions) /\ Len(ran') = r + 1 /\ ran'[r + 1] = q[1]
        /\ \A i \in 1 .. r : ran'[i] = ran[i]
    BY <1>2, AppendProperties DEF SchedulerInv, SchedulerTypeOK
  <1>4. SchedulerTypeOK'
    BY <1>2, <1>3 DEF SchedulerInv, SchedulerTypeOK
  <1>5. RunInOrder'
    <2>1. /\ \A i \in 1 .. r : ran[i] = pushed[i]
          /\ \A i \in 1 .. k : q[i] = pushed[r + i]
      BY DEF SchedulerInv, RunInOrder
    <2> HIDE DEF r, k, p
    <2>2. 1 \in 1 .. k /\ \A i \in 1 .. k - 1 : i + 1 \in 1 .. k /\ r + (i + 1) = (r + 1) + i
      BY <1>1
    <2>3. \A i \in 1 .. k - 1 : q'[i] = pushed[(r + 1) + i]
      BY <1>2, <2>1, <2>2
    <2>4. \A i \in 1 .. r + 1 : i \in 1 .. r \/ i = r + 1
      BY <1>1
    <2>5. \A i \in 1 .. r + 1 : ran'[i] = pushed[i]
      BY <1>3, <2>1, <2>2, <2>4
    <2>6. r + 1 <= p /\ p = (r + 1) + (k - 1) /\ r + 1 # 0
      BY <1>1
    <2>7. ran' # << >>
      BY <1>3, <2>6, EmptySeq
    <2>8. Len(pushed') = p
      BY DEF p
    <2> QED BY <1>2, <1>3, <2>3, <2>5, <2>6, <2>7, <2>8 DEF RunInOrder
  <1>6. TasksCounted'
    <2>1. tasks_executing = numbered - r + 0
      BY DEF SchedulerInv, TasksCounted
    <2> HIDE DEF r, k, p
    <2>2. tasks_executing = numbered - (r + 1) + 1
      BY <1>1, <2>1
    <2> QED BY <1>3, <2>2 DEF TasksCounted
  <1>7. PushedOnce' /\ MutexHeld' /\ LeavesLast'
    BY DEF SchedulerInv, PushedOnce, MutexHeld, LeavesLast
  <1> QED BY <1>4, <1>5, <1>6, <1>7 DEF SchedulerInv

\* With an empty queue, everything that was pushed has run.
LEMMA NothingWaits ==
    ASSUME SchedulerInv, Len(ran) = Len(pushed)
    PROVE  returned \subseteq ToSet(ran)
  <1>1. ToSet(ran) = ToSet(pushed)
    BY DEF SchedulerInv, RunInOrder, ToSet
  <1> QED BY <1>1 DEF SchedulerInv, PushedOnce

\* The end of an action, which is counted.
LEMMA FinishStep == ASSUME SchedulerInv, Finish PROVE SchedulerInv'
  <1>1. /\ worker = "run" /\ worker' = "pop" /\ tasks_executing' = tasks_executing - 1
        /\ UNCHANGED <<q, isDone, mutex, caller, numbered, pushed, ran, returned, owed>>
    BY DEF Finish, GoesOn
  <1>2. /\ tasks_executing = numbered - Len(ran) + 1 /\ Len(ran) <= Len(pushed) /\ Len(pushed) <= numbered
        /\ Len(ran) \in Nat /\ Len(pushed) \in Nat /\ numbered \in Nat /\ tasks_executing \in 0 .. MaxActions
    <2>1. /\ Len(ran) \in Nat /\ Len(pushed) \in Nat /\ numbered \in Nat
          /\ tasks_executing \in 0 .. MaxActions
      BY ActionsAssumption DEF SchedulerInv, SchedulerTypeOK
    <2>2. Len(pushed) <= numbered
      BY PushedBounded DEF SchedulerInv
    <2>3. Len(ran) <= Len(pushed)
      BY DEF SchedulerInv, RunInOrder
    <2>4. tasks_executing = numbered - Len(ran) + 1
      BY <1>1 DEF SchedulerInv, TasksCounted
    <2> QED BY <2>1, <2>2, <2>3, <2>4
  <1>3. tasks_executing' \in 0 .. MaxActions /\ tasks_executing' = numbered - Len(ran) + 0
    BY <1>1, <1>2, ActionsAssumption
  <1>4. SchedulerTypeOK'
    BY <1>1, <1>3 DEF SchedulerInv, SchedulerTypeOK
  <1>5. TasksCounted'
    BY <1>1, <1>3 DEF TasksCounted
  <1>6. PushedOnce' /\ RunInOrder' /\ MutexHeld' /\ LeavesLast'
    BY <1>1 DEF SchedulerInv, PushedOnce, RunInOrder, MutexHeld, LeavesLast
  <1> QED BY <1>4, <1>5, <1>6 DEF SchedulerInv

\* The worker's way to sleep or to its end: no action is taken.
LEMMA SleepStep ==
    ASSUME SchedulerInv,
           worker \in {"pop", "lock", "check", "decide"},
           worker' \in {"lock", "check", "decide", "wait", "exited"},
           mutex' \in BOOLEAN, mutex' <=> worker' \in {"check", "decide"},
           worker' = "decide" => q = << >>,
           worker' = "exited" => isDone /\ worker = "decide",
           UNCHANGED <<tasks_executing, q, isDone, caller, numbered, pushed, ran, returned, owed>>
    PROVE  SchedulerInv'
  <1>1. q = << >> => Len(ran) = Len(pushed)
    <2>1. Len(pushed) = Len(ran) + Len(q) /\ Len(ran) \in Nat
      BY DEF SchedulerInv, RunInOrder, SchedulerTypeOK
    <2>2. q = << >> => Len(q) = 0
      OBVIOUS
    <2> QED BY <2>1, <2>2
  <1>2. LeavesLast'
    <2>1. worker' = "decide" => returned \subseteq ToSet(ran)
      BY <1>1, NothingWaits
    <2>2. worker' = "exited" => isDone /\ owed \subseteq ToSet(ran)
      BY DEF SchedulerInv, LeavesLast, SchedulerTypeOK
    <2> QED BY <2>1, <2>2 DEF LeavesLast
  <1>3. MutexHeld'
    BY ZenonT(20) DEF MutexHeld
  <1>4. SchedulerTypeOK'
    BY <1>3 DEF SchedulerInv, SchedulerTypeOK
  <1>5. PushedOnce' /\ RunInOrder' /\ TasksCounted'
    BY DEF SchedulerInv, PushedOnce, RunInOrder, TasksCounted
  <1> QED BY <1>2, <1>3, <1>4, <1>5 DEF SchedulerInv

\* Every step of the worker.
LEMMA WorkerStep == ASSUME SchedulerInv, Worker PROVE SchedulerInv'
  <1>1. CASE PopNext
    <2>1. CASE q # << >>
      <3>1. mutex' = FALSE
        BY <1>1 DEF PopNext, SchedulerInv, MutexHeld
      <3> QED BY <1>1, <2>1, <3>1, RunStep DEF PopNext, Pop
    <2>2. CASE q = << >>
      <3>1. mutex' = FALSE
        BY <1>1 DEF PopNext, SchedulerInv, MutexHeld
      <3>2. /\ worker = "pop" /\ worker' = "lock" /\ mutex' \in BOOLEAN /\ (mutex' <=> worker' \in {"check", "decide"})
            /\ UNCHANGED <<tasks_executing, q, isDone, caller, numbered, pushed, ran, returned, owed>>
        BY <1>1, <2>2, <3>1 DEF PopNext, Pop
      <3> QED BY <3>2, SleepStep
    <2> QED BY <2>1, <2>2
  <1>2. CASE Lock
    BY <1>2, SleepStep DEF Lock
  <1>3. CASE Check
    <2>1. CASE q # << >>
      BY <1>3, <2>1, RunStep DEF Check, Pop
    <2>2. CASE q = << >>
      <3>1. mutex' = TRUE
        BY <1>3, <2>2 DEF Check
      <3>2. /\ worker = "check" /\ worker' = "decide" /\ mutex' \in BOOLEAN /\ (mutex' <=> worker' \in {"check", "decide"})
            /\ UNCHANGED <<tasks_executing, q, isDone, caller, numbered, pushed, ran, returned, owed>>
        BY <1>3, <2>2, <3>1 DEF Check, Pop
      <3> QED BY <2>2, <3>2, SleepStep
    <2> QED BY <2>1, <2>2
  <1>4. CASE Decide
    BY <1>4, SleepStep DEF Decide
  <1> QED BY <1>1, <1>2, <1>3, <1>4, FinishStep DEF Worker

LEMMA SchedulerInvStep == SchedulerInv /\ [SchedulerNext]_schedulerVars => SchedulerInv'
  <1> SUFFICES ASSUME SchedulerInv, [SchedulerNext]_schedulerVars PROVE SchedulerInv'
    OBVIOUS
  <1>1. CASE UNCHANGED schedulerVars
    BY <1>1 DEF schedulerVars, SchedulerInv, SchedulerTypeOK, MutexHeld, PushedOnce, RunInOrder,
                TasksCounted, LeavesLast
  <1>2. CASE Worker
    BY <1>2, WorkerStep
  <1>3. ASSUME NEW c \in Callers, queue(c) \/ Calls(c) PROVE SchedulerInv'
    BY <1>3, QueueStep, PushStep, NotifyStep, CallerStep, JoinStep DEF Calls
  <1>4. ASSUME NEW u \in Users, flush(u) \/ Flushed(u) \/ stop(u) PROVE SchedulerInv'
    BY <1>4, CallerStep DEF Callers
  <1> QED BY <1>1, <1>2, <1>3, <1>4 DEF SchedulerNext

\* The invariant of the scheduler is inductive.
THEOREM SchedulerInductive == SchedulerSpec => []SchedulerInv
  BY SchedulerInvInit, SchedulerInvStep, PTL DEF SchedulerSpec

\* What the invariant says of what was queued.
LEMMA QueuedByInvariant == SchedulerInv => QueuedIsRun
  <1> SUFFICES ASSUME SchedulerInv PROVE QueuedIsRun
    OBVIOUS
  <1>1. IsPrefix(ran, pushed)
    <2>1. /\ ran \in Seq(1 .. MaxActions) /\ pushed \in Seq(1 .. MaxActions)
          /\ Len(ran) \in Nat /\ Len(ran) <= Len(pushed)
          /\ \A i \in 1 .. Len(ran) : ran[i] = pushed[i]
      BY DEF SchedulerInv, SchedulerTypeOK, RunInOrder
    <2>2. SubSeq(ran, 1, Len(ran)) = SubSeq(pushed, 1, Len(ran))
      BY <2>1
    <2> QED BY <2>1, <2>2 DEF IsPrefix
  <1>2. ASSUME tasks_executing = 0 PROVE returned \subseteq ToSet(ran)
    <2>1. /\ Len(ran) <= Len(pushed) /\ Len(pushed) <= numbered
          /\ Len(ran) \in Nat /\ Len(pushed) \in Nat /\ numbered \in Nat
      BY PushedBounded, ActionsAssumption DEF SchedulerInv, RunInOrder, SchedulerTypeOK
    <2>2. 0 = numbered - Len(ran) + (IF worker = "run" THEN 1 ELSE 0)
      BY <1>2 DEF SchedulerInv, TasksCounted
    <2>3. Len(ran) = Len(pushed)
      BY <2>1, <2>2
    <2> QED BY <2>3, NothingWaits
  <1> QED BY <1>1, <1>2 DEF SchedulerInv, LeavesLast, QueuedIsRun

\* SingleThreadSchedulerBase.cpp:38-53, ctpl_stl.h:141.  Whatever the threads and the
\* actions themselves queue, actions run in the order in which they were pushed, flush
\* returns when all that were queued before have run, and stop runs all that were owed.
THEOREM QueuedActionsRun == SchedulerSpec => []QueuedIsRun
  BY QueuedByInvariant, SchedulerInductive, PTL

-----------------------------------------------------------------------------
(* Lifetimes, for any threads and any number of calls.  An action is in one *)
(* of three places, with its lifetime, left to a terminate, or run, and     *)
(* only the first thread to take a map finds anything in it.  For the end   *)
(* of a nested lifetime, the invariant follows the two actions by which     *)
(* it and its parent know of each other.                                    *)

\* The frames of a thread, and those below the running one.
On(t) == {stack[t][i] : i \in 1 .. Len(stack[t])}
Below(t) == {stack[t][i] : i \in 1 .. Len(stack[t]) - 1}

Ends == {"flag", "take", "run"}
Detaching == Frame("add", "nested", "detach")
Attaching == Frame("add", "parent", "nested")

\* A frame of a call from outside, or of a terminate in a terminate.
Plain(f) ==
    \/ f.step \in {"add", "remove"} /\ f.kind = "user" /\ f.todo = {}
    \/ f.step \in {"flag", "take"} /\ f.kind = "none" /\ f.todo = {}
    \/ f.step = "run" /\ f.kind = "none"

\* What a thread can be in the middle of.
Shape(s) ==
    \/ Len(s) = 0
    \/ Len(s) = 1 /\ (Plain(s[1]) \/ s[1] = Detaching)
    \/ Len(s) = 2 /\ s[1] = Detaching /\ s[2] = Attaching
    \/ /\ Len(s) = 2 /\ s[1].step = "run" /\ s[1].of = "parent" /\ Plain(s[1])
       /\ s[2].step \in Ends /\ s[2].of = "nested" /\ Plain(s[2])

Stacked == \A t \in LifetimeThreads : Shape(stack[t])

\* An action has a number its lifetime has given, and only the parent ends the
\* nested lifetime, which only takes itself out.
GivenTo(a) ==
    /\ a.id < action_id_in_map[a.of]
    /\ a.kind = "nested" => a.of = "parent"
    /\ a.kind = "detach" => a.of = "nested"

Ran == {has_run[j] : j \in 1 .. Len(has_run)}
IdsApart(A) == \A a, b \in A : a.id = b.id => a = b

Identified ==
    /\ \A l \in Lifetimes : \A a \in lifetime_actions[l] : a.of = l /\ GivenTo(a)
    /\ \A t \in LifetimeThreads : \A f \in On(t) : \A a \in f.todo : a.of = f.of /\ GivenTo(a)
    /\ \A a \in Ran \cup gone : GivenTo(a)
    /\ \A l \in Lifetimes : IdsApart(lifetime_actions[l])
    /\ \A t \in LifetimeThreads : \A f \in On(t) : IdsApart(f.todo)

\* The actions of a lifetime that has ended are taken by one thread.
TakenOnce ==
    /\ \A l \in Lifetimes :
          (\E a \in Ran : a.of = l) => is_terminated[l] /\ lifetime_actions[l] = {}
    /\ \A t \in LifetimeThreads : \A f \in On(t) :
          /\ f.step \in {"take", "run"} => is_terminated[f.of]
          /\ f.step = "run" => lifetime_actions[f.of] = {}
    /\ \A l \in Lifetimes : is_terminated[l] /\ lifetime_actions[l] # {} =>
          \E t \in LifetimeThreads : \E f \in On(t) : f.of = l /\ f.step = "take"

OneTaker ==
    \A t, u \in LifetimeThreads : \A f \in On(t), g \in On(u) :
        f.of = g.of /\ f.todo # {} /\ g.todo # {} => t = u

\* What is left to run is earlier than what has run.
LatestFirst ==
    /\ LastFirst
    /\ \A t \in LifetimeThreads : \A f \in On(t) : \A a \in f.todo :
          \A b \in Ran : b.of = a.of => a.id < b.id

Somewhere(a) ==
    \/ a \in lifetime_actions[a.of]
    \/ \E t \in LifetimeThreads : \E f \in On(t) : a \in f.todo
    \/ a \in Ran \cup gone

\* Unless an exception ends a terminate early no action is lost.
NoneLost ==
    ~unwound => \A l \in Lifetimes : \A id \in 0 .. action_id_in_map[l] - 1 :
                    \E a \in AllActions : a.of = l /\ a.id = id /\ Somewhere(a)

\* How a nested lifetime and its parent know of each other.
NestedKnown ==
    /\ \A t, u \in LifetimeThreads : \A f \in On(t), g \in On(u) :
          f.kind \in {"nested", "detach"} /\ g.kind \in {"nested", "detach"}
              => t = u /\ nesting = "attaching"
    /\ \A a \in AllActions : a.kind = "detach" /\ Somewhere(a) => nesting = "attached"
    /\ ~unwound /\ (nesting = "attached" \/ \E t \in LifetimeThreads : On(t) = {Detaching})
          => \E a \in AllActions : a.kind = "nested" /\ Somewhere(a)
    /\ ~unwound /\ nesting = "attached" => \E a \in AllActions : a.kind = "detach" /\ Somewhere(a)

\* One that its parent has ended, or that has left it, has ended.
NestedEnds ==
    /\ \A a \in Ran : a.kind = "nested" =>
          \/ is_terminated["nested"]
          \/ \E t \in LifetimeThreads : \E f, g \in On(t) :
                f.of = "parent" /\ f.step = "run" /\ g.of = "nested" /\ g.step = "flag"
    /\ \A a \in gone : a.kind # "detach" /\ (a.kind = "nested" => is_terminated["nested"])
    /\ (\E a \in Ran : a.kind = "detach") => \A a \in lifetime_actions["parent"] : a.kind # "nested"

LifetimeInv ==
    /\ LifetimeTypeOK /\ Stacked /\ Identified /\ TakenOnce /\ OneTaker /\ LatestFirst
    /\ NoneLost /\ NestedKnown /\ NestedEnds

-----------------------------------------------------------------------------

\* The last frame of a stack, and the others.
LEMMA StackTop ==
    ASSUME NEW s \in Seq(AllFrames), s # << >>
    PROVE  /\ Len(s) \in Nat \ {0} /\ Last(s) = s[Len(s)] /\ Last(s) \in AllFrames
           /\ Front(s) \in Seq(AllFrames) /\ Len(Front(s)) = Len(s) - 1
           /\ \A i \in 1 .. Len(s) - 1 : Front(s)[i] = s[i]
  <1>1. Len(s) \in Nat \ {0}
    BY EmptySeq
  <1>2. Last(s) = s[Len(s)] /\ Last(s) \in AllFrames
    <2>1. Len(s) \in 1 .. Len(s)
      BY <1>1
    <2> QED BY <2>1, ElementOfSeq DEF Last
  <1>3. /\ Front(s) \in Seq(AllFrames) /\ Len(Front(s)) = Len(s) - 1
        /\ \A i \in 1 .. Len(s) - 1 : Front(s)[i] = s[i]
    <2> DEFINE n == Len(s) - 1
    <2>1. n \in Nat /\ 1 .. n \subseteq 1 .. Len(s)
      BY <1>1
    <2>2. \A k \in 1 .. n : s[k] \in AllFrames
      BY <2>1, ElementOfSeq
    <2>3. /\ SubSeq(s, 1, n) \in Seq(AllFrames)
          /\ Len(SubSeq(s, 1, n)) = IF 1 <= n THEN n - 1 + 1 ELSE 0
          /\ \A k \in 1 .. n - 1 + 1 : SubSeq(s, 1, n)[k] = s[1 + k - 1]
      BY <2>1, <2>2, SubSeqProperties, 1 \in Int, n \in Int
    <2>4. \A k \in 1 .. n : 1 + k - 1 = k /\ k \in 1 .. n - 1 + 1
      BY <2>1
    <2>5. Front(s) = SubSeq(s, 1, n)
      BY DEF Front
    <2> HIDE DEF n
    <2>6. Len(SubSeq(s, 1, n)) = n
      BY <2>1, <2>3
    <2>7. \A k \in 1 .. n : SubSeq(s, 1, n)[k] = s[k]
      BY <2>3, <2>4
    <2> QED BY <2>3, <2>5, <2>6, <2>7 DEF n
  <1> QED BY <1>1, <1>2, <1>3

\* The frames of a thread are the running one and those below it.
LEMMA Frames ==
    ASSUME LifetimeTypeOK, NEW t \in LifetimeThreads
    PROVE  /\ On(t) \subseteq AllFrames /\ Below(t) \subseteq On(t) /\ stack[t] \in Seq(AllFrames)
           /\ stack[t] = << >> => On(t) = {}
           /\ stack[t] # << >> => Top(t) \in AllFrames /\ On(t) = Below(t) \cup {Top(t)}
  <1>1. stack[t] \in Seq(AllFrames) /\ Len(stack[t]) \in Nat
    BY DEF LifetimeTypeOK
  <1>2. On(t) \subseteq AllFrames
    BY <1>1, ElementOfSeq DEF On
  <1>3. Below(t) \subseteq On(t)
    BY <1>1 DEF On, Below
  <1>4. stack[t] = << >> => On(t) = {}
    BY EmptySeq DEF On
  <1>5. ASSUME stack[t] # << >> PROVE Top(t) \in AllFrames /\ On(t) = Below(t) \cup {Top(t)}
    <2>1. /\ Len(stack[t]) \in Nat \ {0} /\ Top(t) = stack[t][Len(stack[t])] /\ Top(t) \in AllFrames
      BY <1>1, <1>5, StackTop DEF Top
    <2>2. \A i \in 1 .. Len(stack[t]) : i \in 1 .. Len(stack[t]) - 1 \/ i = Len(stack[t])
      BY <2>1
    <2>3. Len(stack[t]) \in 1 .. Len(stack[t])
      BY <2>1
    <2>4. On(t) \subseteq Below(t) \cup {Top(t)}
      BY <2>1, <2>2 DEF On, Below
    <2> QED BY <1>3, <2>1, <2>3, <2>4 DEF On
  <1> QED BY <1>1, <1>2, <1>3, <1>4, <1>5

\* The stack of one thread becomes s.
Restack(t, s) == stack' = [stack EXCEPT ![t] = s]

LEMMA Restacked ==
    ASSUME LifetimeTypeOK, Stacked, NEW t \in LifetimeThreads, NEW s \in Seq(AllFrames), Shape(s),
           Restack(t, s)
    PROVE  /\ stack' \in [LifetimeThreads -> Seq(AllFrames)] /\ Stacked'
           /\ \A u \in LifetimeThreads : u # t => On(u)' = On(u)
           /\ On(t)' = {s[i] : i \in 1 .. Len(s)}
  <1>1. stack \in [LifetimeThreads -> Seq(AllFrames)]
    BY DEF LifetimeTypeOK
  <1>2. stack'[t] = s /\ \A u \in LifetimeThreads : u # t => stack'[u] = stack[u]
    BY <1>1 DEF Restack
  <1>3. stack' \in [LifetimeThreads -> Seq(AllFrames)]
    BY <1>1 DEF Restack
  <1>4. Stacked'
    BY <1>2 DEF Stacked
  <1> QED BY <1>2, <1>3, <1>4 DEF On

\* The running frame returns.
LEMMA Returned ==
    ASSUME LifetimeTypeOK, Stacked, NEW t \in LifetimeThreads, stack[t] # << >>, Return(t)
    PROVE  /\ stack' \in [LifetimeThreads -> Seq(AllFrames)] /\ Stacked'
           /\ \A u \in LifetimeThreads : u # t => On(u)' = On(u)
           /\ On(t)' = Below(t)
  <1> DEFINE s == stack[t]
  <1>1. /\ s \in Seq(AllFrames) /\ Len(s) \in Nat \ {0} /\ Front(s) \in Seq(AllFrames)
        /\ Len(Front(s)) = Len(s) - 1 /\ \A i \in 1 .. Len(s) - 1 : Front(s)[i] = s[i]
    BY Frames, StackTop
  <1>2. Restack(t, Front(s))
    BY DEF Restack, Return
  <1>3. Shape(s)
    BY DEF Stacked
  <1> HIDE DEF s
  <1>4. Shape(Front(s))
    <2>1. CASE Len(s) = 1
      BY <1>1, <2>1 DEF Shape
    <2>2. CASE Len(s) = 2
      <3>1. Len(Front(s)) = 1 /\ Front(s)[1] = s[1]
        BY <1>1, <2>2
      <3> QED BY <1>3, <2>2, <3>1 DEF Shape
    <2> QED BY <1>1, <1>3, <2>1, <2>2 DEF Shape
  <1>5. {Front(s)[i] : i \in 1 .. Len(Front(s))} = Below(t)
    BY <1>1 DEF Below, s
  <1> QED BY <1>1, <1>2, <1>4, <1>5, Restacked

\* The running frame goes on.
LEMMA Continued ==
    ASSUME LifetimeTypeOK, Stacked, NEW t \in LifetimeThreads, NEW f \in AllFrames, stack[t] # << >>,
           Becomes(t, f), Top(t).step \in Ends, f.step \in Ends, f.of = Top(t).of, Plain(f)
    PROVE  /\ stack' \in [LifetimeThreads -> Seq(AllFrames)] /\ Stacked'
           /\ \A u \in LifetimeThreads : u # t => On(u)' = On(u)
           /\ On(t)' = Below(t) \cup {f}
  <1> DEFINE s == stack[t]
             new == Append(Front(s), f)
  <1>1. /\ s \in Seq(AllFrames) /\ Len(s) \in Nat \ {0} /\ Front(s) \in Seq(AllFrames)
        /\ Len(Front(s)) = Len(s) - 1 /\ \A i \in 1 .. Len(s) - 1 : Front(s)[i] = s[i]
        /\ Top(t) = s[Len(s)]
    BY Frames, StackTop DEF Top
  <1>2. Restack(t, new)
    BY DEF Restack, Becomes
  <1>3. Shape(s)
    BY DEF Stacked
  <1> HIDE DEF s
  <1>4. /\ new \in Seq(AllFrames) /\ Len(new) = Len(s) /\ new[Len(s)] = f
        /\ \A i \in 1 .. Len(s) - 1 : new[i] = s[i]
    BY <1>1, AppendProperties
  <1> HIDE DEF new
  <1>5. Shape(new)
    <2>1. CASE Len(s) = 1
      BY <1>4, <2>1 DEF Shape
    <2>2. CASE Len(s) = 2
      <3>1. new[1] = s[1] /\ new[2] = f /\ s[2] = Top(t)
        BY <1>1, <1>4, <2>2
      <3>2. s[2] # Attaching
        BY <3>1 DEF Attaching, Ends, Frame
      <3> QED BY <1>3, <1>4, <2>2, <3>1, <3>2 DEF Shape
    <2> QED BY <1>1, <1>3, <2>1, <2>2 DEF Shape
  <1>6. {new[i] : i \in 1 .. Len(new)} = Below(t) \cup {f}
    <2>1. \A i \in 1 .. Len(s) : i \in 1 .. Len(s) - 1 \/ i = Len(s)
      BY <1>1
    <2>2. Len(s) \in 1 .. Len(s) /\ \A i \in 1 .. Len(s) - 1 : i \in 1 .. Len(s)
      BY <1>1
    <2>3. Below(t) = {s[i] : i \in 1 .. Len(s) - 1}
      BY DEF Below, s
    <2>4. {new[i] : i \in 1 .. Len(new)} \subseteq Below(t) \cup {f}
      BY <1>4, <2>1, <2>3
    <2>5. Below(t) \cup {f} \subseteq {new[i] : i \in 1 .. Len(new)}
      BY <1>4, <2>2, <2>3
    <2> QED BY <2>4, <2>5
  <1> QED BY <1>2, <1>4, <1>5, <1>6, Restacked

\* An exception ends every frame.
LEMMA Thrown ==
    ASSUME LifetimeTypeOK, Stacked, NEW t \in LifetimeThreads, Throw(t)
    PROVE  /\ stack' \in [LifetimeThreads -> Seq(AllFrames)] /\ Stacked'
           /\ \A u \in LifetimeThreads : u # t => On(u)' = On(u)
           /\ On(t)' = {}
  <1>1. << >> \in Seq(AllFrames) /\ Len(<< >>) = 0
    BY EmptySeq
  <1>2. Shape(<< >>)
    BY <1>1 DEF Shape
  <1>3. Restack(t, << >>)
    BY DEF Restack, Throw
  <1>4. {<< >>[i] : i \in 1 .. Len(<< >>)} = {}
    BY <1>1
  <1> QED BY <1>1, <1>2, <1>3, <1>4, Restacked

\* A thread makes a call.
LEMMA Called ==
    ASSUME LifetimeTypeOK, Stacked, NEW t \in LifetimeThreads, NEW f \in AllFrames, Plain(f),
           Restack(t, <<f>>)
    PROVE  /\ stack' \in [LifetimeThreads -> Seq(AllFrames)] /\ Stacked'
           /\ \A u \in LifetimeThreads : u # t => On(u)' = On(u)
           /\ On(t)' = {f}
  <1>1. <<f>> \in Seq(AllFrames) /\ Len(<<f>>) = 1 /\ <<f>>[1] = f
    OBVIOUS
  <1>2. Shape(<<f>>)
    BY <1>1 DEF Shape
  <1>3. {<<f>>[i] : i \in 1 .. Len(<<f>>)} = {f}
    BY <1>1
  <1> QED BY <1>1, <1>2, <1>3, Restacked

\* And one in another.
LEMMA CalledTwice ==
    ASSUME LifetimeTypeOK, Stacked, NEW t \in LifetimeThreads, NEW f \in AllFrames, NEW g \in AllFrames,
           Shape(<<f, g>>), Restack(t, <<f, g>>)
    PROVE  /\ stack' \in [LifetimeThreads -> Seq(AllFrames)] /\ Stacked'
           /\ \A u \in LifetimeThreads : u # t => On(u)' = On(u)
           /\ On(t)' = {f, g}
  <1> DEFINE s == <<f, g>>
  <1>1. s \in Seq(AllFrames) /\ Len(s) = 2 /\ s[1] = f /\ s[2] = g
    OBVIOUS
  <1> HIDE DEF s
  <1>3. {s[i] : i \in 1 .. Len(s)} = {f, g}
    <2>1. 1 .. Len(s) = {1, 2}
      BY <1>1
    <2> QED BY <1>1, <2>1
  <1> QED BY <1>1, <1>3, Restacked DEF s

\* The parent's terminate runs the nested lifetime's.
LEMMA Nested ==
    ASSUME LifetimeTypeOK, Stacked, NEW t \in LifetimeThreads, NEW f \in AllFrames, NEW g \in AllFrames,
           stack[t] # << >>, Top(t).step = "run", Top(t).of = "parent",
           f.step = "run", f.of = "parent", Plain(f), g.step = "flag", g.of = "nested", Plain(g),
           Restack(t, Front(stack[t]) \o <<f, g>>)
    PROVE  /\ stack' \in [LifetimeThreads -> Seq(AllFrames)] /\ Stacked'
           /\ \A u \in LifetimeThreads : u # t => On(u)' = On(u)
           /\ On(t)' = {f, g} /\ Below(t) = {}
  <1> DEFINE s == stack[t]
  <1>1. /\ s \in Seq(AllFrames) /\ Len(s) \in Nat \ {0} /\ Front(s) \in Seq(AllFrames)
        /\ Len(Front(s)) = Len(s) - 1 /\ Top(t) = s[Len(s)]
    BY Frames, StackTop DEF Top
  <1>2. Shape(s)
    BY DEF Stacked
  <1>3. Len(s) = 1
    <2>1. ASSUME Len(s) = 2 PROVE FALSE
      <3>1. s[2].step = "run" /\ s[2].of = "parent"
        BY <1>1, <2>1
      <3>2. s[2] # Attaching
        BY <3>1 DEF Attaching, Frame
      <3> QED BY <1>2, <2>1, <3>1, <3>2 DEF Shape
    <2> QED BY <1>1, <1>2, <2>1 DEF Shape
  <1>4. Front(s) = << >>
    BY <1>1, <1>3, EmptySeq
  <1>5. << >> \o <<f, g>> = <<f, g>>
    OBVIOUS
  <1>6. Restack(t, <<f, g>>)
    BY <1>4, <1>5
  <1>7. Shape(<<f, g>>)
    <2>1. Len(<<f, g>>) = 2 /\ <<f, g>>[1] = f /\ <<f, g>>[2] = g
      OBVIOUS
    <2> QED BY <2>1 DEF Shape, Ends
  <1>8. Below(t) = {}
    BY <1>3 DEF Below
  <1> QED BY <1>6, <1>7, <1>8, CalledTwice

\* A non-empty set of naturals with a bound has a greatest one.
LEMMA GreatestNumber ==
    ASSUME NEW N \in Nat, NEW T, T \subseteq 0 .. N, T # {}
    PROVE  \E n \in T : \A m \in T : m <= n
<1> DEFINE S == {n .. N : n \in T}
<1>1. S # {}
  OBVIOUS
<1>2. \A y \in S : y \in SUBSET Nat
  OBVIOUS
<1>3. \A n \in T : n .. N \in S
  OBVIOUS
<1>4. \A y \in S : \E n \in T : y = n .. N
  OBVIOUS
<1>5. S \subseteq FiniteSubsetsOf(Nat)
  <2> SUFFICES ASSUME NEW n \in T PROVE n .. N \in FiniteSubsetsOf(Nat)
    OBVIOUS
  <2>1. IsFiniteSet(n .. N)
    BY FS_Interval
  <2> QED
    BY <2>1 DEF FiniteSubsetsOf
<1> HIDE DEF S
<1>6. PICK x \in S : \A y \in S : ~(<<y, x>> \in StrictSubsetOrdering(Nat))
  BY <1>1, <1>5, FS_StrictSubsetOrderingWellFounded, WFMin
<1>7. \A y \in S : ~(y \subseteq x /\ y # x)
  BY <1>2, <1>6 DEF StrictSubsetOrdering
<1>8. PICK n \in T : x = n .. N
  BY <1>4
<1>9. ASSUME NEW m \in T, n < m PROVE FALSE
  <2>1. m \in 0 .. N /\ n \in 0 .. N
    OBVIOUS
  <2>2. m .. N \subseteq n .. N /\ n \in n .. N /\ n \notin m .. N
    BY <1>9, <2>1
  <2> QED
    BY <1>3, <1>7, <1>8, <2>2
<1> QED
  BY <1>9

\* What is below the running frame.
LEMMA OnThread ==
    ASSUME LifetimeTypeOK, Stacked, NEW t \in LifetimeThreads, stack[t] # << >>
    PROVE  /\ \A f \in On(t) : f.todo # {} => f.step = "run"
           /\ Top(t).step = "remove" => Below(t) = {} /\ Top(t).kind = "user"
           /\ Top(t).step \in Ends =>
                 /\ Plain(Top(t))
                 /\ \/ Below(t) = {}
                    \/ /\ Top(t).of = "nested"
                       /\ \E f \in AllFrames : Below(t) = {f} /\ f.step = "run" /\ f.of = "parent" /\ Plain(f)
           /\ Top(t).step = "add" =>
                 /\ Top(t).todo = {} /\ \A f \in On(t) : f.step = "add"
                 /\ \/ Top(t).kind = "user" /\ Below(t) = {}
                    \/ Top(t) = Detaching /\ Below(t) = {}
                    \/ Top(t) = Attaching /\ Below(t) = {Detaching}
  <1> DEFINE s == stack[t]
  <1>1. /\ s \in Seq(AllFrames) /\ Len(s) \in Nat \ {0} /\ Top(t) = s[Len(s)]
        /\ On(t) = {s[i] : i \in 1 .. Len(s)} /\ Below(t) = {s[i] : i \in 1 .. Len(s) - 1}
    BY Frames, StackTop DEF Top, On, Below
  <1>2. Shape(s)
    BY DEF Stacked
  <1> HIDE DEF s
  <1>3. Detaching.step = "add" /\ Attaching.step = "add" /\ Detaching.todo = {} /\ Attaching.todo = {}
    BY DEF Detaching, Attaching, Frame
  <1>4. CASE Len(s) = 1
    <2>1. Top(t) = s[1] /\ On(t) = {s[1]} /\ Below(t) = {}
      <3>1. 1 .. 1 = {1} /\ 1 .. 1 - 1 = {}
        OBVIOUS
      <3> QED BY <1>1, <1>4, <3>1
    <2>2. Plain(s[1]) \/ s[1] = Detaching
      BY <1>2, <1>4 DEF Shape
    <2> QED BY <1>3, <2>1, <2>2 DEF Plain, Ends
  <1>5. CASE Len(s) = 2
    <2>1. Top(t) = s[2] /\ On(t) = {s[1], s[2]} /\ Below(t) = {s[1]}
      <3>1. 1 .. 2 = {1, 2} /\ 1 .. 2 - 1 = {1}
        OBVIOUS
      <3> QED BY <1>1, <1>5, <3>1
    <2>2. CASE s[1] = Detaching /\ s[2] = Attaching
      BY <1>3, <2>1, <2>2 DEF Ends
    <2>3. CASE /\ s[1].step = "run" /\ s[1].of = "parent" /\ Plain(s[1])
               /\ s[2].step \in Ends /\ s[2].of = "nested" /\ Plain(s[2])
      <3>1. s[1] \in AllFrames
        BY <1>1, <1>5, ElementOfSeq
      <3> QED BY <2>1, <2>3, <3>1 DEF Plain, Ends
    <2> QED BY <1>2, <1>5, <2>2, <2>3 DEF Shape
  <1> QED BY <1>1, <1>2, <1>4, <1>5 DEF Shape

\* The next action to run is the latest of those that are left.
LEMMA LatestIsLast ==
    ASSUME LifetimeTypeOK, Stacked, Identified, NEW t \in LifetimeThreads,
           stack[t] # << >>, Top(t).todo # {}
    PROVE  /\ Latest(t) \in Top(t).todo /\ Latest(t) \in AllActions
           /\ Latest(t).of = Top(t).of /\ GivenTo(Latest(t))
           /\ \A b \in Top(t).todo : b # Latest(t) => b.id < Latest(t).id
  <1> DEFINE A == Top(t).todo
             n == action_id_in_map[Top(t).of]
             T == {b.id : b \in A}
  <1>1. Top(t) \in AllFrames /\ Top(t) \in On(t)
    BY Frames
  <1>2. A \subseteq AllActions /\ n \in Nat
    BY <1>1 DEF AllFrames, LifetimeTypeOK
  <1>3. (\A a \in A : a.of = Top(t).of /\ GivenTo(a)) /\ IdsApart(A)
    BY <1>1 DEF Identified
  <1>4. \A b \in A : b.id \in Nat /\ b.id <= n
    BY <1>2, <1>3 DEF GivenTo, AllActions
  <1> HIDE DEF A, n
  <1>5. PICK m \in T : \A k \in T : k <= m
    <2>1. T \subseteq 0 .. n
      BY <1>2, <1>4
    <2>2. T # {}
      BY DEF A
    <2> HIDE DEF T
    <2> QED BY <1>2, <2>1, <2>2, GreatestNumber
  <1>6. PICK a \in A : a.id = m
    OBVIOUS
  <1>7. \E c \in A : \A b \in A : b.id <= c.id
    BY <1>5, <1>6
  <1>8. Latest(t) \in A /\ \A b \in A : b.id <= Latest(t).id
    BY <1>7 DEF Latest, A
  <1>9. \A b \in A : b # Latest(t) => b.id < Latest(t).id
    BY <1>3, <1>4, <1>8 DEF IdsApart
  <1> QED BY <1>2, <1>3, <1>8, <1>9 DEF A

-----------------------------------------------------------------------------
(* One lemma for each action.                                               *)

\* A step that leaves what is still to run where it is.
LEMMA FramesOnly ==
    ASSUME LifetimeInv,
           UNCHANGED <<lifetime_actions, has_run, gone, action_id_in_map>>,
           \A u \in LifetimeThreads : \A f \in On(u)' : f.todo # {} => f \in On(u),
           \A u \in LifetimeThreads : \A f \in On(u) : f.todo # {} => f \in On(u)'
    PROVE  /\ Identified' /\ OneTaker' /\ LatestFirst' /\ Ran' = Ran
           /\ unwound' = unwound => NoneLost'
           /\ \A a \in AllActions : Somewhere(a)' <=> Somewhere(a)
  <1>1. Ran' = Ran
    BY DEF Ran
  <1>2. \A a \in AllActions : Somewhere(a)' <=> Somewhere(a)
    BY <1>1 DEF Somewhere
  <1>3. Identified'
    <2>1. Identified
      BY DEF LifetimeInv
    <2>2. \A a : GivenTo(a)' <=> GivenTo(a)
      BY DEF GivenTo
    <2>3. \A u \in LifetimeThreads : \A f \in On(u)' : IdsApart(f.todo)
      <3>1. IdsApart({})
        BY DEF IdsApart
      <3> QED BY <2>1, <3>1 DEF Identified
    <2>4. \A l \in Lifetimes : IdsApart(lifetime_actions'[l])
      BY <2>1 DEF Identified
    <2>5. \A t \in LifetimeThreads : \A f \in On(t)' : \A a \in f.todo : a.of = f.of /\ GivenTo(a)'
      BY <2>1, <2>2 DEF Identified
    <2> QED BY <1>1, <2>1, <2>2, <2>3, <2>4, <2>5 DEF Identified, IdsApart
  <1>4. OneTaker'
    BY DEF LifetimeInv, OneTaker
  <1>5. LatestFirst'
    BY <1>1 DEF LifetimeInv, LatestFirst, LastFirst
  <1>6. ASSUME unwound' = unwound PROVE NoneLost'
    BY <1>2, <1>6 DEF LifetimeInv, NoneLost
  <1> QED BY <1>1, <1>2, <1>3, <1>4, <1>5, <1>6

\* add_action, remove_action and terminate.
LEMMA CallStep ==
    ASSUME LifetimeInv, NEW t \in LifetimeThreads, NEW f \in AllFrames,
           f.step \in {"add", "remove", "flag"}, Plain(f), Call(t, <<f>>), UNCHANGED nesting
    PROVE  LifetimeInv'
  <1>1. /\ stack' \in [LifetimeThreads -> Seq(AllFrames)] /\ Stacked'
        /\ \A u \in LifetimeThreads : u # t => On(u)' = On(u)
        /\ On(t)' = {f}
    BY Called DEF LifetimeInv, Call, Restack
  <1>2. On(t) = {} /\ f.todo = {}
    BY Frames DEF LifetimeInv, Call, Plain
  <1>3. LifetimeTypeOK'
    BY <1>1 DEF LifetimeInv, LifetimeTypeOK, Call
  <1>4. /\ Identified' /\ OneTaker' /\ LatestFirst' /\ Ran' = Ran /\ NoneLost'
        /\ \A a \in AllActions : Somewhere(a)' <=> Somewhere(a)
    BY <1>1, <1>2, FramesOnly DEF Call
  <1>5. TakenOnce'
    BY <1>1, <1>2, <1>4 DEF LifetimeInv, TakenOnce, Call, Lifetimes
  <1>6. f.kind \notin {"nested", "detach"}
    BY DEF Plain
  <1>7. f # Detaching
    BY <1>6 DEF Detaching, Frame
  <1>8. NestedKnown'
    <2>1. /\ nesting' = nesting /\ unwound' = unwound
          /\ \A u \in LifetimeThreads : \A g \in On(u)' : g.kind \in {"nested", "detach"} => g \in On(u)
          /\ \A u \in LifetimeThreads : On(u)' = {Detaching} => On(u) = {Detaching}
      BY <1>1, <1>6, <1>7 DEF Call
    <2> QED BY <1>4, <2>1 DEF LifetimeInv, NestedKnown
  <1>9. NestedEnds'
    BY <1>1, <1>2, <1>4 DEF LifetimeInv, NestedEnds, Call
  <1> QED BY <1>1, <1>3, <1>4, <1>5, <1>8, <1>9 DEF LifetimeInv

\* The constructor of the nested lifetime.
LEMMA AttachStep == ASSUME LifetimeInv, NEW t \in LifetimeThreads, attach_nested(t) PROVE LifetimeInv'
  <1>1. Detaching \in AllFrames /\ Attaching \in AllFrames
    BY DEF Detaching, Attaching, Frame, AllFrames, Lifetimes, ActionKinds
  <1>2. Detaching # Attaching /\ Detaching.todo = {} /\ Attaching.todo = {}
        /\ Detaching.step = "add" /\ Attaching.step = "add"
    BY DEF Detaching, Attaching, Frame
  <1>3. Shape(<<Detaching, Attaching>>)
    BY DEF Shape
  <1>4. /\ stack' \in [LifetimeThreads -> Seq(AllFrames)] /\ Stacked'
        /\ \A u \in LifetimeThreads : u # t => On(u)' = On(u)
        /\ On(t)' = {Detaching, Attaching}
    BY <1>1, <1>3, CalledTwice DEF LifetimeInv, attach_nested, Call, Restack, Detaching, Attaching
  <1>5. On(t) = {} /\ nesting = "none" /\ nesting' = "attaching"
    BY Frames DEF LifetimeInv, Call, attach_nested
  <1>6. LifetimeTypeOK'
    BY <1>4, <1>5 DEF LifetimeInv, LifetimeTypeOK, Call, attach_nested
  <1>7. /\ Identified' /\ OneTaker' /\ LatestFirst' /\ Ran' = Ran /\ NoneLost'
        /\ \A a \in AllActions : Somewhere(a)' <=> Somewhere(a)
    BY <1>2, <1>4, <1>5, FramesOnly DEF Call, attach_nested
  <1>8. TakenOnce'
    BY <1>2, <1>4, <1>5, <1>7 DEF LifetimeInv, TakenOnce, Call, attach_nested, Lifetimes
  <1>9. NestedKnown'
    <2>1. NestedKnown
      BY DEF LifetimeInv
    <2>2. \A u \in LifetimeThreads : \A g \in On(u) : g.kind \notin {"nested", "detach"}
      BY <1>5, <2>1 DEF NestedKnown
    <2>3. \A a \in AllActions : ~(a.kind = "detach" /\ Somewhere(a))
      BY <1>5, <2>1 DEF NestedKnown
    <2>4. \A u \in LifetimeThreads : On(u)' # {Detaching}
      <3>1. Detaching.kind = "detach"
        BY DEF Detaching, Frame
      <3>2. \A u \in LifetimeThreads : On(u) # {Detaching}
        BY <2>2, <3>1
      <3> QED BY <1>2, <1>4, <3>2
    <2>5. \A u \in LifetimeThreads : \A g \in On(u)' : g.kind \in {"nested", "detach"} => u = t
      BY <1>4, <2>2
    <2> QED BY <1>5, <1>7, <2>3, <2>4, <2>5 DEF NestedKnown
  <1>10. NestedEnds'
    BY <1>2, <1>4, <1>5, <1>7 DEF LifetimeInv, NestedEnds, Call, attach_nested
  <1> QED BY <1>4, <1>6, <1>7, <1>8, <1>9, <1>10 DEF LifetimeInv

\* add_action of a lifetime that has been terminated.
LEMMA RefuseStep ==
    ASSUME LifetimeInv, NEW t \in LifetimeThreads, StepAdd(t), is_terminated[Top(t).of], Throw(t),
           nesting' = IF Top(t).kind = "user" THEN nesting ELSE "refused",
           UNCHANGED <<lifetime_actions, action_id_in_map>>
    PROVE  LifetimeInv'
  <1>1. /\ stack' \in [LifetimeThreads -> Seq(AllFrames)] /\ Stacked'
        /\ \A u \in LifetimeThreads : u # t => On(u)' = On(u)
        /\ On(t)' = {}
    BY Thrown DEF LifetimeInv
  <1>2. /\ stack[t] # << >> /\ Top(t).step = "add" /\ Top(t) \in On(t)
        /\ \A f \in On(t) : f.step = "add" /\ f.todo = {}
        /\ Top(t).kind = "user" \/ Top(t) = Detaching \/ Top(t) = Attaching
    <2>1. stack[t] # << >> /\ Top(t).step = "add"
      BY DEF StepAdd, Running
    <2> QED BY <2>1, Frames, OnThread DEF LifetimeInv
  <1>3. UNCHANGED <<is_terminated, lifetime_actions, action_id_in_map, lifetime_calls, has_run, gone,
                    unwound, raced>>
    BY DEF StepAdd
  <1>4. LifetimeTypeOK'
    BY <1>1, <1>3 DEF LifetimeInv, LifetimeTypeOK
  <1>5. /\ Identified' /\ OneTaker' /\ LatestFirst' /\ Ran' = Ran /\ NoneLost'
        /\ \A a \in AllActions : Somewhere(a)' <=> Somewhere(a)
    BY <1>1, <1>2, <1>3, FramesOnly
  <1>6. TakenOnce'
    BY <1>1, <1>2, <1>3, <1>5 DEF LifetimeInv, TakenOnce
  <1>7. NestedKnown'
    <2>1. NestedKnown
      BY DEF LifetimeInv
    <2>2. \/ nesting' = nesting
          \/ nesting' = "refused" /\ Top(t).kind \in {"nested", "detach"}
      BY <1>2 DEF Detaching, Attaching, Frame
    <2>3. CASE nesting' = nesting
      <3>1. \A u \in LifetimeThreads : \A g \in On(u)' : g \in On(u)
        BY <1>1
      <3>2. \A u \in LifetimeThreads : On(u)' = {Detaching} => On(u) = {Detaching}
        BY <1>1
      <3> QED BY <1>3, <1>5, <2>1, <2>3, <3>1, <3>2 DEF NestedKnown
    <2>4. CASE nesting' = "refused" /\ Top(t).kind \in {"nested", "detach"}
      <3>1. nesting = "attaching" /\ \A u \in LifetimeThreads : \A g \in On(u) :
                g.kind \in {"nested", "detach"} => u = t
        BY <1>2, <2>1, <2>4 DEF NestedKnown
      <3>2. \A u \in LifetimeThreads : \A g \in On(u)' : g.kind \notin {"nested", "detach"}
        BY <1>1, <3>1
      <3>3. \A u \in LifetimeThreads : On(u)' # {Detaching}
        <4>1. Detaching.kind = "detach"
          BY DEF Detaching, Frame
        <4> QED BY <3>2, <4>1
      <3>4. \A a \in AllActions : ~(a.kind = "detach" /\ Somewhere(a))
        BY <2>1, <3>1 DEF NestedKnown
      <3> QED BY <1>5, <2>4, <3>2, <3>3, <3>4 DEF NestedKnown
    <2> QED BY <2>2, <2>3, <2>4
  <1>8. NestedEnds'
    <2>1. \A u \in LifetimeThreads : \A f \in On(u) : f.step # "add" => f \in On(u)'
      BY <1>1, <1>2
    <2> QED BY <1>3, <1>5, <2>1 DEF LifetimeInv, NestedEnds
  <1> QED BY <1>1, <1>4, <1>5, <1>6, <1>7, <1>8 DEF LifetimeInv

\* add_action of another: the action has the next number.
LEMMA InsertStep ==
    ASSUME LifetimeInv, NEW t \in LifetimeThreads, StepAdd(t), ~is_terminated[Top(t).of],
           Insert(Top(t).of, Top(t).kind), Return(t),
           nesting' = IF Top(t).kind = "detach" THEN "attached" ELSE nesting
    PROVE  LifetimeInv'
  <1> DEFINE l == Top(t).of
             kind == Top(t).kind
             n == action_id_in_map[l]
             new == LifetimeAction(l, kind)
  <1>1. /\ stack' \in [LifetimeThreads -> Seq(AllFrames)] /\ Stacked'
        /\ \A u \in LifetimeThreads : u # t => On(u)' = On(u)
        /\ On(t)' = Below(t) /\ Below(t) \subseteq On(t)
        /\ stack[t] # << >> /\ Top(t).step = "add" /\ Top(t) \in On(t) /\ Top(t) \in AllFrames
    <2>1. stack[t] # << >> /\ Top(t).step = "add"
      BY DEF StepAdd, Running
    <2> QED BY <2>1, Returned, Frames DEF LifetimeInv
  <1>2. /\ \A f \in On(t) : f.step = "add" /\ f.todo = {}
        /\ \/ kind = "user" /\ Below(t) = {}
           \/ Top(t) = Detaching /\ Below(t) = {} /\ l = "nested" /\ kind = "detach"
           \/ Top(t) = Attaching /\ Below(t) = {Detaching} /\ l = "parent" /\ kind = "nested"
    BY <1>1, OnThread DEF LifetimeInv, Detaching, Attaching, Frame
  <1>3. UNCHANGED <<is_terminated, lifetime_calls, has_run, gone, unwound, raced>> /\ Ran' = Ran
    BY DEF StepAdd, Ran
  <1>4. l \in Lifetimes /\ n \in Nat /\ new \in AllActions /\ new.of = l /\ new.id = n /\ new.kind = kind
    BY <1>1, <1>2 DEF LifetimeInv, LifetimeTypeOK, AllFrames, LifetimeAction, AllActions, ActionKinds
  <1>5. /\ lifetime_actions'[l] = lifetime_actions[l] \cup {new}
        /\ \A k \in Lifetimes : k # l => lifetime_actions'[k] = lifetime_actions[k]
        /\ action_id_in_map'[l] = n + 1
        /\ \A k \in Lifetimes : k # l => action_id_in_map'[k] = action_id_in_map[k]
        /\ lifetime_actions' \in [Lifetimes -> SUBSET AllActions] /\ action_id_in_map' \in [Lifetimes -> Nat]
    BY <1>4 DEF LifetimeInv, LifetimeTypeOK, Insert
  <1>6. \A u \in LifetimeThreads : /\ \A f \in On(u)' : f \in On(u)
                                   /\ \A f \in On(u) : f.todo # {} \/ f.step # "add" => f \in On(u)'
    BY <1>1, <1>2
  <1>7. is_terminated[l] = FALSE /\ (\A a \in Ran : a.of # l)
        /\ (\A u \in LifetimeThreads : \A f \in On(u) : f.step \in {"take", "run"} => f.of # l)
    BY <1>4 DEF LifetimeInv, LifetimeTypeOK, TakenOnce
  <1> HIDE DEF l, kind, n, new
  <1>8. \A a \in AllActions : Somewhere(a)' <=> Somewhere(a) \/ a = new
    <2>1. \A a \in AllActions : a.of \in Lifetimes
      BY DEF AllActions
    <2>2. \A a \in AllActions : a \in lifetime_actions'[a.of] <=> a \in lifetime_actions[a.of] \/ a = new
      BY <1>4, <1>5, <2>1
    <2>3. \A a : (\E u \in LifetimeThreads : \E f \in On(u)' : a \in f.todo)
                    <=> (\E u \in LifetimeThreads : \E f \in On(u) : a \in f.todo)
      BY <1>6
    <2> QED BY <1>3, <2>2, <2>3 DEF Somewhere
  <1>9. LifetimeTypeOK'
    BY <1>1, <1>2, <1>3, <1>5 DEF LifetimeInv, LifetimeTypeOK, kind, StepAdd
  <1>10. Identified'
    <2>1. Identified
      BY DEF LifetimeInv
    <2>2. \A a \in AllActions : GivenTo(a) => GivenTo(a)'
      <3> SUFFICES ASSUME NEW a \in AllActions, GivenTo(a) PROVE GivenTo(a)'
        OBVIOUS
      <3>1. a.of \in Lifetimes /\ a.id \in Nat /\ a.id < action_id_in_map[a.of]
        BY DEF AllActions, GivenTo
      <3>2. a.id < action_id_in_map'[a.of]
        <4>1. CASE a.of = l
          BY <1>4, <1>5, <3>1, <4>1 DEF n
        <4>2. CASE a.of # l
          BY <1>5, <3>1, <4>2
        <4> QED BY <4>1, <4>2
      <3> QED BY <3>2 DEF GivenTo
    <2>3. \A a \in AllActions : a = new => GivenTo(a)'
      <3>1. n < n + 1
        BY <1>4
      <3> QED BY <1>2, <1>4, <1>5, <3>1 DEF GivenTo
    <2>4. \A k \in Lifetimes : \A a \in lifetime_actions'[k] : a.of = k /\ GivenTo(a)'
      <3> SUFFICES ASSUME NEW k \in Lifetimes, NEW a \in lifetime_actions'[k] PROVE a.of = k /\ GivenTo(a)'
        OBVIOUS
      <3>1. a \in AllActions /\ (a \in lifetime_actions[k] \/ (k = l /\ a = new))
        BY <1>5
      <3> QED BY <1>4, <2>1, <2>2, <2>3, <3>1 DEF Identified
    <2>5. \A u \in LifetimeThreads : \A f \in On(u)' : \A a \in f.todo : a \in AllActions
      BY <1>6, Frames DEF AllFrames, LifetimeInv
    <2>6. \A u \in LifetimeThreads : \A f \in On(u)' : \A a \in f.todo : a.of = f.of /\ GivenTo(a)'
      BY <1>6, <2>1, <2>2, <2>5 DEF Identified
    <2>7. Ran \cup gone \subseteq AllActions
      BY ElementOfSeq DEF LifetimeInv, LifetimeTypeOK, Ran
    <2>8. \A a \in (Ran \cup gone)' : GivenTo(a)'
      BY <1>3, <2>1, <2>2, <2>7 DEF Identified
    <2>9. \A a \in lifetime_actions[l] : a.id # new.id
      BY <1>4, <2>1 DEF Identified, GivenTo, LifetimeInv, LifetimeTypeOK, n, AllActions
    <2>10. \A k \in Lifetimes : IdsApart(lifetime_actions'[k])
      BY <1>4, <1>5, <2>1, <2>9 DEF Identified, IdsApart
    <2>11. \A u \in LifetimeThreads : \A f \in On(u)' : IdsApart(f.todo)
      BY <1>6, <2>1 DEF Identified
    <2> QED BY <2>4, <2>6, <2>8, <2>10, <2>11 DEF Identified, IdsApart
  <1>11. TakenOnce'
    <2>1. TakenOnce
      BY DEF LifetimeInv
    <2>2. \A k \in Lifetimes : (\E a \in Ran' : a.of = k) => is_terminated'[k] /\ lifetime_actions'[k] = {}
      BY <1>3, <1>5, <1>7, <2>1 DEF TakenOnce
    <2>3. \A u \in LifetimeThreads : \A f \in On(u)' :
             /\ f.step \in {"take", "run"} => is_terminated'[f.of]
             /\ f.step = "run" => lifetime_actions'[f.of] = {}
      <3>1. \A u \in LifetimeThreads : \A f \in On(u) : f.of \in Lifetimes
        BY Frames DEF LifetimeInv, AllFrames
      <3> QED BY <1>3, <1>5, <1>6, <1>7, <2>1, <3>1 DEF TakenOnce
    <2>4. \A k \in Lifetimes : is_terminated'[k] /\ lifetime_actions'[k] # {} =>
             \E u \in LifetimeThreads : \E f \in On(u)' : f.of = k /\ f.step = "take"
      BY <1>3, <1>5, <1>6, <1>7, <2>1 DEF TakenOnce
    <2> QED BY <2>2, <2>3, <2>4 DEF TakenOnce
  <1>12. OneTaker'
    BY <1>6 DEF LifetimeInv, OneTaker
  <1>13. LatestFirst'
    BY <1>3, <1>6 DEF LifetimeInv, LatestFirst, LastFirst
  <1>14. NoneLost'
    <2> SUFFICES ASSUME ~unwound', NEW k \in Lifetimes, NEW id \in 0 .. action_id_in_map'[k] - 1
                 PROVE  \E a \in AllActions : a.of = k /\ a.id = id /\ Somewhere(a)'
      BY DEF NoneLost
    <2>1. CASE k = l /\ id = n
      BY <1>4, <1>8, <2>1
    <2>2. CASE k = l /\ id # n
      <3>1. id \in 0 .. action_id_in_map[l] - 1
        BY <1>4, <1>5, <2>2 DEF n
      <3> QED BY <1>3, <1>8, <2>2, <3>1 DEF LifetimeInv, NoneLost
    <2>3. CASE k # l
      BY <1>3, <1>5, <1>8, <2>3 DEF LifetimeInv, NoneLost
    <2> QED BY <2>1, <2>2, <2>3
  <1>15. NestedKnown'
    <2>1. NestedKnown
      BY DEF LifetimeInv
    <2>2. \A u, w \in LifetimeThreads : \A f \in On(u)', g \in On(w)' :
             f.kind \in {"nested", "detach"} /\ g.kind \in {"nested", "detach"}
                 => u = w /\ nesting' = "attaching"
      <3>1. CASE kind # "detach"
        BY <1>6, <2>1, <3>1 DEF NestedKnown, kind
      <3>2. CASE kind = "detach"
        <4>1. On(t)' = {}
          BY <1>1, <1>2, <3>2
        <4>2. \A u \in LifetimeThreads : \A f \in On(u) : f.kind \in {"nested", "detach"} => u = t
          BY <1>1, <2>1, <3>2 DEF NestedKnown, kind
        <4> QED BY <1>6, <4>1, <4>2
      <3> QED BY <3>1, <3>2
    <2>3. \A a \in AllActions : a.kind = "detach" /\ Somewhere(a)' => nesting' = "attached"
      BY <1>4, <1>8, <2>1 DEF NestedKnown, kind
    <2>4. ~unwound' /\ (nesting' = "attached" \/ \E u \in LifetimeThreads : On(u)' = {Detaching})
             => \E a \in AllActions : a.kind = "nested" /\ Somewhere(a)'
      <3>1. CASE kind = "nested"
        BY <1>4, <1>8, <3>1
      <3>2. CASE kind # "nested"
        <4>1. On(t)' = {} /\ (kind = "detach" => On(t) = {Detaching})
          <5>1. On(t) = Below(t) \cup {Top(t)}
            BY <1>1, Frames DEF LifetimeInv
          <5>2. kind = "detach" => Top(t) = Detaching
            BY <1>2, <3>2
          <5> QED BY <1>1, <1>2, <3>2, <5>1, <5>2
        <4>2. \A u \in LifetimeThreads : On(u)' = {Detaching} => On(u) = {Detaching}
          BY <1>1, <4>1
        <4>3. nesting' = "attached" => nesting = "attached" \/ On(t) = {Detaching}
          BY <4>1 DEF kind
        <4> QED BY <1>3, <1>8, <2>1, <4>2, <4>3 DEF NestedKnown
      <3> QED BY <3>1, <3>2
    <2>5. ~unwound' /\ nesting' = "attached" => \E a \in AllActions : a.kind = "detach" /\ Somewhere(a)'
      BY <1>3, <1>4, <1>8, <2>1 DEF NestedKnown, kind
    <2> QED BY <2>2, <2>3, <2>4, <2>5 DEF NestedKnown
  <1>16. NestedEnds'
    <2>1. NestedEnds /\ NestedKnown
      BY DEF LifetimeInv
    <2>2. \A a \in Ran' : a.kind = "nested" =>
             \/ is_terminated'["nested"]
             \/ \E u \in LifetimeThreads : \E f, g \in On(u)' :
                   f.of = "parent" /\ f.step = "run" /\ g.of = "nested" /\ g.step = "flag"
      <3>1. \A u \in LifetimeThreads : \A f, g \in On(u) :
               f.step = "run" /\ g.step = "flag" => f \in On(u)' /\ g \in On(u)'
        BY <1>6
      <3> QED BY <1>3, <2>1, <3>1 DEF NestedEnds
    <2>3. (\E a \in Ran : a.kind = "detach") => kind # "nested"
      <3> SUFFICES ASSUME NEW a \in Ran, a.kind = "detach", kind = "nested" PROVE FALSE
        OBVIOUS
      <3>1. a \in AllActions /\ Somewhere(a)
        BY ElementOfSeq DEF LifetimeInv, LifetimeTypeOK, Ran, Somewhere
      <3>2. nesting = "attaching"
        BY <1>1, <2>1 DEF NestedKnown, kind
      <3> QED BY <2>1, <3>1, <3>2 DEF NestedKnown
    <2>4. (\E a \in Ran' : a.kind = "detach") => \A a \in lifetime_actions'["parent"] : a.kind # "nested"
      BY <1>3, <1>4, <1>5, <2>1, <2>3 DEF NestedEnds, Lifetimes
    <2> QED BY <1>3, <2>1, <2>2, <2>4 DEF NestedEnds
  <1> QED BY <1>1, <1>9, <1>10, <1>11, <1>12, <1>13, <1>14, <1>15, <1>16 DEF LifetimeInv

\* remove_action.
LEMMA RemoveStep == ASSUME LifetimeInv, NEW t \in LifetimeThreads, StepRemove(t) PROVE LifetimeInv'
  <1>1. /\ stack' \in [LifetimeThreads -> Seq(AllFrames)] /\ Stacked'
        /\ \A u \in LifetimeThreads : u # t => On(u)' = On(u)
        /\ On(t)' = {} /\ On(t) = {Top(t)} /\ Top(t) \in AllFrames
        /\ Top(t).step = "remove" /\ Top(t).todo = {}
    <2>1. stack[t] # << >> /\ Top(t).step = "remove" /\ Return(t)
      BY DEF StepRemove, Running
    <2>2. On(t) = {Top(t)} /\ Below(t) = {} /\ Top(t) \in AllFrames
      BY <2>1, Frames, OnThread DEF LifetimeInv
    <2>3. Top(t).todo = {}
      BY <2>1, <2>2, OnThread DEF LifetimeInv
    <2> QED BY <2>1, <2>2, <2>3, Returned DEF LifetimeInv
  <1>2. UNCHANGED <<is_terminated, action_id_in_map, nesting, lifetime_calls, has_run, unwound, raced>>
        /\ Ran' = Ran
    BY DEF StepRemove, Ran
  <1>3. PICK its : /\ its \subseteq lifetime_actions[Top(t).of] /\ \A a \in its : a.kind = "user"
                   /\ lifetime_actions' = [lifetime_actions EXCEPT ![Top(t).of] = @ \ its]
                   /\ gone' = gone \cup its
    <2>1. PICK id \in 0 .. action_id_in_map[Top(t).of] - 1 :
            LET l == Top(t).of
                s == {a \in lifetime_actions[l] : a.id = id /\ a.kind = "user"}
            IN  /\ lifetime_actions' = [lifetime_actions EXCEPT ![l] = @ \ s]
                /\ gone' = gone \cup s
      BY DEF StepRemove
    <2> DEFINE s == {a \in lifetime_actions[Top(t).of] : a.id = id /\ a.kind = "user"}
    <2>2. /\ s \subseteq lifetime_actions[Top(t).of] /\ \A a \in s : a.kind = "user"
          /\ lifetime_actions' = [lifetime_actions EXCEPT ![Top(t).of] = @ \ s]
          /\ gone' = gone \cup s
      BY <2>1
    <2> QED BY <2>2
  <1> DEFINE l == Top(t).of
  <1>4. /\ l \in Lifetimes /\ its \subseteq AllActions
        /\ lifetime_actions' \in [Lifetimes -> SUBSET AllActions]
        /\ \A k \in Lifetimes : lifetime_actions'[k] \subseteq lifetime_actions[k]
        /\ \A k \in Lifetimes : \A a \in lifetime_actions[k] : a \in lifetime_actions'[k] \/ a \in its
    BY <1>1, <1>3 DEF LifetimeInv, LifetimeTypeOK, AllFrames
  <1>5. \A a \in its : a.of = l /\ GivenTo(a) /\ Somewhere(a)
    BY <1>3, <1>4 DEF LifetimeInv, Identified, Somewhere
  <1> HIDE DEF l
  <1>6. \A u \in LifetimeThreads : /\ \A f \in On(u)' : f \in On(u)
                                   /\ \A f \in On(u) : f.todo # {} \/ f.step # "remove" => f \in On(u)'
    BY <1>1
  <1>7. \A a \in AllActions : Somewhere(a)' <=> Somewhere(a)
    <2>1. \A a \in AllActions : a.of \in Lifetimes
      BY DEF AllActions
    <2>2. \A a : (\E u \in LifetimeThreads : \E f \in On(u)' : a \in f.todo)
                    <=> (\E u \in LifetimeThreads : \E f \in On(u) : a \in f.todo)
      BY <1>6
    <2>3. \A a \in AllActions : (a \in lifetime_actions'[a.of] \/ a \in gone')
                                   <=> (a \in lifetime_actions[a.of] \/ a \in gone)
      BY <1>3, <1>4, <1>5, <2>1 DEF l
    <2> QED BY <1>2, <2>2, <2>3 DEF Somewhere
  <1>8. LifetimeTypeOK'
    BY <1>1, <1>2, <1>3, <1>4 DEF LifetimeInv, LifetimeTypeOK
  <1>9. Identified'
    <2>1. Identified
      BY DEF LifetimeInv
    <2>2. \A a : GivenTo(a)' <=> GivenTo(a)
      BY <1>2 DEF GivenTo
    <2>3. \A k \in Lifetimes : \A a \in lifetime_actions'[k] : a.of = k /\ GivenTo(a)'
      BY <1>4, <2>1, <2>2 DEF Identified
    <2>4. \A u \in LifetimeThreads : \A f \in On(u)' : IdsApart(f.todo) /\ \A a \in f.todo : a.of = f.of /\ GivenTo(a)'
      BY <1>6, <2>1, <2>2 DEF Identified
    <2>5. \A a \in (Ran \cup gone)' : GivenTo(a)'
      BY <1>2, <1>3, <1>5, <2>1, <2>2 DEF Identified
    <2>6. \A k \in Lifetimes : IdsApart(lifetime_actions'[k])
      BY <1>4, <2>1 DEF Identified, IdsApart
    <2> QED BY <2>3, <2>4, <2>5, <2>6 DEF Identified, IdsApart
  <1>10. TakenOnce'
    <2>1. TakenOnce
      BY DEF LifetimeInv
    <2>2. \A k \in Lifetimes : (\E a \in Ran' : a.of = k) => is_terminated'[k] /\ lifetime_actions'[k] = {}
      BY <1>2, <1>4, <2>1 DEF TakenOnce
    <2>3. \A u \in LifetimeThreads : \A f \in On(u)' :
             /\ f.step \in {"take", "run"} => is_terminated'[f.of]
             /\ f.step = "run" => lifetime_actions'[f.of] = {}
      <3>1. \A u \in LifetimeThreads : \A f \in On(u) : f.of \in Lifetimes
        BY Frames DEF LifetimeInv, AllFrames
      <3> QED BY <1>2, <1>4, <1>6, <2>1, <3>1 DEF TakenOnce
    <2>4. \A k \in Lifetimes : is_terminated'[k] /\ lifetime_actions'[k] # {} =>
             \E u \in LifetimeThreads : \E f \in On(u)' : f.of = k /\ f.step = "take"
      BY <1>2, <1>4, <1>6, <2>1 DEF TakenOnce
    <2> QED BY <2>2, <2>3, <2>4 DEF TakenOnce
  <1>11. OneTaker'
    BY <1>6 DEF LifetimeInv, OneTaker
  <1>12. LatestFirst'
    BY <1>2, <1>6 DEF LifetimeInv, LatestFirst, LastFirst
  <1>13. NoneLost'
    BY <1>2, <1>7 DEF LifetimeInv, NoneLost
  <1>14. NestedKnown'
    <2>1. \A u \in LifetimeThreads : On(u)' = {Detaching} => On(u) = {Detaching}
      BY <1>1
    <2> QED BY <1>2, <1>6, <1>7, <2>1 DEF LifetimeInv, NestedKnown
  <1>15. NestedEnds'
    BY <1>2, <1>3, <1>4, <1>6 DEF LifetimeInv, NestedEnds, Lifetimes
  <1> QED BY <1>1, <1>8, <1>9, <1>10, <1>11, <1>12, <1>13, <1>14, <1>15 DEF LifetimeInv

\* terminate: the flag.
LEMMA FlagStep == ASSUME LifetimeInv, NEW t \in LifetimeThreads, Flag(t) PROVE LifetimeInv'
  <1> DEFINE l == Top(t).of
  <1>1. /\ stack[t] # << >> /\ Top(t).step = "flag" /\ Top(t) \in On(t) /\ Top(t) \in AllFrames
        /\ On(t) = Below(t) \cup {Top(t)} /\ Plain(Top(t))
    <2>1. stack[t] # << >> /\ Top(t).step = "flag"
      BY DEF Flag, Running
    <2> QED BY <2>1, Frames, OnThread DEF LifetimeInv, Ends
  <1>2. PICK taking \in AllFrames :
            /\ Becomes(t, taking) /\ taking.step = "take" /\ taking.of = l /\ taking.kind = "none"
            /\ taking.todo = {}
    <2> DEFINE taking == [Top(t) EXCEPT !.step = "take"]
    <2>1. /\ taking \in AllFrames /\ taking.step = "take" /\ taking.of = l /\ taking.kind = Top(t).kind
          /\ taking.todo = Top(t).todo
      BY <1>1 DEF AllFrames
    <2>2. Top(t).kind = "none" /\ Top(t).todo = {}
      BY <1>1 DEF Plain
    <2>3. Becomes(t, taking)
      BY DEF Flag
    <2> QED BY <2>1, <2>2, <2>3
  <1>3. /\ stack' \in [LifetimeThreads -> Seq(AllFrames)] /\ Stacked'
        /\ \A u \in LifetimeThreads : u # t => On(u)' = On(u)
        /\ On(t)' = Below(t) \cup {taking}
    <2>1. Plain(taking)
      BY <1>2 DEF Plain
    <2> QED BY <1>1, <1>2, <2>1, Continued DEF LifetimeInv, Ends
  <1>4. /\ UNCHANGED <<lifetime_actions, action_id_in_map, nesting, lifetime_calls, has_run, gone, unwound, raced>>
        /\ l \in Lifetimes /\ is_terminated' \in [Lifetimes -> BOOLEAN] /\ is_terminated'[l]
        /\ \A k \in Lifetimes : k # l => is_terminated'[k] = is_terminated[k]
    BY <1>1 DEF LifetimeInv, LifetimeTypeOK, Flag, AllFrames
  <1>5. Top(t).todo = {} /\ Top(t).kind = "none"
    BY <1>1 DEF Plain
  <1> HIDE DEF l
  <1>6. \A u \in LifetimeThreads : /\ \A f \in On(u)' : f = taking \/ f \in On(u)
                                   /\ \A f \in On(u) : f.step # "flag" => f \in On(u)'
    BY <1>1, <1>3
  <1>7. /\ Identified' /\ OneTaker' /\ LatestFirst' /\ Ran' = Ran /\ NoneLost'
        /\ \A a \in AllActions : Somewhere(a)' <=> Somewhere(a)
    <2>1. \A u \in LifetimeThreads : \A f \in On(u)' : f.todo # {} => f \in On(u)
      BY <1>2, <1>6
    <2>2. \A u \in LifetimeThreads : \A f \in On(u) : f.todo # {} => f \in On(u)'
      BY <1>1, <1>3, <1>5
    <2> QED BY <1>4, <2>1, <2>2, FramesOnly
  <1>8. LifetimeTypeOK'
    BY <1>3, <1>4 DEF LifetimeInv, LifetimeTypeOK
  <1>9. TakenOnce'
    <2>1. TakenOnce
      BY DEF LifetimeInv
    <2>2. \A k \in Lifetimes : is_terminated[k] => is_terminated'[k]
      BY <1>4
    <2>3. \A k \in Lifetimes : (\E a \in Ran' : a.of = k) => is_terminated'[k] /\ lifetime_actions'[k] = {}
      BY <1>4, <1>7, <2>1, <2>2 DEF TakenOnce
    <2>4. \A u \in LifetimeThreads : \A f \in On(u)' :
             /\ f.step \in {"take", "run"} => is_terminated'[f.of]
             /\ f.step = "run" => lifetime_actions'[f.of] = {}
      <3>1. \A u \in LifetimeThreads : \A f \in On(u) : f.of \in Lifetimes
        BY Frames DEF LifetimeInv, AllFrames
      <3> QED BY <1>2, <1>4, <1>6, <2>1, <2>2, <3>1 DEF TakenOnce
    <2>5. \A k \in Lifetimes : is_terminated'[k] /\ lifetime_actions'[k] # {} =>
             \E u \in LifetimeThreads : \E f \in On(u)' : f.of = k /\ f.step = "take"
      <3>1. taking \in On(t)'
        BY <1>3
      <3> QED BY <1>2, <1>4, <1>6, <2>1, <3>1 DEF TakenOnce
    <2> QED BY <2>3, <2>4, <2>5 DEF TakenOnce
  <1>10. NestedKnown'
    <2>1. \A u \in LifetimeThreads : \A f \in On(u)' : f.kind \in {"nested", "detach"} => f \in On(u)
      BY <1>2, <1>6
    <2>2. \A u \in LifetimeThreads : On(u)' = {Detaching} => On(u) = {Detaching}
      <3>1. Detaching.step = "add"
        BY DEF Detaching, Frame
      <3>2. On(t)' # {Detaching}
        BY <1>2, <1>3, <3>1
      <3> QED BY <1>3, <3>2
    <2> QED BY <1>4, <1>7, <2>1, <2>2 DEF LifetimeInv, NestedKnown
  <1>11. NestedEnds'
    <2>1. NestedEnds
      BY DEF LifetimeInv
    <2>2. \A a \in Ran' : a.kind = "nested" =>
             \/ is_terminated'["nested"]
             \/ \E u \in LifetimeThreads : \E f, g \in On(u)' :
                   f.of = "parent" /\ f.step = "run" /\ g.of = "nested" /\ g.step = "flag"
      <3> SUFFICES ASSUME NEW a \in Ran, a.kind = "nested", ~is_terminated'["nested"]
                   PROVE  \E u \in LifetimeThreads : \E f, g \in On(u)' :
                             f.of = "parent" /\ f.step = "run" /\ g.of = "nested" /\ g.step = "flag"
        BY <1>7
      <3>1. l # "nested" /\ ~is_terminated["nested"]
        BY <1>4 DEF Lifetimes
      <3>2. PICK u \in LifetimeThreads : \E f, g \in On(u) :
                f.of = "parent" /\ f.step = "run" /\ g.of = "nested" /\ g.step = "flag"
        BY <2>1, <3>1 DEF NestedEnds
      <3>3. \A g \in On(u) : g.of = "nested" => g \in On(u)'
        BY <1>1, <1>3, <3>1 DEF l
      <3> QED BY <1>6, <3>2, <3>3
    <2>3. is_terminated["nested"] => is_terminated'["nested"]
      BY <1>4 DEF Lifetimes
    <2> QED BY <1>4, <1>7, <2>1, <2>2, <2>3 DEF NestedEnds
  <1> QED BY <1>3, <1>7, <1>8, <1>9, <1>10, <1>11 DEF LifetimeInv

\* terminate: the map is taken.
LEMMA TakeActionsStep == ASSUME LifetimeInv, NEW t \in LifetimeThreads, TakeActions(t) PROVE LifetimeInv'
  <1> DEFINE l == Top(t).of
             taken == lifetime_actions[l]
  <1>1. /\ stack[t] # << >> /\ Top(t).step = "take" /\ Top(t) \in On(t) /\ Top(t) \in AllFrames
        /\ On(t) = Below(t) \cup {Top(t)} /\ Plain(Top(t)) /\ Top(t).todo = {}
    <2>1. stack[t] # << >> /\ Top(t).step = "take"
      BY DEF TakeActions, Running
    <2> QED BY <2>1, Frames, OnThread DEF LifetimeInv, Ends, Plain
  <1>2. /\ l \in Lifetimes /\ taken \subseteq AllActions
        /\ lifetime_actions' \in [Lifetimes -> SUBSET AllActions] /\ lifetime_actions'[l] = {}
        /\ \A k \in Lifetimes : k # l => lifetime_actions'[k] = lifetime_actions[k]
    BY <1>1 DEF LifetimeInv, LifetimeTypeOK, TakeActions, AllFrames
  <1>3. PICK running \in AllFrames :
            /\ Becomes(t, running) /\ running.step = "run" /\ running.of = l /\ running.kind = "none"
            /\ running.todo = taken
    <2> DEFINE running == [Top(t) EXCEPT !.step = "run", !.todo = taken]
    <2>1. /\ running \in AllFrames /\ running.step = "run" /\ running.of = l /\ running.kind = Top(t).kind
          /\ running.todo = taken
      BY <1>1, <1>2 DEF AllFrames
    <2>2. Top(t).kind = "none"
      BY <1>1 DEF Plain
    <2>3. Becomes(t, running)
      BY DEF TakeActions
    <2> QED BY <2>1, <2>2, <2>3
  <1>4. /\ stack' \in [LifetimeThreads -> Seq(AllFrames)] /\ Stacked'
        /\ \A u \in LifetimeThreads : u # t => On(u)' = On(u)
        /\ On(t)' = Below(t) \cup {running}
    <2>1. Plain(running)
      BY <1>3 DEF Plain
    <2> QED BY <1>1, <1>3, <2>1, Continued DEF LifetimeInv, Ends
  <1>5. UNCHANGED <<is_terminated, action_id_in_map, nesting, lifetime_calls, has_run, gone, unwound, raced>>
        /\ Ran' = Ran
    BY DEF TakeActions, Ran
  <1>6. \A u \in LifetimeThreads :
            /\ \A f \in On(u)' : f = running \/ f \in On(u)
            /\ \A f \in On(u) : f.step # "take" \/ f.todo # {} \/ f.of # l => f \in On(u)'
    BY <1>1, <1>4
  <1>7. /\ is_terminated[l] /\ \A a \in Ran : taken # {} => a.of # l
        /\ \A u \in LifetimeThreads : \A f \in On(u) : f.of = l /\ f.step = "run" => taken = {}
    BY <1>1, <1>2 DEF LifetimeInv, TakenOnce
  <1>8. \A a \in taken : a.of = l /\ GivenTo(a)
    BY <1>2 DEF LifetimeInv, Identified
  <1> HIDE DEF l, taken
  <1>9. running \in On(t)' /\ lifetime_actions[l] = taken
    BY <1>4 DEF taken
  <1>10. \A a \in AllActions : Somewhere(a)' <=> Somewhere(a)
    <2> SUFFICES ASSUME NEW a \in AllActions PROVE Somewhere(a)' <=> Somewhere(a)
      OBVIOUS
    <2>1. a.of \in Lifetimes
      BY DEF AllActions
    <2>2. (\E u \in LifetimeThreads : \E f \in On(u)' : a \in f.todo)
                    <=> (\E u \in LifetimeThreads : \E f \in On(u) : a \in f.todo) \/ a \in taken
      BY <1>3, <1>6, <1>9
    <2>3. a \in lifetime_actions[a.of] <=> a \in lifetime_actions'[a.of] \/ a \in taken
      BY <1>2, <1>8, <1>9, <2>1
    <2> QED BY <1>5, <2>2, <2>3 DEF Somewhere
  <1>11. LifetimeTypeOK'
    BY <1>2, <1>4, <1>5 DEF LifetimeInv, LifetimeTypeOK
  <1>12. Identified'
    <2>1. Identified
      BY DEF LifetimeInv
    <2>2. \A a : GivenTo(a)' <=> GivenTo(a)
      BY <1>5 DEF GivenTo
    <2>3. \A k \in Lifetimes : IdsApart(lifetime_actions'[k]) /\ \A a \in lifetime_actions'[k] : a.of = k /\ GivenTo(a)'
      <3>1. IdsApart({})
        BY DEF IdsApart
      <3> QED BY <1>2, <2>1, <2>2, <3>1 DEF Identified
    <2>4. IdsApart(taken)
      BY <1>2, <1>9, <2>1 DEF Identified
    <2>5. \A u \in LifetimeThreads : \A f \in On(u)' : IdsApart(f.todo) /\ \A a \in f.todo : a.of = f.of /\ GivenTo(a)'
      <3> SUFFICES ASSUME NEW u \in LifetimeThreads, NEW f \in On(u)'
                   PROVE  IdsApart(f.todo) /\ \A a \in f.todo : a.of = f.of /\ GivenTo(a)'
        OBVIOUS
      <3>1. CASE f = running
        BY <1>3, <1>8, <2>2, <2>4, <3>1
      <3>2. CASE f \in On(u)
        BY <2>1, <2>2, <3>2 DEF Identified
      <3> QED BY <1>6, <3>1, <3>2
    <2>6. \A a \in (Ran \cup gone)' : GivenTo(a)'
      BY <1>5, <2>1, <2>2 DEF Identified
    <2> QED BY <2>3, <2>5, <2>6 DEF Identified, IdsApart
  <1>13. TakenOnce'
    <2>1. TakenOnce
      BY DEF LifetimeInv
    <2>2. \A k \in Lifetimes : (\E a \in Ran' : a.of = k) => is_terminated'[k] /\ lifetime_actions'[k] = {}
      BY <1>2, <1>5, <2>1 DEF TakenOnce
    <2>3. \A u \in LifetimeThreads : \A f \in On(u)' :
             /\ f.step \in {"take", "run"} => is_terminated'[f.of]
             /\ f.step = "run" => lifetime_actions'[f.of] = {}
      <3>1. \A u \in LifetimeThreads : \A f \in On(u) : f.of \in Lifetimes
        BY Frames DEF LifetimeInv, AllFrames
      <3> QED BY <1>2, <1>3, <1>5, <1>6, <1>7, <2>1, <3>1 DEF TakenOnce
    <2>4. \A k \in Lifetimes : is_terminated'[k] /\ lifetime_actions'[k] # {} =>
             \E u \in LifetimeThreads : \E f \in On(u)' : f.of = k /\ f.step = "take"
      BY <1>2, <1>5, <1>6, <2>1 DEF TakenOnce
    <2> QED BY <2>2, <2>3, <2>4 DEF TakenOnce
  <1>14. OneTaker'
    <2> SUFFICES ASSUME NEW u \in LifetimeThreads, NEW w \in LifetimeThreads,
                        NEW f \in On(u)', NEW g \in On(w)', f.of = g.of, f.todo # {}, g.todo # {}
                 PROVE  u = w
      BY DEF OneTaker
    <2>1. \A v \in LifetimeThreads : \A h \in On(v) : h.todo # {} => h.step = "run"
      <3> SUFFICES ASSUME NEW v \in LifetimeThreads, NEW h \in On(v), h.todo # {} PROVE h.step = "run"
        OBVIOUS
      <3>1. stack[v] # << >>
        BY Frames DEF LifetimeInv
      <3> QED BY <3>1, OnThread DEF LifetimeInv
    <2>2. \A v \in LifetimeThreads : running \in On(v) => v = t \/ taken = {}
      BY <1>3, <1>7
    <2>3. CASE f \in On(u) /\ g \in On(w)
      BY <2>3 DEF LifetimeInv, OneTaker
    <2>4. CASE f = running /\ u = t
      <3>1. g \in On(w) /\ g # running => taken = {}
        BY <1>3, <1>7, <2>1, <2>4
      <3> QED BY <1>3, <1>4, <2>2, <2>4, <3>1
    <2>5. CASE g = running /\ w = t
      <3>1. f \in On(u) /\ f # running => taken = {}
        BY <1>3, <1>7, <2>1, <2>5
      <3> QED BY <1>3, <1>4, <2>2, <2>5, <3>1
    <2>6. (f \in On(u) \/ (f = running /\ u = t)) /\ (g \in On(w) \/ (g = running /\ w = t))
      BY <1>1, <1>4
    <2> QED BY <2>3, <2>4, <2>5, <2>6
  <1>15. LatestFirst'
    <2>1. LatestFirst
      BY DEF LifetimeInv
    <2>2. \A u \in LifetimeThreads : \A f \in On(u)' : \A a \in f.todo : \A b \in Ran' : b.of = a.of => a.id < b.id
      BY <1>3, <1>5, <1>6, <1>7, <1>8, <2>1 DEF LatestFirst
    <2> QED BY <1>5, <2>1, <2>2 DEF LatestFirst, LastFirst
  <1>16. NoneLost'
    BY <1>5, <1>10 DEF LifetimeInv, NoneLost
  <1>17. NestedKnown'
    <2>1. \A u \in LifetimeThreads : \A f \in On(u)' : f.kind \in {"nested", "detach"} => f \in On(u)
      BY <1>3, <1>6
    <2>2. \A u \in LifetimeThreads : On(u)' = {Detaching} => On(u) = {Detaching}
      <3>1. Detaching.step = "add"
        BY DEF Detaching, Frame
      <3>2. On(t)' # {Detaching}
        BY <1>3, <1>9, <3>1
      <3> QED BY <1>4, <3>2
    <2> QED BY <1>5, <1>10, <2>1, <2>2 DEF LifetimeInv, NestedKnown
  <1>18. NestedEnds'
    <2>1. NestedEnds
      BY DEF LifetimeInv
    <2>2. \A u \in LifetimeThreads : \A f, g \in On(u) :
             f.step = "run" /\ g.step = "flag" => f \in On(u)' /\ g \in On(u)'
      BY <1>6
    <2>3. lifetime_actions'["parent"] \subseteq lifetime_actions["parent"]
      BY <1>2 DEF Lifetimes
    <2> QED BY <1>5, <2>1, <2>2, <2>3 DEF NestedEnds
  <1> QED BY <1>4, <1>11, <1>12, <1>13, <1>14, <1>15, <1>16, <1>17, <1>18 DEF LifetimeInv

\* terminate returns.
LEMMA TerminatedStep == ASSUME LifetimeInv, NEW t \in LifetimeThreads, Terminated(t) PROVE LifetimeInv'
  <1>1. /\ stack[t] # << >> /\ Top(t).step = "run" /\ Top(t).todo = {} /\ Top(t) \in On(t)
        /\ On(t) = Below(t) \cup {Top(t)}
        /\ \A f \in Below(t) : f.step = "run"
    <2>1. stack[t] # << >> /\ Top(t).step = "run" /\ Top(t).todo = {}
      BY DEF Terminated, Running
    <2> QED BY <2>1, Frames, OnThread DEF LifetimeInv, Ends
  <1>2. /\ stack' \in [LifetimeThreads -> Seq(AllFrames)] /\ Stacked'
        /\ \A u \in LifetimeThreads : u # t => On(u)' = On(u)
        /\ On(t)' = Below(t)
    BY <1>1, Returned DEF LifetimeInv, Terminated
  <1>3. UNCHANGED <<is_terminated, lifetime_actions, action_id_in_map, nesting, lifetime_calls, has_run, gone,
                    unwound, raced>>
    BY DEF Terminated
  <1>4. \A u \in LifetimeThreads : /\ \A f \in On(u)' : f \in On(u)
                                   /\ \A f \in On(u) : f.step # "run" \/ f.todo # {} => f \in On(u)'
    BY <1>1, <1>2
  <1>5. /\ Identified' /\ OneTaker' /\ LatestFirst' /\ Ran' = Ran /\ NoneLost'
        /\ \A a \in AllActions : Somewhere(a)' <=> Somewhere(a)
    BY <1>3, <1>4, FramesOnly
  <1>6. LifetimeTypeOK'
    BY <1>2, <1>3 DEF LifetimeInv, LifetimeTypeOK
  <1>7. TakenOnce'
    BY <1>3, <1>4, <1>5 DEF LifetimeInv, TakenOnce
  <1>8. NestedKnown'
    <2>1. \A u \in LifetimeThreads : On(u)' = {Detaching} => On(u) = {Detaching}
      <3>1. Detaching.step = "add"
        BY DEF Detaching, Frame
      <3>2. On(t)' # {Detaching}
        BY <1>1, <1>2, <3>1
      <3> QED BY <1>2, <3>2
    <2> QED BY <1>3, <1>4, <1>5, <2>1 DEF LifetimeInv, NestedKnown
  <1>9. NestedEnds'
    <2>1. \A u \in LifetimeThreads : \A f, g \in On(u) :
             f.step = "run" /\ g.step = "flag" => f \in On(u)' /\ g \in On(u)'
      BY <1>1, <1>2
    <2> QED BY <1>3, <1>5, <2>1 DEF LifetimeInv, NestedEnds
  <1> QED BY <1>2, <1>5, <1>6, <1>7, <1>8, <1>9 DEF LifetimeInv

\* An action is run: it leaves its frame, which goes on or ends with an exception.
RunsAction(t) ==
    /\ stack[t] # << >> /\ Top(t).step = "run" /\ Top(t).todo # {}
    /\ has_run' = Append(has_run, Latest(t))
    /\ UNCHANGED <<is_terminated, action_id_in_map, nesting>>
    /\ \A u \in LifetimeThreads : u # t => On(u)' = On(u)
    /\ \A f \in On(t)' : \/ f \in Below(t) \/ f = Rest(t)
                         \/ f.step = "flag" /\ f.kind = "none" /\ f.todo = {}
    /\ \A l \in Lifetimes : lifetime_actions'[l] \subseteq lifetime_actions[l]
    /\ gone' \subseteq gone \cup lifetime_actions["parent"]
    /\ ~unwound' =>
          /\ ~unwound /\ Below(t) \subseteq On(t)' /\ Rest(t) \in On(t)' /\ gone \subseteq gone'
          /\ \A l \in Lifetimes : \A a \in lifetime_actions[l] : a \in lifetime_actions'[l] \cup gone'

\* The frame before and behind an action.
LEMMA RestOf ==
    ASSUME LifetimeInv, NEW t \in LifetimeThreads, stack[t] # << >>, Top(t).step = "run", Top(t).todo # {}
    PROVE  /\ Rest(t) \in AllFrames /\ Rest(t).step = "run" /\ Rest(t).of = Top(t).of
           /\ Rest(t).kind = "none" /\ Rest(t).todo = Top(t).todo \ {Latest(t)} /\ Plain(Rest(t))
           /\ Top(t) \in On(t) /\ Top(t) \in AllFrames /\ On(t) = Below(t) \cup {Top(t)}
           /\ Latest(t) \in Top(t).todo /\ Latest(t) \in AllActions
           /\ Latest(t).of = Top(t).of /\ GivenTo(Latest(t)) /\ Somewhere(Latest(t))
           /\ \A b \in Top(t).todo : b # Latest(t) => b.id < Latest(t).id
           /\ \A f \in Below(t) : f.of # Top(t).of /\ f.step = "run"
           /\ Top(t).of = "parent" => Below(t) = {}
           /\ is_terminated[Top(t).of] /\ lifetime_actions[Top(t).of] = {}
  <1>1. Top(t) \in On(t) /\ Top(t) \in AllFrames /\ On(t) = Below(t) \cup {Top(t)}
    BY Frames DEF LifetimeInv
  <1>2. /\ Latest(t) \in Top(t).todo /\ Latest(t) \in AllActions
        /\ Latest(t).of = Top(t).of /\ GivenTo(Latest(t))
        /\ \A b \in Top(t).todo : b # Latest(t) => b.id < Latest(t).id
    BY LatestIsLast DEF LifetimeInv
  <1>3. Plain(Top(t)) /\ Top(t).kind = "none"
    BY OnThread DEF LifetimeInv, Ends, Plain
  <1>4. (\A f \in Below(t) : f.of # Top(t).of /\ f.step = "run") /\ (Top(t).of = "parent" => Below(t) = {})
    BY OnThread DEF LifetimeInv, Ends
  <1>5. /\ Rest(t) \in AllFrames /\ Rest(t).step = "run" /\ Rest(t).of = Top(t).of
        /\ Rest(t).kind = "none" /\ Rest(t).todo = Top(t).todo \ {Latest(t)}
    BY <1>1, <1>3 DEF Rest, AllFrames
  <1>6. Plain(Rest(t))
    BY <1>5 DEF Plain
  <1>7. is_terminated[Top(t).of] /\ lifetime_actions[Top(t).of] = {}
    BY <1>1 DEF LifetimeInv, TakenOnce
  <1>8. Somewhere(Latest(t))
    BY <1>1, <1>2 DEF Somewhere
  <1> QED BY <1>1, <1>2, <1>3, <1>4, <1>5, <1>6, <1>7, <1>8

\* One more has run.
LEMMA RanNow ==
    ASSUME LifetimeTypeOK, NEW a \in AllActions, has_run' = Append(has_run, a)
    PROVE  /\ has_run' \in Seq(AllActions) /\ Ran' = Ran \cup {a} /\ Ran \subseteq AllActions
           /\ Len(has_run') = Len(has_run) + 1 /\ has_run'[Len(has_run) + 1] = a
           /\ \A j \in 1 .. Len(has_run) : has_run'[j] = has_run[j]
  <1>1. has_run \in Seq(AllActions) /\ Len(has_run) \in Nat
    BY DEF LifetimeTypeOK
  <1>2. /\ has_run' \in Seq(AllActions) /\ Len(has_run') = Len(has_run) + 1
        /\ has_run'[Len(has_run) + 1] = a
        /\ \A j \in 1 .. Len(has_run) : has_run'[j] = has_run[j]
    BY <1>1, AppendProperties
  <1>3. \A j \in 1 .. Len(has_run) + 1 : j \in 1 .. Len(has_run) \/ j = Len(has_run) + 1
    BY <1>1
  <1>4. Len(has_run) + 1 \in 1 .. Len(has_run) + 1 /\ 1 .. Len(has_run) \subseteq 1 .. Len(has_run) + 1
    BY <1>1
  <1>5. Ran' = {has_run'[j] : j \in 1 .. Len(has_run) + 1}
    BY <1>2 DEF Ran
  <1>6. Ran' \subseteq Ran \cup {a}
    BY <1>2, <1>3, <1>5 DEF Ran
  <1>7. Ran \cup {a} \subseteq Ran'
    BY <1>2, <1>4, <1>5 DEF Ran
  <1>8. Ran \subseteq AllActions
    BY <1>1, ElementOfSeq DEF Ran
  <1> QED BY <1>2, <1>6, <1>7, <1>8

\* What every action's run keeps, whatever the action does.
LEMMA LatestRuns ==
    ASSUME LifetimeInv, NEW t \in LifetimeThreads, RunsAction(t)
    PROVE  /\ has_run' \in Seq(AllActions) /\ Ran' = Ran \cup {Latest(t)}
           /\ Identified' /\ TakenOnce' /\ OneTaker' /\ LatestFirst' /\ NoneLost' /\ NestedKnown'
  <1> DEFINE top == Top(t)
             now == Latest(t)
             left == Rest(t)
  <1>1. /\ left.step = "run" /\ left.of = top.of /\ left.kind = "none" /\ left.todo = top.todo \ {now}
        /\ top \in On(t) /\ On(t) = Below(t) \cup {top} /\ top.step = "run"
        /\ now \in top.todo /\ now \in AllActions /\ now.of = top.of /\ GivenTo(now) /\ Somewhere(now)
        /\ \A b \in top.todo : b # now => b.id < now.id
        /\ \A f \in Below(t) : f.of # top.of /\ f.step = "run"
        /\ is_terminated[top.of] /\ lifetime_actions[top.of] = {}
        /\ top.of \in Lifetimes
    BY RestOf DEF RunsAction, AllFrames
  <1>2. /\ has_run' \in Seq(AllActions) /\ Ran' = Ran \cup {now} /\ Ran \subseteq AllActions
        /\ Len(has_run) \in Nat /\ Len(has_run') = Len(has_run) + 1 /\ has_run'[Len(has_run) + 1] = now
        /\ \A j \in 1 .. Len(has_run) : has_run'[j] = has_run[j]
    BY <1>1, RanNow DEF RunsAction, LifetimeInv, LifetimeTypeOK
  <1>3. /\ UNCHANGED <<is_terminated, action_id_in_map, nesting>>
        /\ \A u \in LifetimeThreads : u # t => On(u)' = On(u)
        /\ \A f \in On(t)' : \/ f \in Below(t) \/ f = left
                             \/ f.step = "flag" /\ f.kind = "none" /\ f.todo = {}
        /\ \A l \in Lifetimes : lifetime_actions'[l] \subseteq lifetime_actions[l]
        /\ gone' \subseteq gone \cup lifetime_actions["parent"]
    BY DEF RunsAction
  <1>4. ~unwound' =>
          /\ ~unwound /\ Below(t) \subseteq On(t)' /\ left \in On(t)' /\ gone \subseteq gone'
          /\ \A l \in Lifetimes : \A a \in lifetime_actions[l] : a \in lifetime_actions'[l] \cup gone'
    BY DEF RunsAction
  <1> HIDE DEF top, now, left
  <1>5. \A u \in LifetimeThreads : \A f \in On(u)' :
            \/ f \in On(u) /\ (u = t => f \in Below(t))
            \/ u = t /\ f = left
            \/ f.step = "flag" /\ f.kind = "none" /\ f.todo = {}
    BY <1>1, <1>3
  <1>6. \A u \in LifetimeThreads : \A f \in On(u) : f.step = "take" => f \in On(u)'
    BY <1>1, <1>3
  <1>7. Identified'
    <2>1. Identified
      BY DEF LifetimeInv
    <2>2. \A a : GivenTo(a)' <=> GivenTo(a)
      BY <1>3 DEF GivenTo
    <2>3. \A k \in Lifetimes : IdsApart(lifetime_actions'[k]) /\ \A a \in lifetime_actions'[k] : a.of = k /\ GivenTo(a)'
      BY <1>3, <2>1, <2>2 DEF Identified, IdsApart
    <2>4. \A u \in LifetimeThreads : \A f \in On(u)' : IdsApart(f.todo) /\ \A a \in f.todo : a.of = f.of /\ GivenTo(a)'
      <3> SUFFICES ASSUME NEW u \in LifetimeThreads, NEW f \in On(u)'
                   PROVE  IdsApart(f.todo) /\ \A a \in f.todo : a.of = f.of /\ GivenTo(a)'
        OBVIOUS
      <3>1. CASE f = left
        <4>1. IdsApart(top.todo) /\ \A a \in top.todo : a.of = top.of /\ GivenTo(a)
          BY <1>1, <2>1 DEF Identified
        <4> QED BY <1>1, <2>2, <3>1, <4>1 DEF IdsApart
      <3>2. CASE f \in On(u)
        BY <2>1, <2>2, <3>2 DEF Identified
      <3>3. CASE f.todo = {}
        BY <3>3 DEF IdsApart
      <3> QED BY <1>5, <3>1, <3>2, <3>3
    <2>5. \A a \in lifetime_actions["parent"] : GivenTo(a)
      BY <2>1 DEF Identified, Lifetimes
    <2>6. \A a \in (Ran \cup gone)' : GivenTo(a)'
      BY <1>1, <1>2, <1>3, <2>1, <2>2, <2>5 DEF Identified
    <2> QED BY <2>3, <2>4, <2>6 DEF Identified, IdsApart
  <1>8. TakenOnce'
    <2>1. TakenOnce
      BY DEF LifetimeInv
    <2>2. \A k \in Lifetimes : (\E a \in Ran' : a.of = k) => is_terminated'[k] /\ lifetime_actions'[k] = {}
      BY <1>1, <1>2, <1>3, <2>1 DEF TakenOnce
    <2>3. \A u \in LifetimeThreads : \A f \in On(u)' :
             /\ f.step \in {"take", "run"} => is_terminated'[f.of]
             /\ f.step = "run" => lifetime_actions'[f.of] = {}
      <3>1. \A u \in LifetimeThreads : \A f \in On(u) : f.of \in Lifetimes
        BY Frames DEF LifetimeInv, AllFrames
      <3> QED BY <1>1, <1>3, <1>5, <2>1, <3>1 DEF TakenOnce
    <2>4. \A k \in Lifetimes : is_terminated'[k] /\ lifetime_actions'[k] # {} =>
             \E u \in LifetimeThreads : \E f \in On(u)' : f.of = k /\ f.step = "take"
      BY <1>3, <1>6, <2>1 DEF TakenOnce
    <2> QED BY <2>2, <2>3, <2>4 DEF TakenOnce
  <1>9. OneTaker'
    <2>1. \A u \in LifetimeThreads : \A f \in On(u)' : f.todo # {} =>
              \E g \in On(u) : g.of = f.of /\ g.todo # {}
      BY <1>1, <1>5
    <2> QED BY <2>1 DEF LifetimeInv, OneTaker
  <1>10. LatestFirst'
    <2>1. LatestFirst /\ Identified /\ OneTaker
      BY DEF LifetimeInv
    <2>2. LastFirst'
      <3> SUFFICES ASSUME NEW j \in DOMAIN has_run', NEW i \in 1 .. j - 1, has_run'[i].of = has_run'[j].of
                   PROVE  has_run'[i].id > has_run'[j].id
        BY DEF LastFirst
      <3>1. j \in 1 .. Len(has_run) + 1 /\ i \in 1 .. Len(has_run)
        BY <1>2
      <3>2. CASE j = Len(has_run) + 1
        <4>1. has_run[i] \in Ran /\ has_run'[i] = has_run[i] /\ has_run'[j] = now
          BY <1>2, <3>1, <3>2 DEF Ran
        <4>2. now.id < has_run[i].id
          BY <1>1, <2>1, <4>1 DEF LatestFirst
        <4>3. now.id \in Nat /\ has_run[i].id \in Nat
          BY <1>1, <1>2, <4>1 DEF AllActions
        <4> QED BY <4>1, <4>2, <4>3
      <3>3. CASE j # Len(has_run) + 1
        <4>1. j \in 1 .. Len(has_run)
          <5>1. Len(has_run) \in Nat
            BY <1>2
          <5> QED BY <3>1, <3>3, <5>1
        <4>2. DOMAIN has_run = 1 .. Len(has_run)
          BY DEF LifetimeInv, LifetimeTypeOK
        <4> QED BY <1>2, <2>1, <3>1, <4>1, <4>2 DEF LatestFirst, LastFirst
      <3> QED BY <3>2, <3>3
    <2>3. \A u \in LifetimeThreads : \A f \in On(u)' : \A a \in f.todo : \A b \in Ran' :
              b.of = a.of => a.id < b.id
      <3> SUFFICES ASSUME NEW u \in LifetimeThreads, NEW f \in On(u)', NEW a \in f.todo,
                          NEW b \in Ran', b.of = a.of
                   PROVE  a.id < b.id
        OBVIOUS
      <3>1. CASE u = t /\ f = left
        BY <1>1, <1>2, <2>1, <3>1 DEF LatestFirst
      <3>2. CASE f \in On(u) /\ (u = t => f \in Below(t))
        <4>1. a.of = f.of
          BY <2>1, <3>2 DEF Identified
        <4>2. f.of = top.of => u = t
          BY <1>1, <2>1, <3>2 DEF OneTaker
        <4>3. f.of # top.of
          BY <1>1, <3>2, <4>2
        <4> QED BY <1>1, <1>2, <2>1, <3>2, <4>1, <4>3 DEF LatestFirst
      <3> QED BY <1>5, <3>1, <3>2
    <2> QED BY <2>2, <2>3 DEF LatestFirst
  <1>11. \A a \in AllActions : Somewhere(a)' => Somewhere(a)
    <2> SUFFICES ASSUME NEW a \in AllActions, Somewhere(a)' PROVE Somewhere(a)
      OBVIOUS
    <2>1. a.of \in Lifetimes
      BY DEF AllActions
    <2>2. CASE a \in lifetime_actions'[a.of]
      BY <1>3, <2>1, <2>2 DEF Somewhere
    <2>3. CASE \E u \in LifetimeThreads : \E f \in On(u)' : a \in f.todo
      BY <1>1, <1>5, <2>3 DEF Somewhere
    <2>4. CASE a \in Ran'
      BY <1>1, <1>2, <2>4 DEF Somewhere
    <2>5. CASE a \in gone'
      <3>1. a \in lifetime_actions["parent"] => a.of = "parent"
        BY DEF LifetimeInv, Identified, Lifetimes
      <3> QED BY <1>3, <2>5, <3>1 DEF Somewhere
    <2> QED BY <2>2, <2>3, <2>4, <2>5 DEF Somewhere
  <1>12. ~unwound' => \A a \in AllActions : Somewhere(a) => Somewhere(a)'
    <2> SUFFICES ASSUME ~unwound', NEW a \in AllActions, Somewhere(a) PROVE Somewhere(a)'
      OBVIOUS
    <2>1. a.of \in Lifetimes
      BY DEF AllActions
    <2>2. CASE a \in lifetime_actions[a.of]
      BY <1>4, <2>1, <2>2 DEF Somewhere
    <2>3. CASE \E u \in LifetimeThreads : \E f \in On(u) : a \in f.todo
      <3>0. PICK u \in LifetimeThreads : \E f \in On(u) : a \in f.todo
        BY <2>3
      <3>1. PICK f \in On(u) : a \in f.todo
        BY <3>0
      <3>2. CASE u # t
        BY <1>3, <3>1, <3>2 DEF Somewhere
      <3>3. CASE u = t /\ f \in Below(t)
        BY <1>4, <3>1, <3>3 DEF Somewhere
      <3>4. CASE u = t /\ f = top
        BY <1>1, <1>2, <1>4, <3>1, <3>4 DEF Somewhere
      <3> QED BY <1>1, <3>2, <3>3, <3>4
    <2>4. CASE a \in Ran
      BY <1>2, <2>4 DEF Somewhere
    <2>5. CASE a \in gone
      BY <1>4, <2>5 DEF Somewhere
    <2> QED BY <2>2, <2>3, <2>4, <2>5 DEF Somewhere
  <1>13. NoneLost'
    BY <1>3, <1>4, <1>12 DEF LifetimeInv, NoneLost
  <1>14. NestedKnown'
    <2>1. \A u \in LifetimeThreads : \A f \in On(u)' : f.kind \in {"nested", "detach"} => f \in On(u)
      BY <1>1, <1>5
    <2>2. \A u \in LifetimeThreads : On(u)' = {Detaching} => On(u) = {Detaching}
      <3>1. Detaching.step = "add"
        BY DEF Detaching, Frame
      <3>2. On(t)' # {Detaching}
        BY <1>1, <1>3, <3>1
      <3> QED BY <1>3, <3>2
    <2>3. NestedKnown
      BY DEF LifetimeInv
    <2> QED BY <1>3, <1>4, <1>11, <1>12, <2>1, <2>2, <2>3 DEF NestedKnown
  <1> QED BY <1>2, <1>7, <1>8, <1>9, <1>10, <1>13, <1>14 DEF now

\* An action from outside, which may throw.
LEMMA RunUserStep == ASSUME LifetimeInv, NEW t \in LifetimeThreads, RunUser(t) PROVE LifetimeInv'
  <1>1. /\ stack[t] # << >> /\ Top(t).step = "run" /\ Top(t).todo # {} /\ Latest(t).kind = "user"
        /\ has_run' = Append(has_run, Latest(t))
        /\ UNCHANGED <<is_terminated, lifetime_actions, action_id_in_map, nesting, lifetime_calls, gone, raced>>
    BY DEF RunUser, HasNext, Running
  <1>2. /\ Rest(t) \in AllFrames /\ Rest(t).step = "run" /\ Rest(t).of = Top(t).of /\ Plain(Rest(t))
        /\ On(t) = Below(t) \cup {Top(t)} /\ \A f \in Below(t) : f.step = "run"
        /\ Top(t).of = "parent" => Below(t) = {}
    <2>1. Top(t).of = "parent" => Below(t) = {}
      BY <1>1, RestOf
    <2> QED BY <1>1, <2>1, RestOf
  <1>3. /\ stack' \in [LifetimeThreads -> Seq(AllFrames)] /\ Stacked'
        /\ \A u \in LifetimeThreads : u # t => On(u)' = On(u)
        /\ \/ On(t)' = Below(t) \cup {Rest(t)} /\ unwound' = unwound
           \/ On(t)' = {} /\ unwound' = TRUE
    <2>1. CASE Becomes(t, Rest(t)) /\ UNCHANGED unwound
      BY <1>1, <1>2, <2>1, Continued DEF LifetimeInv, Ends
    <2>2. CASE Throw(t) /\ unwound' = TRUE
      BY <2>2, Thrown DEF LifetimeInv
    <2> QED BY <2>1, <2>2 DEF RunUser
  <1>4. RunsAction(t)
    BY <1>1, <1>3 DEF RunsAction
  <1>5. /\ has_run' \in Seq(AllActions) /\ Ran' = Ran \cup {Latest(t)}
        /\ Identified' /\ TakenOnce' /\ OneTaker' /\ LatestFirst' /\ NoneLost' /\ NestedKnown'
    BY <1>4, LatestRuns
  <1>6. LifetimeTypeOK'
    BY <1>1, <1>3, <1>5 DEF LifetimeInv, LifetimeTypeOK
  <1>7. NestedEnds'
    <2>1. NestedEnds
      BY DEF LifetimeInv
    <2>2. \A u \in LifetimeThreads : \A f, g \in On(u) : f.step = "run" /\ g.step = "flag" => u # t
      BY <1>1, <1>2
    <2>3. \A u \in LifetimeThreads : \A f, g \in On(u) :
             f.step = "run" /\ g.step = "flag" => f \in On(u)' /\ g \in On(u)'
      BY <1>3, <2>2
    <2>4. \A a \in Ran' : a.kind \in {"nested", "detach"} => a \in Ran
      BY <1>1, <1>5
    <2> QED BY <1>1, <2>1, <2>3, <2>4 DEF NestedEnds
  <1> QED BY <1>3, <1>5, <1>6, <1>7 DEF LifetimeInv

\* The parent's action that ends the nested lifetime.
LEMMA RunNestedStep == ASSUME LifetimeInv, NEW t \in LifetimeThreads, RunNested(t) PROVE LifetimeInv'
  <1> DEFINE ending == Frame("flag", "nested", "none")
  <1>1. /\ stack[t] # << >> /\ Top(t).step = "run" /\ Top(t).todo # {} /\ Latest(t).kind = "nested"
        /\ has_run' = Append(has_run, Latest(t)) /\ Restack(t, Front(stack[t]) \o <<Rest(t), ending>>)
        /\ UNCHANGED <<is_terminated, lifetime_actions, action_id_in_map, nesting, lifetime_calls, gone,
                       unwound, raced>>
    BY DEF RunNested, HasNext, Running, Restack
  <1>2. /\ Rest(t) \in AllFrames /\ Rest(t).step = "run" /\ Rest(t).of = "parent" /\ Plain(Rest(t))
        /\ Top(t).of = "parent" /\ Below(t) = {} /\ On(t) = {Top(t)}
    <2>1. Latest(t).of = "parent"
      BY <1>1, RestOf DEF GivenTo
    <2>2. Top(t).of = "parent" => Below(t) = {}
      BY <1>1, RestOf
    <2> QED BY <1>1, <2>1, <2>2, RestOf
  <1>3. /\ ending \in AllFrames /\ ending.step = "flag" /\ ending.of = "nested" /\ ending.kind = "none"
        /\ ending.todo = {} /\ Plain(ending)
    BY DEF Frame, AllFrames, Lifetimes, ActionKinds, Plain
  <1> HIDE DEF ending
  <1>4. /\ stack' \in [LifetimeThreads -> Seq(AllFrames)] /\ Stacked'
        /\ \A u \in LifetimeThreads : u # t => On(u)' = On(u)
        /\ On(t)' = {Rest(t), ending}
    BY <1>1, <1>2, <1>3, Nested DEF LifetimeInv
  <1>5. RunsAction(t)
    BY <1>1, <1>2, <1>3, <1>4 DEF RunsAction
  <1>6. /\ has_run' \in Seq(AllActions) /\ Ran' = Ran \cup {Latest(t)}
        /\ Identified' /\ TakenOnce' /\ OneTaker' /\ LatestFirst' /\ NoneLost' /\ NestedKnown'
    BY <1>5, LatestRuns
  <1>7. LifetimeTypeOK'
    BY <1>1, <1>4, <1>6 DEF LifetimeInv, LifetimeTypeOK
  <1>8. NestedEnds'
    <2>1. NestedEnds
      BY DEF LifetimeInv
    <2>2. \E f, g \in On(t)' : f.of = "parent" /\ f.step = "run" /\ g.of = "nested" /\ g.step = "flag"
      BY <1>2, <1>3, <1>4
    <2>3. \A a \in Ran' : a.kind = "detach" => a \in Ran
      BY <1>1, <1>6
    <2> QED BY <1>1, <2>1, <2>2, <2>3 DEF NestedEnds
  <1> QED BY <1>4, <1>6, <1>7, <1>8 DEF LifetimeInv

\* The nested lifetime's action that takes that one out of the parent's map.
LEMMA RunDetachStep == ASSUME LifetimeInv, NEW t \in LifetimeThreads, RunDetach(t) PROVE LifetimeInv'
  <1> DEFINE its == {a \in lifetime_actions["parent"] : a.kind = "nested"}
  <1>1. /\ stack[t] # << >> /\ Top(t).step = "run" /\ Top(t).todo # {} /\ Latest(t).kind = "detach"
        /\ has_run' = Append(has_run, Latest(t)) /\ Becomes(t, Rest(t))
        /\ lifetime_actions' = [lifetime_actions EXCEPT !["parent"] = @ \ its] /\ gone' = gone \cup its
        /\ raced' \in BOOLEAN
        /\ UNCHANGED <<is_terminated, action_id_in_map, nesting, lifetime_calls, unwound>>
    BY DEF RunDetach, HasNext, Running, InUse
  <1>2. /\ Rest(t) \in AllFrames /\ Rest(t).step = "run" /\ Rest(t).of = "nested" /\ Plain(Rest(t))
        /\ Top(t).of = "nested" /\ On(t) = Below(t) \cup {Top(t)} /\ is_terminated["nested"]
        /\ \A f \in Below(t) : f.step = "run"
    <2>1. Latest(t).of = "nested"
      BY <1>1, RestOf DEF GivenTo
    <2> QED BY <1>1, <2>1, RestOf
  <1>3. /\ stack' \in [LifetimeThreads -> Seq(AllFrames)] /\ Stacked'
        /\ \A u \in LifetimeThreads : u # t => On(u)' = On(u)
        /\ On(t)' = Below(t) \cup {Rest(t)}
    BY <1>1, <1>2, Continued DEF LifetimeInv, Ends
  <1>4. /\ lifetime_actions' \in [Lifetimes -> SUBSET AllActions] /\ its \subseteq lifetime_actions["parent"]
        /\ lifetime_actions'["parent"] = lifetime_actions["parent"] \ its
        /\ \A l \in Lifetimes : l # "parent" => lifetime_actions'[l] = lifetime_actions[l]
        /\ gone' \subseteq AllActions
    BY <1>1 DEF LifetimeInv, LifetimeTypeOK, Lifetimes
  <1>5. (\A a \in its : a.kind = "nested") /\ (\A a \in lifetime_actions'["parent"] : a.kind # "nested")
    BY <1>4
  <1> HIDE DEF its
  <1>6. RunsAction(t)
    <2>1. \A l \in Lifetimes : /\ lifetime_actions'[l] \subseteq lifetime_actions[l]
                               /\ \A a \in lifetime_actions[l] : a \in lifetime_actions'[l] \cup gone'
      BY <1>1, <1>4
    <2> QED BY <1>1, <1>3, <1>4, <2>1 DEF RunsAction
  <1>7. /\ has_run' \in Seq(AllActions) /\ Ran' = Ran \cup {Latest(t)}
        /\ Identified' /\ TakenOnce' /\ OneTaker' /\ LatestFirst' /\ NoneLost' /\ NestedKnown'
    BY <1>6, LatestRuns
  <1>8. LifetimeTypeOK'
    BY <1>1, <1>3, <1>4, <1>7 DEF LifetimeInv, LifetimeTypeOK
  <1>9. NestedEnds'
    BY <1>1, <1>2, <1>5 DEF LifetimeInv, NestedEnds
  <1> QED BY <1>3, <1>7, <1>8, <1>9 DEF LifetimeInv

-----------------------------------------------------------------------------

\* Nothing has happened yet.
LEMMA LifetimeInvInit == LifetimeInit => LifetimeInv
  <1> SUFFICES ASSUME LifetimeInit PROVE LifetimeInv
    OBVIOUS
  <1>1. \A t \in LifetimeThreads : On(t) = {}
    BY DEF LifetimeInit, On
  <1>2. Ran = {} /\ gone = {} /\ (\A l \in Lifetimes : lifetime_actions[l] = {}) /\ nesting = "none"
    BY DEF LifetimeInit, Ran
  <1>3. LifetimeTypeOK
    <2>1. << >> \in Seq(AllFrames) /\ << >> \in Seq(AllActions)
      OBVIOUS
    <2> QED BY <2>1 DEF LifetimeInit, LifetimeTypeOK
  <1>4. Stacked
    BY DEF LifetimeInit, Stacked, Shape
  <1>5. \A a \in AllActions : ~Somewhere(a)
    BY <1>1, <1>2 DEF Somewhere, AllActions
  <1>6. Identified /\ TakenOnce /\ OneTaker
    BY <1>1, <1>2 DEF Identified, TakenOnce, OneTaker, IdsApart
  <1>7. LatestFirst
    BY <1>1 DEF LatestFirst, LastFirst, LifetimeInit
  <1>8. NoneLost
    BY DEF NoneLost, LifetimeInit
  <1>9. NestedKnown
    BY <1>1, <1>2, <1>5 DEF NestedKnown
  <1>10. NestedEnds
    BY <1>2 DEF NestedEnds
  <1> QED BY <1>3, <1>4, <1>6, <1>7, <1>8, <1>9, <1>10 DEF LifetimeInv

\* Action by action.
LEMMA LifetimeInvStep == LifetimeInv /\ [LifetimeNext]_lifetimeVars => LifetimeInv'
  <1> SUFFICES ASSUME LifetimeInv, [LifetimeNext]_lifetimeVars PROVE LifetimeInv'
    OBVIOUS
  <1>1. ASSUME NEW t \in LifetimeThreads, attach_nested(t) PROVE LifetimeInv'
    BY <1>1, AttachStep
  <1>2. ASSUME NEW t \in LifetimeThreads, NEW l \in Lifetimes, add_action(t, l) PROVE LifetimeInv'
    <2> DEFINE f == Frame("add", l, "user")
    <2>1. f \in AllFrames /\ f.step = "add" /\ Plain(f)
      BY DEF Frame, AllFrames, ActionKinds, Plain
    <2>2. Call(t, <<f>>) /\ UNCHANGED nesting
      BY <1>2 DEF add_action
    <2> HIDE DEF f
    <2> QED BY <2>1, <2>2, CallStep
  <1>3. ASSUME NEW t \in LifetimeThreads, NEW l \in Lifetimes, remove_action(t, l) PROVE LifetimeInv'
    <2> DEFINE f == Frame("remove", l, "user")
    <2>1. f \in AllFrames /\ f.step = "remove" /\ Plain(f)
      BY DEF Frame, AllFrames, ActionKinds, Plain
    <2>2. Call(t, <<f>>) /\ UNCHANGED nesting
      BY <1>3 DEF remove_action
    <2> HIDE DEF f
    <2> QED BY <2>1, <2>2, CallStep
  <1>4. ASSUME NEW t \in LifetimeThreads, NEW l \in Lifetimes, terminate(t, l) PROVE LifetimeInv'
    <2> DEFINE f == Frame("flag", l, "none")
    <2>1. f \in AllFrames /\ f.step = "flag" /\ Plain(f)
      BY DEF Frame, AllFrames, ActionKinds, Plain
    <2>2. Call(t, <<f>>) /\ UNCHANGED nesting
      BY <1>4 DEF terminate
    <2> HIDE DEF f
    <2> QED BY <2>1, <2>2, CallStep
  <1>5. ASSUME NEW t \in LifetimeThreads, StepAdd(t) PROVE LifetimeInv'
    <2>1. Add(t)
      BY <1>5 DEF StepAdd
    <2>2. CASE is_terminated[Top(t).of]
      BY <1>5, <2>1, <2>2, RefuseStep DEF Add
    <2>3. CASE ~is_terminated[Top(t).of]
      BY <1>5, <2>1, <2>3, InsertStep DEF Add
    <2> QED BY <2>2, <2>3
  <1>6. CASE UNCHANGED lifetimeVars
    <2>1. \A t : On(t)' = On(t)
      BY <1>6 DEF lifetimeVars, On
    <2>2. /\ Identified' /\ OneTaker' /\ LatestFirst' /\ Ran' = Ran /\ NoneLost'
          /\ \A a \in AllActions : Somewhere(a)' <=> Somewhere(a)
      BY <1>6, <2>1, FramesOnly DEF lifetimeVars
    <2>3. LifetimeTypeOK' /\ Stacked'
      BY <1>6 DEF lifetimeVars, LifetimeInv, LifetimeTypeOK, Stacked
    <2>4. TakenOnce'
      BY <1>6, <2>1, <2>2 DEF lifetimeVars, LifetimeInv, TakenOnce
    <2>5. NestedKnown' /\ NestedEnds'
      BY <1>6, <2>1, <2>2 DEF lifetimeVars, LifetimeInv, NestedKnown, NestedEnds
    <2> QED BY <2>2, <2>3, <2>4, <2>5 DEF LifetimeInv
  <1> QED
    BY <1>1, <1>2, <1>3, <1>4, <1>5, <1>6, RemoveStep, FlagStep, TakeActionsStep, RunUserStep, RunNestedStep,
       RunDetachStep, TerminatedStep DEF LifetimeNext

\* LifetimeImpl: the bookkeeping of lifetimes, whatever calls threads make.
THEOREM LifetimesInductive == LifetimeSpec => []LifetimeInv
  <1> QED BY LifetimeInvInit, LifetimeInvStep, PTL DEF LifetimeSpec

\* What the invariant says of lifetimes that no thread is in the terminate of.
LEMMA InvEnds == LifetimeInv => LifetimesEnd
  <1> SUFFICES ASSUME LifetimeInv, ~unwound PROVE AllHaveRun /\ LastFirst /\ EndsWithParent
    BY DEF LifetimesEnd
  <1>1. LifetimeTypeOK /\ Identified /\ TakenOnce /\ NoneLost /\ NestedKnown /\ NestedEnds
    BY DEF LifetimeInv
  <1>2. ASSUME NEW l \in Lifetimes, Ended(l)
        PROVE  \A t \in LifetimeThreads : \A f \in On(t) : f.of = l => f.step \notin Ends
    <2> SUFFICES ASSUME NEW t \in LifetimeThreads, NEW i \in 1 .. Len(stack[t]), stack[t][i].of = l
                 PROVE  stack[t][i].step \notin Ends
      BY DEF On
    <2>1. i \in DOMAIN stack[t]
      BY <1>1 DEF LifetimeTypeOK
    <2> QED BY <1>2, <2>1 DEF Ended, Ends
  <1>3. ASSUME NEW l \in Lifetimes, Ended(l)
        PROVE  /\ is_terminated[l] /\ lifetime_actions[l] = {}
               /\ \A a \in AllActions : a.of = l /\ Somewhere(a) => a \in Ran \cup gone
    <2>1. is_terminated[l]
      BY <1>3 DEF Ended
    <2>2. lifetime_actions[l] = {}
      BY <1>1, <1>2, <1>3, <2>1 DEF TakenOnce, Ends
    <2>3. \A t \in LifetimeThreads : \A f \in On(t) : f.todo # {} => f.step = "run"
      <3> SUFFICES ASSUME NEW t \in LifetimeThreads, NEW f \in On(t), f.todo # {} PROVE f.step = "run"
        OBVIOUS
      <3>1. stack[t] # << >>
        BY Frames DEF LifetimeInv
      <3> QED BY <3>1, OnThread DEF LifetimeInv
    <2>4. \A t \in LifetimeThreads : \A f \in On(t) : \A a \in f.todo : a.of # l
      BY <1>1, <1>2, <1>3, <2>3 DEF Identified, Ends
    <2> QED BY <2>1, <2>2, <2>4 DEF Somewhere
  <1>4. AllHaveRun
    <2> SUFFICES ASSUME NEW l \in Lifetimes, Ended(l)
                 PROVE  {a.id : a \in {a \in ToSet(has_run) \cup gone : a.of = l}} = 0 .. action_id_in_map[l] - 1
      BY <1>3 DEF AllHaveRun
    <2>1. ToSet(has_run) = Ran /\ Ran \cup gone \subseteq AllActions
      <3>1. has_run \in Seq(AllActions) /\ DOMAIN has_run = 1 .. Len(has_run) /\ gone \subseteq AllActions
        BY <1>1 DEF LifetimeTypeOK
      <3> QED BY <3>1, ElementOfSeq DEF ToSet, Ran
    <2>2. action_id_in_map[l] \in Nat
      BY <1>1 DEF LifetimeTypeOK
    <2>3. ASSUME NEW a \in Ran \cup gone, a.of = l PROVE a.id \in 0 .. action_id_in_map[l] - 1
      BY <1>1, <2>1, <2>2, <2>3 DEF Identified, GivenTo, AllActions
    <2>4. ASSUME NEW id \in 0 .. action_id_in_map[l] - 1 PROVE \E a \in Ran \cup gone : a.of = l /\ a.id = id
      BY <1>1, <1>3 DEF NoneLost
    <2> QED BY <2>1, <2>3, <2>4
  <1>5. EndsWithParent
    <2> SUFFICES ASSUME nesting = "attached"
                 PROVE  /\ Ended("parent") => is_terminated["nested"]
                        /\ Ended("nested") => \A a \in lifetime_actions["parent"] : a.kind # "nested"
      BY DEF EndsWithParent
    <2>1. ASSUME Ended("parent") PROVE is_terminated["nested"]
      <3>1. PICK a \in AllActions : a.kind = "nested" /\ Somewhere(a)
        BY <1>1 DEF NestedKnown
      <3>2. a.of = "parent"
        <4>1. GivenTo(a)
          BY <1>1, <3>1 DEF Somewhere, Identified, AllActions
        <4> QED BY <3>1, <4>1 DEF GivenTo
      <3>3. a \in Ran \cup gone
        BY <1>3, <2>1, <3>1, <3>2 DEF Lifetimes
      <3>4. CASE a \in gone
        BY <1>1, <3>1, <3>4 DEF NestedEnds
      <3>5. CASE a \in Ran
        BY <1>1, <1>2, <2>1, <3>1, <3>5 DEF NestedEnds, Lifetimes, Ends
      <3> QED BY <3>3, <3>4, <3>5
    <2>2. ASSUME Ended("nested") PROVE \A a \in lifetime_actions["parent"] : a.kind # "nested"
      <3>1. PICK a \in AllActions : a.kind = "detach" /\ Somewhere(a)
        BY <1>1 DEF NestedKnown
      <3>2. a.of = "nested"
        <4>1. GivenTo(a)
          BY <1>1, <3>1 DEF Somewhere, Identified, AllActions
        <4> QED BY <3>1, <4>1 DEF GivenTo
      <3>3. a \in Ran \cup gone
        BY <1>3, <2>2, <3>1, <3>2 DEF Lifetimes
      <3> QED BY <1>1, <3>1, <3>3 DEF NestedEnds
    <2> QED BY <2>1, <2>2
  <1>6. LastFirst
    BY DEF LifetimeInv, LatestFirst
  <1> QED BY <1>4, <1>5, <1>6

\* LifetimeImpl.cpp:15-57.  However many threads add actions to two lifetimes, take them out,
\* nest one in the other and end them: if no action throws and no map is used by two at
\* once, each that has ended ran all it was given, last first, and ended what is nested in it.
THEOREM LifetimesEndInOrder == LifetimeSpec => []LifetimesEnd
  <1> QED BY LifetimesInductive, InvEnds, PTL
=============================================================================

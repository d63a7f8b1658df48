-------------------------------- MODULE RdCall ---------------------------------
(****************************************************************************)
(* One RdCall and the RdEndpoint that answers it.  sync is called by one    *)
(* thread, the scheduler's, and waits there; answers are dispatched by the  *)
(* wire's thread; the lifetime of the call may be terminated by a third.    *)
(* Each of them looks whether a task has a result before it sets one, and   *)
(* takes no lock between the two.                                           *)
(* The task of a call is destroyed when sync has failed or its caller is    *)
(* done with it, but its subscription lasts as long as the call does.       *)
(****************************************************************************)
EXTENDS Integers, FiniteSets

CONSTANT MaxCalls    \* bound on the calls of sync and start

VARIABLES
    sync_task_id,       \* 0 for nullopt
    last_id,
    task,               \* "none", "waited", "kept" or "destroyed", per task
    result,             \* per task
    to_set,             \* what a thread is about to set, having found no result
    subscribed,         \* the tasks the broker has a subscription for
    requests, answers,  \* under way
    scheduled,          \* answers queued on the scheduler given to start
    terminated,         \* the lifetime of the call
    settled,            \* the tasks that had a result when it was
    refused, failed, touched    \* what has happened so far: a sync was refused, a
                                \* sync has failed, an answer reached a destroyed task

wired == <<subscribed, requests, answers, scheduled>>
lasting == <<terminated, settled>>
seen == <<refused, failed, touched>>
callVars == <<sync_task_id, last_id, task, result, to_set, wired, lasting, seen>>

Ids == 1 .. MaxCalls
Kinds == {"success", "cancelled", "fault"}
Setters == {"wire", "scheduler", "lifetime"}
Nothing == [id |-> 0, kind |-> "none"]

CallInit ==
    /\ sync_task_id = 0 /\ last_id = 0
    /\ task = [id \in Ids |-> "none"]
    /\ result = [id \in Ids |-> "empty"] /\ to_set = [by \in Setters |-> Nothing]
    /\ subscribed = {} /\ requests = {} /\ answers = {} /\ scheduled = {}
    /\ terminated = FALSE /\ settled = {}
    /\ refused = FALSE /\ failed = FALSE /\ touched = FALSE

Waiting == \E id \in Ids : task[id] = "waited"

-----------------------------------------------------------------------------
(* The caller.  The task is subscribed before sync_task_id is looked at.    *)

Send(id, as) ==
    /\ task' = [task EXCEPT ![id] = as]
    /\ requests' = requests \cup {id}

Start(id) == Send(id, "kept") /\ UNCHANGED <<sync_task_id, refused>>

StartSync(id) ==
    IF sync_task_id # 0
    THEN /\ refused' = TRUE
         /\ task' = [task EXCEPT ![id] = "destroyed"]
         /\ UNCHANGED <<sync_task_id, requests>>
    ELSE /\ sync_task_id' = id
         /\ Send(id, "waited")
         /\ UNCHANGED refused

start_internal ==
    /\ ~Waiting /\ to_set["scheduler"] = Nothing
    /\ ~terminated /\ last_id < MaxCalls
    /\ last_id' = last_id + 1
    /\ subscribed' = subscribed \cup {last_id + 1}
    /\ StartSync(last_id + 1) \/ Start(last_id + 1)
    /\ UNCHANGED <<result, to_set, answers, scheduled, lasting, failed, touched>>

\* Variant: sync_task_id is left as it is.
ReturnsStill(id) ==
    /\ result[id] = "success"
    /\ UNCHANGED <<sync_task_id, failed>>

Returns(id) ==
    /\ result[id] = "success"
    /\ sync_task_id' = 0
    /\ UNCHANGED failed

\* value_or_throw and unwrap throw past the line that resets sync_task_id.
Throws(id) ==
    /\ result[id] # "success"    \* or the time is over, or the call's lifetime
    /\ failed' = TRUE
    /\ UNCHANGED sync_task_id

sync(id) ==
    /\ task[id] = "waited"
    /\ Returns(id) \/ Throws(id)
    /\ task' = [task EXCEPT ![id] = "destroyed"]
    /\ UNCHANGED <<last_id, result, to_set, wired, lasting, refused, touched>>

\* The caller of start is done with a task that has a result.
Done(id) ==
    /\ task[id] = "kept" /\ result[id] # "empty"
    /\ task' = [task EXCEPT ![id] = "destroyed"]
    /\ UNCHANGED <<sync_task_id, last_id, result, to_set, wired, lasting, seen>>

-----------------------------------------------------------------------------
(* The endpoint, and the way back                                           *)

\* The handler returns a task that has, or will have, a result, or it throws.
Answer(id) ==
    /\ id \in requests
    /\ requests' = requests \ {id}
    /\ \E kind \in Kinds : answers' = answers \cup {[id |-> id, kind |-> kind]}
    /\ UNCHANGED <<sync_task_id, last_id, task, result, to_set, subscribed, scheduled, lasting, seen>>

\* Property::set_if_empty looks first ...
set_if_empty(by, id, kind) ==
    to_set' = IF result[id] = "empty" THEN [to_set EXCEPT ![by] = [id |-> id, kind |-> kind]]
                                      ELSE to_set

\* ... and sets then, wherever the task is by now.  That the listeners of the result
\* are told after that is left out.
Sets(by) ==
    /\ to_set[by] # Nothing
    /\ to_set' = [to_set EXCEPT ![by] = Nothing]
    /\ IF task[to_set[by].id] = "destroyed"
       THEN touched' = TRUE /\ UNCHANGED result
       ELSE result' = [result EXCEPT ![to_set[by].id] = to_set[by].kind] /\ UNCHANGED touched
    /\ UNCHANGED <<sync_task_id, last_id, task, wired, lasting, refused, failed>>

\* The wire's thread dispatches an answer, to whatever is where the task was.
task_on_wire_received(answer) ==
    /\ answer \in answers /\ to_set["wire"] = Nothing
    /\ answers' = answers \ {answer}
    /\ IF answer.id \notin subscribed THEN UNCHANGED <<to_set, scheduled, touched>>
       ELSE CASE task[answer.id] = "waited" ->
                     set_if_empty("wire", answer.id, answer.kind) /\ UNCHANGED <<scheduled, touched>>
              [] task[answer.id] = "kept" ->
                     scheduled' = scheduled \cup {answer} /\ UNCHANGED <<to_set, touched>>
              [] task[answer.id] = "destroyed" ->
                     touched' = TRUE /\ UNCHANGED <<to_set, scheduled>>
    /\ UNCHANGED <<sync_task_id, last_id, task, result, subscribed, requests, lasting, refused, failed>>

RunScheduled(answer) ==
    /\ answer \in scheduled /\ ~Waiting /\ to_set["scheduler"] = Nothing
    /\ scheduled' = scheduled \ {answer}
    /\ IF task[answer.id] = "destroyed"
       THEN touched' = TRUE /\ UNCHANGED to_set
       ELSE set_if_empty("scheduler", answer.id, answer.kind) /\ UNCHANGED touched
    /\ UNCHANGED <<sync_task_id, last_id, task, result, subscribed, requests, answers, lasting,
                   refused, failed>>

-----------------------------------------------------------------------------
(* The end of the call's lifetime: the actions of the tasks run, the last   *)
(* one first, each before the subscription of its task goes.                *)

Terminate ==
    /\ ~terminated /\ terminated' = TRUE
    /\ settled' = {id \in Ids : result[id] # "empty"}
    /\ UNCHANGED <<sync_task_id, last_id, task, result, to_set, wired, seen>>

LastWired(id) == id \in subscribed /\ \A other \in subscribed : other <= id

\* Variant: only the subscription goes.
CancelTaskOpen ==
    /\ terminated /\ to_set["lifetime"] = Nothing
    /\ \E id \in Ids : LastWired(id) /\ subscribed' = subscribed \ {id}
    /\ UNCHANGED <<sync_task_id, last_id, task, result, to_set, requests, answers, scheduled,
                   lasting, seen>>

\* Variant: the result is set without a look.
CancelTaskAnyway ==
    /\ terminated /\ to_set["lifetime"] = Nothing
    /\ \E id \in Ids :
           /\ LastWired(id)
           /\ to_set' = IF task[id] = "destroyed" THEN to_set
                        ELSE [to_set EXCEPT !["lifetime"] = [id |-> id, kind |-> "cancelled"]]
           /\ subscribed' = subscribed \ {id}
    /\ UNCHANGED <<sync_task_id, last_id, task, result, requests, answers, scheduled, lasting, seen>>

CancelTask ==
    /\ terminated /\ to_set["lifetime"] = Nothing
    /\ \E id \in Ids :
           /\ LastWired(id)
           /\ IF task[id] # "destroyed" /\ result[id] = "empty"
              THEN set_if_empty("lifetime", id, "cancelled") /\ UNCHANGED subscribed
              ELSE subscribed' = subscribed \ {id} /\ UNCHANGED to_set
    /\ UNCHANGED <<sync_task_id, last_id, task, result, requests, answers, scheduled, lasting, seen>>

CallNext ==
    \/ start_internal
    \/ \E id \in Ids : sync(id) \/ Done(id) \/ Answer(id)
    \/ \E answer \in answers : task_on_wire_received(answer)
    \/ \E answer \in scheduled : RunScheduled(answer)
    \/ \E by \in Setters : Sets(by)
    \/ Terminate \/ CancelTask

\* The waiting thread is scheduled, and so are those that resolve tasks; whether
\* the endpoint answers is its own affair.
CallFairness ==
    /\ \A id \in Ids : WF_callVars(sync(id))
    /\ WF_callVars(\E answer \in answers : task_on_wire_received(answer))
    /\ WF_callVars(\E answer \in scheduled : RunScheduled(answer))
    /\ \A by \in Setters : WF_callVars(Sets(by))
    /\ WF_callVars(CancelTask)

CallSpec == CallInit /\ [][CallNext]_callVars /\ CallFairness

-----------------------------------------------------------------------------
(* Properties *)

Answers == [id : Ids, kind : Kinds]

CallTypeOK ==
    /\ sync_task_id \in Nat /\ last_id \in Nat
    /\ task \in [Ids -> {"none", "waited", "kept", "destroyed"}]
    /\ result \in [Ids -> Kinds \cup {"empty"}]
    /\ to_set \in [Setters -> Answers \cup {Nothing}]
    /\ subscribed \subseteq Ids /\ requests \subseteq Ids
    /\ answers \subseteq Answers /\ scheduled \subseteq Answers
    /\ terminated \in BOOLEAN /\ settled \subseteq Ids
    /\ refused \in BOOLEAN /\ failed \in BOOLEAN /\ touched \in BOOLEAN

\* WiredRdTaskImpl.h:36, 50-58, IProperty.h:86-92.  As look and set are not one, the
\* cancellation and an answer under way at the end of the lifetime can replace each
\* other.  But the first result a task gets before that is its last, though
\* its action on the lifetime and its subscription are still to go: what sync has
\* returned, or the caller of start has read, stays.
ResultIsFinal ==
    [][\A id \in Ids :
           result[id] # "empty" /\ (terminated => id \in settled) => result'[id] = result[id]]_callVars

\* RdCall.h:83-84, 124, WiredRdTaskImpl.h:49.  As long as every sync succeeds none is
\* refused, and while the lifetime of the call lasts no answer reaches a task that
\* has been destroyed.
SuccessIsClean == ~failed => ~refused /\ (touched => terminated)

\* RdCall.h:76-80.  sync ends, whether or not the endpoint answers.
SyncEnds == \A id \in Ids : task[id] = "waited" ~> task[id] = "destroyed"

\* WiredRdTaskImpl.h:36.  No task is left open when the call's lifetime has ended,
\* the answer to a request having been lost with it or not.
TasksEnd == \A id \in Ids : terminated /\ task[id] = "kept" ~> result[id] # "empty"

\* RdCall.h:76-80, WiredRdTaskImpl.h:36.  Whatever becomes of the answer, nobody
\* waits for a task for ever.
CallsEnd == SyncEnds /\ TasksEnd

\* RdCall.h:67, sync "Invokes the API with the parameters given as [request]":
\* it does not refuse to.
SyncInvokes == ~refused
=============================================================================

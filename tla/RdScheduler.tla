----------------------------- MODULE RdScheduler -----------------------------
(****************************************************************************)
(* SingleThreadScheduler: its counter of actions and the thread pool of one *)
(* worker that runs them.  queue, flush and the end of the scheduler's      *)
(* lifetime are called by several threads; queue also by an action of the   *)
(* scheduler's own, the worker being one of the callers while it runs one.  *)
(* The pool's mutex guards the worker's sleep, not the queue.               *)
(****************************************************************************)
EXTENDS Integers, Sequences, SequencesExt

CONSTANTS
    Users,
    MaxActions      \* bound on the actions that are queued

ASSUME ActionsAssumption == MaxActions \in Nat

VARIABLES
    tasks_executing,
    q,
    isDone,
    mutex,          \* the worker holds the pool's mutex
    worker,         \* where the pool's thread is
    caller,         \* where each thread is in queue, flush or stop, and with which action
    numbered,       \* how many actions were given to queue
    pushed, ran,    \* actions in the order in which they were pushed, and run
    returned,       \* those whose queue has returned
    owed            \* those whose queue had returned when stop was called

schedulerVars == <<tasks_executing, q, isDone, mutex, worker, caller, numbered, pushed, ran, returned, owed>>

Callers == Users \cup {"worker"}
At(step, action) == [step |-> step, action |-> action]

SchedulerInit ==
    /\ tasks_executing = 0
    /\ q = << >>
    /\ isDone = FALSE /\ mutex = FALSE
    /\ worker = "pop"
    /\ caller = [c \in Callers |-> At("idle", 0)]
    /\ numbered = 0
    /\ pushed = << >> /\ ran = << >>
    /\ returned = {} /\ owed = {}

Goes(c, step) == caller' = [caller EXCEPT ![c].step = step]

-----------------------------------------------------------------------------
(* The callers.                                                             *)

queue(c) ==
    /\ caller[c].step = "idle" /\ numbered < MaxActions
    /\ c = "worker" => worker = "run"
    /\ numbered' = numbered + 1
    /\ tasks_executing' = tasks_executing + 1
    /\ caller' = [caller EXCEPT ![c] = At("push", numbered + 1)]
    /\ UNCHANGED <<q, isDone, mutex, worker, pushed, ran, returned, owed>>

Push(c) ==
    /\ caller[c].step = "push"
    /\ q' = Append(q, caller[c].action)
    /\ pushed' = Append(pushed, caller[c].action)
    /\ Goes(c, "notify")
    /\ UNCHANGED <<tasks_executing, isDone, mutex, worker, numbered, ran, returned, owed>>

Wakes == IF worker = "wait" THEN "lock" ELSE worker

\* Variant: the mutex is not waited for.
NotifyAtOnce == TRUE

\* The mutex that the worker holds from its look at the queue to its sleep.
MayNotify == ~mutex

Notify(c) ==
    /\ caller[c].step = "notify" /\ MayNotify
    /\ worker' = Wakes
    /\ returned' = returned \cup {caller[c].action}
    /\ Goes(c, "idle")
    /\ UNCHANGED <<tasks_executing, q, isDone, mutex, numbered, pushed, ran, owed>>

\* Not from an action: an assertion says so.
flush(u) ==
    /\ caller[u].step = "idle"
    /\ Goes(u, "flush")
    /\ UNCHANGED <<tasks_executing, q, isDone, mutex, worker, numbered, pushed, ran, returned, owed>>

Flushed(u) ==
    /\ caller[u].step = "flush" /\ tasks_executing = 0
    /\ Goes(u, "idle")
    /\ UNCHANGED <<tasks_executing, q, isDone, mutex, worker, numbered, pushed, ran, returned, owed>>

\* pool->stop(true), the action on the scheduler's lifetime; a second one returns.
stop(u) ==
    /\ caller[u].step = "idle" /\ ~isDone
    /\ isDone' = TRUE
    /\ owed' = returned
    /\ Goes(u, "notifyAll")
    /\ UNCHANGED <<tasks_executing, q, mutex, worker, numbered, pushed, ran, returned>>

NotifyAll(u) ==
    /\ caller[u].step = "notifyAll" /\ ~mutex
    /\ worker' = Wakes
    /\ Goes(u, "join")
    /\ UNCHANGED <<tasks_executing, q, isDone, mutex, numbered, pushed, ran, returned, owed>>

Join(u) ==
    /\ caller[u].step = "join" /\ worker = "exited"
    /\ q' = << >>
    /\ Goes(u, "idle")
    /\ UNCHANGED <<tasks_executing, isDone, mutex, worker, numbered, pushed, ran, returned, owed>>

-----------------------------------------------------------------------------
(* The pool's thread.                                                       *)

Pop(otherwise) ==
    \/ /\ q # << >>
       /\ ran' = Append(ran, Head(q)) /\ q' = Tail(q)
       /\ worker' = "run"
    \/ q = << >> /\ worker' = otherwise /\ UNCHANGED <<ran, q>>

PopNext ==
    /\ worker = "pop" /\ Pop("lock")
    /\ UNCHANGED <<tasks_executing, isDone, mutex, caller, numbered, pushed, returned, owed>>

\* Variant: stop(false), which does not wait for what is queued.
LeavesOff == IF isDone THEN "exited" ELSE "pop"

GoesOn == "pop"

\* The action ends, with or without an exception.
Finish ==
    /\ worker = "run" /\ caller["worker"].step = "idle"
    /\ tasks_executing' = tasks_executing - 1
    /\ worker' = GoesOn
    /\ UNCHANGED <<q, isDone, mutex, caller, numbered, pushed, ran, returned, owed>>

Lock ==
    /\ worker = "lock" /\ ~mutex /\ mutex' = TRUE
    /\ worker' = "check"
    /\ UNCHANGED <<tasks_executing, q, isDone, caller, numbered, pushed, ran, returned, owed>>

\* The predicate of the wait looks at the queue and then at isDone.
Check ==
    /\ worker = "check" /\ Pop("decide")
    /\ mutex' = (q = << >>)
    /\ UNCHANGED <<tasks_executing, isDone, caller, numbered, pushed, returned, owed>>

Decide ==
    /\ worker = "decide" /\ mutex' = FALSE
    /\ worker' = IF isDone THEN "exited" ELSE "wait"
    /\ UNCHANGED <<tasks_executing, q, isDone, caller, numbered, pushed, ran, returned, owed>>

Worker == PopNext \/ Finish \/ Lock \/ Check \/ Decide

Calls(c) == Push(c) \/ Notify(c) \/ NotifyAll(c) \/ Join(c)

SchedulerNext ==
    \/ Worker
    \/ \E c \in Callers : queue(c) \/ Calls(c)
    \/ \E u \in Users : flush(u) \/ Flushed(u) \/ stop(u)

\* A thread that is in a call, or has an action to run, goes on.
SchedulerFairness ==
    /\ WF_schedulerVars(Worker)
    /\ \A c \in Callers : WF_schedulerVars(Calls(c)) /\ WF_schedulerVars(Flushed(c))

SchedulerSpec == SchedulerInit /\ [][SchedulerNext]_schedulerVars /\ SchedulerFairness

-----------------------------------------------------------------------------

\* The variables have their types.
SchedulerTypeOK ==
    /\ tasks_executing \in 0 .. MaxActions
    /\ q \in Seq(1 .. MaxActions) /\ pushed \in Seq(1 .. MaxActions) /\ ran \in Seq(1 .. MaxActions)
    /\ isDone \in BOOLEAN /\ mutex \in BOOLEAN
    /\ worker \in {"pop", "run", "lock", "check", "decide", "wait", "exited"}
    /\ caller \in [Callers -> [step : {"idle", "push", "notify", "flush", "notifyAll", "join"},
                               action : 0 .. MaxActions]]
    /\ numbered \in 0 .. MaxActions
    /\ returned \subseteq 1 .. MaxActions /\ owed \subseteq returned

\* SingleThreadSchedulerBase.cpp:38-53, ctpl_stl.h:141.  Actions are run in the
\* order in which they were pushed; flush returns when all that were queued
\* before have been run; and stop runs all that were queued before it was called.
QueuedIsRun ==
    /\ IsPrefix(ran, pushed)
    /\ tasks_executing = 0 => returned \subseteq ToSet(ran)
    /\ worker = "exited" => owed \subseteq ToSet(ran)

\* The worker has gone, and actions that were queued while or after it did are left.
Stranded == worker = "exited" /\ tasks_executing > 0

\* SingleThreadSchedulerBase.cpp:38-46.  flush ends: no wake-up of the worker is
\* lost, whatever other threads call, until the scheduler's lifetime ends.
FlushEnds == \A u \in Users : caller[u].step = "flush" ~> caller[u].step # "flush" \/ Stranded
=============================================================================

------------------------------ MODULE RdLifetime ------------------------------
(****************************************************************************)
(* LifetimeImpl: a lifetime and one that is nested in it, used by several   *)
(* threads.  What a thread is in the middle of is a stack of frames: an     *)
(* action that terminate runs may terminate another lifetime.  The opening  *)
(* of a bracket leaves lifetimes alone and its closing is an add_action.    *)
(* The nested lifetime is known to other threads when its constructor is    *)
(* through.                                                                 *)
(****************************************************************************)
EXTENDS Integers, Sequences, SequencesExt

CONSTANTS
    LifetimeThreads,
    MaxLifetimeCalls        \* bound on the calls of all threads

VARIABLES
    is_terminated,
    lifetime_actions,    \* of each lifetime; the map keeps them in the order of their ids
    action_id_in_map,
    nesting,             \* "none", "attaching", "attached", or "refused" by an exception
    stack,               \* the frames of each thread, the running one last
    lifetime_calls,
    has_run,             \* the actions that were run, in order
    gone,                \* the actions that were taken out of a map instead
    unwound,             \* an action's exception has ended a terminate early
    raced                \* a map was used by two threads at once

lifetimeVars ==
    <<is_terminated, lifetime_actions, action_id_in_map, nesting, stack, lifetime_calls,
      has_run, gone, unwound, raced>>

Lifetimes == {"parent", "nested"}

LifetimeAction(l, kind) == [of |-> l, id |-> action_id_in_map[l], kind |-> kind]

Frame(step, l, kind) == [step |-> step, of |-> l, kind |-> kind, todo |-> {}]

LifetimeInit ==
    /\ is_terminated = [l \in Lifetimes |-> FALSE]
    /\ lifetime_actions = [l \in Lifetimes |-> {}]
    /\ action_id_in_map = [l \in Lifetimes |-> 0]
    /\ nesting = "none"
    /\ stack = [t \in LifetimeThreads |-> << >>]
    /\ lifetime_calls = 0
    /\ has_run = << >> /\ gone = {}
    /\ unwound = FALSE /\ raced = FALSE

-----------------------------------------------------------------------------
(* The calls.                                                               *)

Known(l) == l = "parent" \/ nesting = "attached"

Call(t, frames) ==
    /\ stack[t] = << >> /\ lifetime_calls < MaxLifetimeCalls
    /\ lifetime_calls' = lifetime_calls + 1
    /\ stack' = [stack EXCEPT ![t] = frames]
    /\ UNCHANGED <<is_terminated, lifetime_actions, action_id_in_map, has_run, gone, unwound, raced>>

add_action(t, l) == Known(l) /\ Call(t, <<Frame("add", l, "user")>>) /\ UNCHANGED nesting

remove_action(t, l) == Known(l) /\ Call(t, <<Frame("remove", l, "user")>>) /\ UNCHANGED nesting

terminate(t, l) == Known(l) /\ Call(t, <<Frame("flag", l, "none")>>) /\ UNCHANGED nesting

\* Of a new lifetime: first the parent's action that ends it, then its own
\* that takes the other one out of the parent's map.
attach_nested(t) ==
    /\ nesting = "none" /\ nesting' = "attaching"
    /\ Call(t, <<Frame("add", "nested", "detach"), Frame("add", "parent", "nested")>>)

-----------------------------------------------------------------------------
(* The steps of the running frame.                                          *)

Top(t) == Last(stack[t])
Running(t, step) == stack[t] # << >> /\ Top(t).step = step
Return(t) == stack' = [stack EXCEPT ![t] = Front(@)]
Becomes(t, frame) == stack' = [stack EXCEPT ![t] = Append(Front(@), frame)]
Throw(t) == stack' = [stack EXCEPT ![t] = << >>]

Insert(l, kind) ==
    /\ lifetime_actions' = [lifetime_actions EXCEPT ![l] = @ \cup {LifetimeAction(l, kind)}]
    /\ action_id_in_map' = [action_id_in_map EXCEPT ![l] = @ + 1]

\* Variant: the lifetime may have ended since the caller looked.
AddUnchecked(t) ==
    LET frame == Top(t)
    IN  /\ Insert(frame.of, frame.kind) /\ Return(t)
        /\ nesting' = IF frame.kind = "detach" THEN "attached" ELSE nesting

Add(t) ==
    LET frame == Top(t)
    IN  \/ /\ is_terminated[frame.of]
           /\ Throw(t)
           /\ nesting' = IF frame.kind = "user" THEN nesting ELSE "refused"
           /\ UNCHANGED <<lifetime_actions, action_id_in_map>>
        \/ /\ ~is_terminated[frame.of]
           /\ Insert(frame.of, frame.kind) /\ Return(t)
           /\ nesting' = IF frame.kind = "detach" THEN "attached" ELSE nesting

StepAdd(t) ==
    /\ Running(t, "add") /\ Add(t)
    /\ UNCHANGED <<is_terminated, lifetime_calls, has_run, gone, unwound, raced>>

StepRemove(t) ==
    /\ Running(t, "remove") /\ Return(t)
    /\ \E id \in 0 .. action_id_in_map[Top(t).of] - 1 :
          LET l == Top(t).of
              its == {a \in lifetime_actions[l] : a.id = id /\ a.kind = "user"}
          IN  /\ lifetime_actions' = [lifetime_actions EXCEPT ![l] = @ \ its]
              /\ gone' = gone \cup its
    /\ UNCHANGED <<is_terminated, action_id_in_map, nesting, lifetime_calls, has_run, unwound, raced>>

Flag(t) ==
    /\ Running(t, "flag")
    /\ is_terminated' = [is_terminated EXCEPT ![Top(t).of] = TRUE]
    /\ Becomes(t, [Top(t) EXCEPT !.step = "take"])
    /\ UNCHANGED <<lifetime_actions, action_id_in_map, nesting, lifetime_calls, has_run, gone, unwound, raced>>

TakeActions(t) ==
    /\ Running(t, "take")
    /\ Becomes(t, [Top(t) EXCEPT !.step = "run", !.todo = lifetime_actions[Top(t).of]])
    /\ lifetime_actions' = [lifetime_actions EXCEPT ![Top(t).of] = {}]
    /\ UNCHANGED <<is_terminated, action_id_in_map, nesting, lifetime_calls, has_run, gone, unwound, raced>>

\* The last action that is left, and the frame without it.
Latest(t) == CHOOSE a \in Top(t).todo : \A b \in Top(t).todo : b.id <= a.id
Rest(t) == [Top(t) EXCEPT !.todo = @ \ {Latest(t)}]
HasNext(t, kind) == Running(t, "run") /\ Top(t).todo # {} /\ Latest(t).kind = kind

RunUser(t) ==
    /\ HasNext(t, "user")
    /\ has_run' = Append(has_run, Latest(t))
    /\ \/ Becomes(t, Rest(t)) /\ UNCHANGED unwound
       \/ Throw(t) /\ unwound' = TRUE
    /\ UNCHANGED <<is_terminated, lifetime_actions, action_id_in_map, nesting, lifetime_calls, gone, raced>>

\* nested->terminate()
RunNested(t) ==
    /\ HasNext(t, "nested")
    /\ has_run' = Append(has_run, Latest(t))
    /\ stack' = [stack EXCEPT ![t] = Front(@) \o <<Rest(t), Frame("flag", "nested", "none")>>]
    /\ UNCHANGED <<is_terminated, lifetime_actions, action_id_in_map, nesting, lifetime_calls, gone, unwound, raced>>

\* Another thread may be at the parent's map: this one does not take the lock.
InUse(t) ==
    \E u \in LifetimeThreads \ {t} : \E step \in {"add", "remove", "take"} :
        Running(u, step) /\ Top(u).of = "parent"

RunDetach(t) ==
    /\ HasNext(t, "detach")
    /\ has_run' = Append(has_run, Latest(t))
    /\ Becomes(t, Rest(t))
    /\ raced' = InUse(t)
    /\ LET its == {a \in lifetime_actions["parent"] : a.kind = "nested"}
       IN  /\ lifetime_actions' = [lifetime_actions EXCEPT !["parent"] = @ \ its]
           /\ gone' = gone \cup its
    /\ UNCHANGED <<is_terminated, action_id_in_map, nesting, lifetime_calls, unwound>>

Terminated(t) ==
    /\ Running(t, "run") /\ Top(t).todo = {}
    /\ Return(t)
    /\ UNCHANGED <<is_terminated, lifetime_actions, action_id_in_map, nesting, lifetime_calls, has_run, gone, unwound, raced>>

\* Nothing can be said of what follows a race.
LifetimeNext ==
    /\ ~raced
    /\ \E t \in LifetimeThreads :
          \/ attach_nested(t)
          \/ \E l \in Lifetimes : add_action(t, l) \/ remove_action(t, l) \/ terminate(t, l)
          \/ StepAdd(t) \/ StepRemove(t)
          \/ Flag(t) \/ TakeActions(t) \/ RunUser(t) \/ RunNested(t) \/ RunDetach(t) \/ Terminated(t)

LifetimeSpec == LifetimeInit /\ [][LifetimeNext]_lifetimeVars

-----------------------------------------------------------------------------

ActionKinds == {"user", "nested", "detach"}
AllActions == [of : Lifetimes, id : Nat, kind : ActionKinds]
AllFrames == [step : {"add", "remove", "flag", "take", "run"}, of : Lifetimes,
              kind : ActionKinds \cup {"none"}, todo : SUBSET AllActions]

\* The variables have their types.
LifetimeTypeOK ==
    /\ is_terminated \in [Lifetimes -> BOOLEAN]
    /\ lifetime_actions \in [Lifetimes -> SUBSET AllActions]
    /\ action_id_in_map \in [Lifetimes -> Nat]
    /\ nesting \in {"none", "attaching", "attached", "refused"}
    /\ stack \in [LifetimeThreads -> Seq(AllFrames)]
    /\ lifetime_calls \in Nat
    /\ has_run \in Seq(AllActions) /\ gone \subseteq AllActions
    /\ unwound \in BOOLEAN /\ raced \in BOOLEAN

\* No thread is in terminate of the lifetime any more.
Ended(l) ==
    /\ is_terminated[l]
    /\ \A t \in LifetimeThreads : \A i \in DOMAIN stack[t] :
          stack[t][i].of = l => stack[t][i].step \notin {"flag", "take", "run"}

\* LifetimeImpl.cpp:15-37, LifetimeImpl.h:57-72.  A lifetime that has ended has
\* run every action it ever took, but those that were removed, and takes no more.
AllHaveRun ==
    \A l \in Lifetimes : Ended(l) =>
        /\ lifetime_actions[l] = {}
        /\ {a.id : a \in {a \in ToSet(has_run) \cup gone : a.of = l}} = 0 .. action_id_in_map[l] - 1

\* LifetimeImpl.cpp:33.  Actions run once, and the last one first.
LastFirst ==
    \A j \in DOMAIN has_run : \A i \in 1 .. j - 1 :
        has_run[i].of = has_run[j].of => has_run[i].id > has_run[j].id

\* LifetimeImpl.cpp:54-56.  A nested lifetime ends with its parent, and one
\* that has ended before leaves nothing with the parent.
EndsWithParent ==
    nesting = "attached" =>
        /\ Ended("parent") => is_terminated["nested"]
        /\ Ended("nested") => \A a \in lifetime_actions["parent"] : a.kind # "nested"

\* LifetimeImpl.cpp:15-57.  Whatever threads do at the same time, unless they
\* race for a map or an action throws: lifetimes end in order and completely.
LifetimesEnd == ~raced /\ ~unwound => AllHaveRun /\ LastFirst /\ EndsWithParent
=============================================================================

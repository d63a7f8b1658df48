-------------------------------- MODULE RdBroker -------------------------------
(****************************************************************************)
(* The MessageBroker and the messages of one id: dispatch runs on the       *)
(* wire's thread, the actions it queues on the default scheduler's, and so  *)
(* does the program that advises the entity and ends its lifetime.  The     *)
(* entity's own scheduler is the default one, a synchronous one, or one     *)
(* with a thread of its own.                                                *)
(****************************************************************************)
EXTENDS Integers, Sequences, SequencesExt

CONSTANT MaxMessages    \* bound on the calls of dispatch

ASSUME MessagesAssumption == MaxMessages \in Nat

VARIABLES
    wire_scheduler,    \* of the entity: "default", "synchronous" or "own"
    dispatches,        \* how many messages were dispatched; they are numbered
    entity,            \* "unadvised", "advised" or "ended"
    subscription,      \* "absent", "null" or "entity": what subscriptions has for the id
    broker,            \* the Mq of the id, and how many were erased before it
    default_actions,   \* queued on the default scheduler
    own_actions,       \* queued on the entity's own scheduler
    drain,             \* the running action of dispatch
    executed,          \* the messages the entity has got
    heard,             \* the messages dispatched while it was advised
    swept,             \* those of them put aside between the move of a Mq and its erase
    undefined,         \* a freed Mq or a null subscription was used
    called_ended       \* the entity got a message after its end

queues == <<default_actions, own_actions>>
outcome == <<executed, heard, swept, undefined, called_ended>>
brokerVars == <<wire_scheduler, dispatches, entity, subscription, broker, queues, drain, outcome>>

BrokerMessage == 1 .. MaxMessages
Mq(exists, default_messages, custom_messages, erased) ==
    [exists |-> exists, default_messages |-> default_messages,
     custom_messages |-> custom_messages, erased |-> erased]

Idle == [step |-> "idle", subscription |-> "null", forward |-> << >>]

BrokerInit ==
    /\ wire_scheduler \in {"default", "synchronous", "own"}
    /\ dispatches = 0
    /\ entity = "unadvised" /\ subscription = "absent"
    /\ broker = Mq(FALSE, << >>, << >>, 0)
    /\ default_actions = << >> /\ own_actions = << >>
    /\ drain = Idle
    /\ executed = << >> /\ heard = {} /\ swept = {}
    /\ undefined = FALSE /\ called_ended = FALSE

-----------------------------------------------------------------------------

execute(msg) ==
    /\ executed' = Append(executed, msg)
    /\ called_ended' = (called_ended \/ entity = "ended")

Pass == UNCHANGED <<executed, called_ended>>

\* The action of invoke: nothing is called for an id without a subscription.
\* One that is null counts.
ExecuteIfKnown(msg, known) == IF known # "absent" THEN execute(msg) ELSE Pass

\* A synchronous scheduler runs the action at once, another one queues it.
invoke(msg, scheduler_actions, known) ==
    CASE wire_scheduler = "default" ->
            /\ default_actions' = Append(scheduler_actions, [kind |-> "invoke", msg |-> msg])
            /\ Pass /\ UNCHANGED own_actions
      [] wire_scheduler = "synchronous" ->
            /\ ExecuteIfKnown(msg, known)
            /\ default_actions' = scheduler_actions /\ UNCHANGED own_actions
      [] wire_scheduler = "own" ->
            /\ own_actions' = Append(own_actions, msg)
            /\ default_actions' = scheduler_actions /\ Pass

\* Variant: nothing is entered.
LookedUpOnly == subscription

\* subscriptions[id] enters a null for an id it does not have.
LookedUp == IF subscription = "absent" THEN "null" ELSE subscription

DispatchUnknown(msg) ==
    /\ broker' = [broker EXCEPT !.exists = TRUE,
                                !.default_messages = Append(@, msg)]
    /\ default_actions' = Append(default_actions, [kind |-> "drain", msg |-> broker.erased])
    /\ Pass /\ UNCHANGED own_actions

DispatchKnown(msg) ==
    IF wire_scheduler = "default" \/ ~broker.exists
    THEN invoke(msg, default_actions, LookedUp) /\ UNCHANGED <<broker, swept>>
    ELSE /\ broker' = [broker EXCEPT !.custom_messages = Append(@, msg)]
         /\ swept' = IF drain.step = "erase" THEN swept \cup {msg} ELSE swept
         /\ Pass /\ UNCHANGED queues

\* Under the lock.
dispatch ==
    /\ dispatches < MaxMessages /\ ~undefined
    /\ dispatches' = dispatches + 1
    /\ subscription' = LookedUp
    /\ IF LookedUp = "entity"
       THEN DispatchKnown(dispatches + 1) /\ heard' = heard \cup {dispatches + 1}
       ELSE DispatchUnknown(dispatches + 1) /\ UNCHANGED <<heard, swept>>
    /\ UNCHANGED <<wire_scheduler, entity, drain, undefined>>

\* The erase does not wait for the lock: the Mq may be gone when dispatch, having found
\* it, pushes the message.
DispatchToErased ==
    /\ dispatches < MaxMessages /\ ~undefined
    /\ drain.step = "erase"
    /\ LookedUp = "entity" => wire_scheduler # "default"
    /\ dispatches' = dispatches + 1
    /\ subscription' = LookedUp
    /\ undefined' = TRUE
    /\ UNCHANGED <<wire_scheduler, entity, broker, queues, drain, executed, heard, swept, called_ended>>

-----------------------------------------------------------------------------
(* The default scheduler's thread.  The queued action of dispatch looks up  *)
(* the subscription without the lock, takes one message under it, looks     *)
(* whether that was the last one, moves the Mq out and erases what is left  *)
(* of it, all without it again, and invokes what dispatch has put aside for *)
(* another scheduler.                                                       *)

Take(mq) == [mq EXCEPT !.default_messages = IF @ = << >> THEN @ ELSE Tail(@)]

DrainOne ==
    /\ drain = Idle /\ default_actions # << >> /\ ~undefined
    /\ Head(default_actions).kind = "drain"
    /\ subscription' = LookedUp
    /\ IF Head(default_actions).msg # broker.erased
       THEN /\ undefined' = TRUE
            /\ default_actions' = Tail(default_actions)
            /\ Pass /\ UNCHANGED <<broker, drain, own_actions>>
       ELSE /\ broker' = Take(broker)
            /\ drain' = [Idle EXCEPT !.step = "look", !.subscription = LookedUp]
            /\ IF LookedUp = "entity" /\ broker.default_messages # << >>
               THEN IF wire_scheduler = "default"
                    THEN /\ execute(Head(broker.default_messages))
                         /\ default_actions' = Tail(default_actions) /\ UNCHANGED own_actions
                    ELSE invoke(Head(broker.default_messages), Tail(default_actions), LookedUp)
               ELSE Pass /\ default_actions' = Tail(default_actions) /\ UNCHANGED own_actions
            /\ UNCHANGED undefined
    /\ UNCHANGED <<wire_scheduler, dispatches, entity, heard, swept>>

IsLast == broker.default_messages = << >>

Look ==
    /\ drain.step = "look"
    /\ drain' = IF IsLast THEN [drain EXCEPT !.step = "move"] ELSE Idle
    /\ UNCHANGED <<wire_scheduler, dispatches, entity, subscription, broker, queues, outcome>>

\* Variant: what was put aside stays, and goes with the Mq.
MoveDefaultOnly ==
    /\ drain.step = "move"
    /\ drain' = [drain EXCEPT !.step = "erase"]
    /\ broker' = [broker EXCEPT !.default_messages = << >>]
    /\ UNCHANGED <<wire_scheduler, dispatches, entity, subscription, queues, outcome>>

Move ==
    /\ drain.step = "move"
    /\ drain' = [drain EXCEPT !.step = "erase", !.forward = broker.custom_messages]
    /\ broker' = [broker EXCEPT !.default_messages = << >>, !.custom_messages = << >>]
    /\ UNCHANGED <<wire_scheduler, dispatches, entity, subscription, queues, outcome>>

Erase ==
    /\ drain.step = "erase" /\ ~undefined
    /\ drain' = [drain EXCEPT !.step = "forward"]
    /\ broker' = Mq(FALSE, << >>, << >>, broker.erased + 1)
    /\ UNCHANGED <<wire_scheduler, dispatches, entity, subscription, queues, outcome>>

ForwardOne ==
    /\ drain.step = "forward" /\ ~undefined
    /\ IF drain.forward = << >>
       THEN drain' = Idle /\ Pass /\ UNCHANGED <<queues, undefined>>
       ELSE IF drain.subscription # "entity"
       THEN undefined' = TRUE /\ Pass /\ UNCHANGED <<drain, queues>>
       ELSE /\ drain' = [drain EXCEPT !.forward = Tail(@)]
            /\ invoke(Head(drain.forward), default_actions, subscription)
            /\ UNCHANGED undefined
    /\ UNCHANGED <<wire_scheduler, dispatches, entity, subscription, broker, heard, swept>>

Invoked ==
    /\ drain = Idle /\ default_actions # << >> /\ ~undefined
    /\ Head(default_actions).kind = "invoke"
    /\ ExecuteIfKnown(Head(default_actions).msg, subscription)
    /\ default_actions' = Tail(default_actions)
    /\ UNCHANGED <<wire_scheduler, dispatches, entity, subscription, broker, own_actions, drain,
                   heard, swept, undefined>>

\* The program, between two actions.
advise_on ==
    /\ drain = Idle /\ entity = "unadvised"
    /\ entity' = "advised" /\ subscription' = "entity"
    /\ UNCHANGED <<wire_scheduler, dispatches, broker, queues, drain, outcome>>

EndLifetime ==
    /\ drain = Idle /\ entity = "advised"
    /\ entity' = "ended" /\ subscription' = "absent"
    /\ UNCHANGED <<wire_scheduler, dispatches, broker, queues, drain, outcome>>

-----------------------------------------------------------------------------

\* The thread of the entity's own scheduler.
OwnScheduler ==
    /\ own_actions # << >> /\ ~undefined
    /\ ExecuteIfKnown(Head(own_actions), subscription)
    /\ own_actions' = Tail(own_actions)
    /\ UNCHANGED <<wire_scheduler, dispatches, entity, subscription, broker, default_actions, drain,
                   heard, swept, undefined>>

BrokerNext ==
    \/ dispatch \/ DispatchToErased
    \/ DrainOne \/ Look \/ Move \/ Erase \/ ForwardOne \/ Invoked
    \/ advise_on \/ EndLifetime
    \/ OwnScheduler

BrokerSpec == BrokerInit /\ [][BrokerNext]_brokerVars

-----------------------------------------------------------------------------
(* Properties *)

BrokerTypeOK ==
    /\ wire_scheduler \in {"default", "synchronous", "own"}
    /\ dispatches \in Nat
    /\ entity \in {"unadvised", "advised", "ended"}
    /\ subscription \in {"absent", "null", "entity"}
    /\ broker \in [exists : BOOLEAN, default_messages : Seq(BrokerMessage),
                   custom_messages : Seq(BrokerMessage), erased : Nat]
    /\ default_actions \in Seq([kind : {"drain", "invoke"}, msg : Nat])
    /\ own_actions \in Seq(BrokerMessage)
    /\ drain \in [step : {"idle", "look", "move", "erase", "forward"},
                  subscription : {"null", "entity"}, forward : Seq(BrokerMessage)]
    /\ executed \in Seq(BrokerMessage) /\ heard \subseteq BrokerMessage
    /\ swept \subseteq BrokerMessage
    /\ undefined \in BOOLEAN /\ called_ended \in BOOLEAN

\* MessageBroker.cpp:52-124.  An entity on the default scheduler gets its messages
\* in the order they came, whether it was advised before, between or after them.
DispatchedInOrder ==
    wire_scheduler = "default" =>
        \A j, k \in DOMAIN executed : j < k => executed[j] < executed[k]

\* Every message that came while the entity was advised reaches it exactly once:
\* the switch from the messages kept for it to the ones it gets at once, and from one
\* scheduler to another, repeats none, whatever is dispatched meanwhile, and loses
\* none but those that are put aside in a Mq that has been moved out and is about to be
\* erased.
HeardOnce ==
    /\ \A j, k \in DOMAIN executed : executed[j] = executed[k] => j = k
    /\ drain = Idle /\ default_actions = << >> /\ own_actions = << >>
           /\ entity = "advised" /\ ~undefined
       => heard \subseteq ToSet(executed) \cup swept
    /\ wire_scheduler = "default" => swept = {}

\* MessageBroker.cpp:52-124.  Both: what an entity hears is what was dispatched to it.
HeardOnceInOrder == DispatchedInOrder /\ HeardOnce

\* MessageBroker.cpp:25-37.  "Disappeared Handler": the check is there to call no
\* entity that is not subscribed any more.
EndedIsNotCalled == ~called_ended
=============================================================================

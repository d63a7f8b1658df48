------------------------------ MODULE MCRiderLink ------------------------------
(****************************************************************************)
(* The parts of the link to Rider that lie above the wire: the entities of  *)
(* the protocol, the broker that gives them their messages, an extension, a *)
(* call, and the editor's modules.  Each has a module of its own; messages  *)
(* go to one entity by its id, so that the parts do not share state.  A     *)
(* behaviour of this module is a behaviour of one part while the others     *)
(* rest in their initial states.                                            *)
(****************************************************************************)
EXTENDS RdProperty, RdMap, RdList, RdCall, RdExt, RdBroker, RdLifetime, RdScheduler,
        RiderLink

VARIABLE part

\* Settings that a mode stands for, which is 1, and others that none does.
PlainSettings == [PlayMode |-> "InViewPort", NumberOfClients |-> 2,
                  bNetDedicated |-> FALSE, bSpawnAtPlayerStart |-> FALSE]
MCSettings ==
    {PlainSettings,
     [PlainSettings EXCEPT !.PlayMode = "InTargetedMobilePreview", !.NumberOfClients = 6]}

Init ==
    /\ part \in {"property", "call", "ext", "rider", "map", "list", "broker", "lifetime",
                 "scheduler"}
    /\ PropertyInit /\ MapInit /\ ListInit
    /\ CallInit /\ ExtInit /\ BrokerInit
    /\ LifetimeInit /\ SchedulerInit /\ LinkInit
    /\ part # "broker" => wire_scheduler = "default"
    /\ settings = PlainSettings

-----------------------------------------------------------------------------

vars == <<part, propertyVars, callVars, extVars, linkVars, mapVars, listVars, brokerVars,
          lifetimeVars, schedulerVars>>

\* The parts other than p rest.
OthersRest(p) ==
    /\ p # "property" => UNCHANGED propertyVars
    /\ p # "call" => UNCHANGED callVars
    /\ p # "ext" => UNCHANGED extVars
    /\ p # "rider" => UNCHANGED linkVars
    /\ p # "map" => UNCHANGED mapVars
    /\ p # "list" => UNCHANGED listVars
    /\ p # "broker" => UNCHANGED brokerVars
    /\ p # "lifetime" => UNCHANGED lifetimeVars
    /\ p # "scheduler" => UNCHANGED schedulerVars

Of(p, A) == part = p /\ A /\ UNCHANGED part /\ OthersRest(p)

Next ==
    \/ Of("property", PropertyNext)
    \/ Of("call", CallNext)
    \/ Of("ext", ExtNext)
    \/ Of("rider", LinkNext)
    \/ Of("map", MapNext)
    \/ Of("list", ListNext)
    \/ Of("broker", BrokerNext)
    \/ Of("lifetime", LifetimeNext)
    \/ Of("scheduler", SchedulerNext)

\* What the parts state as their fairness, thread by thread, implies this: the threads
\* of a part do not all stop while one of them has something to do.
Fair(p, A) == part = p /\ A

CallGoesOn == Fair("call", \/ \E id \in Ids : sync(id)
                           \/ \E answer \in answers : task_on_wire_received(answer)
                           \/ \E answer \in scheduled : RunScheduled(answer)
                           \/ (\E by \in Setters : Sets(by))
                           \/ CancelTask)
ExtGoesOn == Fair("ext", \E side \in Peers : Bind(side) \/ SendDirect(side) \/ Flush(side)
                                           \/ ext_on_wire_received(side))
LinkGoesOn == Fair("rider", Scheduler \/ Changing \/ RunTask)
SchedulerGoesOn == Fair("scheduler", Worker \/ \E c \in Callers : Calls(c))

\* A flush waits on its own.
Flushes(u) == Fair("scheduler", Flushed(u))

Spec ==
    /\ Init /\ [][Next]_vars
    /\ WF_callVars(CallGoesOn) /\ WF_extVars(ExtGoesOn) /\ WF_linkVars(LinkGoesOn)
    /\ WF_schedulerVars(SchedulerGoesOn)
    /\ \A u \in Users : WF_schedulerVars(Flushes(u))

-----------------------------------------------------------------------------
(* Properties *)

\* Every part's variables have their types.
PartsTypeOK ==
    /\ PropertyTypeOK /\ CallTypeOK /\ ExtTypeOK /\ LinkTypeOK
    /\ MapTypeOK /\ ListTypeOK /\ BrokerTypeOK
    /\ LifetimeTypeOK /\ SchedulerTypeOK
=============================================================================

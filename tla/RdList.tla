-------------------------------- MODULE RdList ---------------------------------
(****************************************************************************)
(* One RdList on both sides of a wire that keeps the order.  Neither side   *)
(* is a master: each counts the changes it has sent and received in one     *)
(* counter, numbers its messages with it, and expects what it receives to   *)
(* have the number it would give next.  An unexpected number is reported by *)
(* a failed assertion; a build without assertions goes on.                  *)
(****************************************************************************)
EXTENDS RdSides, Integers, Sequences, SequencesExt, FiniteSets

CONSTANTS
    Elements,
    MaxOperations    \* bound on the calls that change the list, of both sides

VARIABLES
    list, list_version,    \* on each side
    events_to,             \* the messages on their way to each side
    reported,              \* whether the assertion on the number has failed
    outside,               \* whether an index was outside the list
    operations

listVars == <<list, list_version, events_to, reported, outside, operations>>

ListInit ==
    /\ list = [side \in Peers |-> << >>]
    /\ list_version = [side \in Peers |-> 1]
    /\ events_to = [side \in Peers |-> << >>]
    /\ reported = FALSE /\ outside = FALSE
    /\ operations = 0

-----------------------------------------------------------------------------
(* The events of a ViewableList.  Indices start with 1.  Reverse order and  *)
(* an offset per element are what keeps the indices of one call valid.      *)

Added(i, element) == [op |-> "ADD", index |-> i, value |-> {element}]
Updated(i, element) == [op |-> "UPDATE", index |-> i, value |-> {element}]
Removed(i) == [op |-> "REMOVE", index |-> i, value |-> {}]

add(l) == { <<Added(i, e)>> : i \in 1 .. Len(l) + 1, e \in Elements }
list_set(l) == { <<Updated(i, e)>> : i \in DOMAIN l, e \in Elements }
removeAt(l) == { <<Removed(i)>> : i \in DOMAIN l }
\* Of two different elements.
addAll(l) ==
    UNION { { <<Added(i, d), Added(i + 1, e)>> : e \in Elements \ {d} }
            : i \in 1 .. Len(l) + 1, d \in Elements }

\* Variant: from the first element to the last.
clearForwards(l) == { [i \in DOMAIN l |-> Removed(i)] }

clear(l) == { [i \in DOMAIN l |-> Removed(Len(l) + 1 - i)] }

\* The members of a set of indices, from the last to the first.
Backwards(hit) ==
    { h \in [1 .. Cardinality(hit) -> hit] : \A k \in DOMAIN h : \A j \in 1 .. k - 1 : h[j] > h[k] }

removeAll(l) ==
    UNION { { [k \in DOMAIN h |-> Removed(h[k])] : h \in Backwards({i \in DOMAIN l : l[i] \in gone}) }
            : gone \in SUBSET Elements }

Fits(l, event) == event.index \in 1 .. Len(l) + (IF event.op = "ADD" THEN 1 ELSE 0)

Apply(l, event) ==
    CASE event.op = "ADD" -> InsertAt(l, event.index, CHOOSE e \in event.value : TRUE)
      [] event.op = "UPDATE" -> ReplaceAt(l, event.index, CHOOSE e \in event.value : TRUE)
      [] event.op = "REMOVE" -> RemoveAt(l, event.index)

\* The list after none, one, ..., and all of the events.
Stages(l, events) ==
    LET stage[k \in 0 .. Len(events)] ==
            IF k = 0 THEN l ELSE Apply(stage[k - 1], events[k])
    IN  stage

-----------------------------------------------------------------------------

\* Every change is sent, one message per event, each with a number of its own.
ListChange(side, events) ==
    /\ operations' = operations + 1
    /\ list' = [list EXCEPT ![side] =
                   IF events \in clear(@) THEN << >> ELSE Stages(@, events)[Len(events)]]
    /\ events_to' = [events_to EXCEPT ![Opposite(side)] =
                        @ \o [k \in DOMAIN events |->
                                 [version |-> list_version[side] + k - 1, event |-> events[k]]]]
    /\ list_version' = [list_version EXCEPT ![side] = @ + Len(events)]
    /\ UNCHANGED <<reported, outside>>

EventsOf(l) ==
    add(l) \cup list_set(l) \cup removeAt(l) \cup addAll(l) \cup clear(l) \cup removeAll(l)

Operation(side) ==
    /\ operations < MaxOperations
    /\ \E events \in EventsOf(list[side]) : ListChange(side, events)

Expected(side, version) == version = list_version[side]

list_on_wire_received(side) ==
    /\ events_to[side] # << >> /\ ~outside
    /\ LET message == Head(events_to[side])
           event == message.event
       IN  /\ reported' = (reported \/ ~Expected(side, message.version))
           /\ IF Fits(list[side], event)
              THEN list' = [list EXCEPT ![side] = Apply(@, event)] /\ UNCHANGED outside
              ELSE outside' = TRUE /\ UNCHANGED list
    /\ list_version' = [list_version EXCEPT ![side] = @ + 1]
    /\ events_to' = [events_to EXCEPT ![side] = Tail(@)]
    /\ UNCHANGED operations

ListNext == \E side \in Peers : list_on_wire_received(side) \/ Operation(side)

ListSpec == ListInit /\ [][ListNext]_listVars

-----------------------------------------------------------------------------
(* Properties *)

ListEvent ==
    [op : {"ADD", "UPDATE"}, index : Nat \ {0}, value : {{e} : e \in Elements}]
        \cup [op : {"REMOVE"}, index : Nat \ {0}, value : {{}}]

ListTypeOK ==
    /\ list \in [Peers -> Seq(Elements)]
    /\ list_version \in [Peers -> Nat \ {0}]
    /\ events_to \in [Peers -> Seq([version : Nat, event : ListEvent])]
    /\ reported \in BOOLEAN /\ outside \in BOOLEAN
    /\ operations \in Nat

ListQuiet == \A side \in Peers : events_to[side] = << >>

\* RdList.h:135-139, ViewableList.h:275-287.  Two sides that change a list at
\* the same time are always told: unless the assertion has failed, no index is
\* ever outside the list, and when all messages are received the lists are the same.
\* Nor is a conflict reported for ever: both counters have counted every message
\* by then, and the next change is expected whichever side makes it.
ListsDifferOnlyReported ==
    /\ ~reported => ~outside /\ (ListQuiet => list["server"] = list["client"])
    /\ ListQuiet => list_version["server"] = list_version["client"]
=============================================================================

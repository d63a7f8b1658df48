------------------------------ MODULE RdProperty -------------------------------
(****************************************************************************)
(* One RdProperty on both sides of a wire that keeps the order.  One side   *)
(* is the master: it numbers its changes and rejects what was changed on    *)
(* the other side without knowledge of them.                                *)
(****************************************************************************)
EXTENDS RdSides, Integers, Sequences

CONSTANTS
    Values,
    NoValue,      \* the property before its first set
    MaxSets       \* bound on the calls of set

VARIABLES
    value, master_version,     \* on each side
    under_way,                 \* the messages on their way to each side
    sets

propertyVars == <<value, master_version, under_way, sets>>

is_master(side) == side = "master"

PropertyInit ==
    /\ value = [side \in Sides |-> NoValue]
    /\ master_version = [side \in Sides |-> 0]
    /\ under_way = [side \in Sides |-> << >>]
    /\ sets = 0

\* Property::set of the value it has changes nothing and tells nobody.
set(side, v) ==
    /\ sets < MaxSets
    /\ sets' = sets + 1
    /\ IF v = value[side]
       THEN UNCHANGED <<value, master_version, under_way>>
       ELSE /\ value' = [value EXCEPT ![side] = v]
            /\ master_version' = [master_version EXCEPT
                   ![side] = IF is_master(side) THEN @ + 1 ELSE @]
            /\ under_way' = [under_way EXCEPT
                   ![Other(side)] = Append(@, [version |-> master_version'[side], value |-> v])]

\* Variant: a number seen before is as good as an older one.
RejectedUnlessNewer(side, version) == is_master(side) /\ version <= master_version[side]

Rejected(side, version) == is_master(side) /\ version < master_version[side]

\* What comes from the other side is not sent back.
on_wire_received(side) ==
    /\ under_way[side] # << >>
    /\ LET message == Head(under_way[side])
       IN  IF Rejected(side, message.version)
           THEN UNCHANGED <<value, master_version>>
           ELSE /\ value' = [value EXCEPT ![side] = message.value]
                /\ master_version' = [master_version EXCEPT ![side] = message.version]
    /\ under_way' = [under_way EXCEPT ![side] = Tail(@)]
    /\ UNCHANGED sets

PropertyNext == \E side \in Sides : on_wire_received(side) \/ \E v \in Values : set(side, v)

PropertySpec == PropertyInit /\ [][PropertyNext]_propertyVars

-----------------------------------------------------------------------------
(* Properties *)

Message == [version : Nat, value : Values]

PropertyTypeOK ==
    /\ value \in [Sides -> Values \cup {NoValue}]
    /\ master_version \in [Sides -> Nat]
    /\ under_way \in [Sides -> Seq(Message)]
    /\ sets \in Nat

\* RdPropertyBase.h:80-93, 107-114.  Whatever both sides set, and however the
\* messages cross, when all have been received the two values are the same.
PropertyConverges ==
    (\A side \in Sides : under_way[side] = << >>) => value["master"] = value["slave"]

\* RdPropertyBase.h:107.  A value the master has set and nobody who knows of
\* it has changed is not lost: while it is under way the master keeps it.
MasterKeeps ==
    under_way["slave"] # << >> =>
        value["master"] = under_way["slave"][Len(under_way["slave"])].value
=============================================================================

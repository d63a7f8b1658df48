-------------------------------- MODULE RdMap ----------------------------------
(****************************************************************************)
(* The entry of one key of an RdMap on both sides of a wire that keeps the  *)
(* order.  The master numbers its changes and refuses changes of the key by *)
(* the other side until its own is acknowledged.  The entries of different  *)
(* keys do not affect each other.                                           *)
(****************************************************************************)
EXTENDS RdSides, Integers, Sequences

CONSTANTS
    MapValues,
    Absent,           \* no entry
    MaxMapChanges     \* bound on the calls of set and remove

VARIABLES
    entry,             \* on each side
    map_version,       \* the master's last number
    pendingForAck,     \* the master's number for the key, 0 if there is none
    keyAlive,          \* whether the key that pendingForAck points to still exists
    map_wire,          \* the messages on their way to each side
    again,             \* the master has changed the key again before the acknowledgement
    missed,            \* a look-up has missed the number, because its key was gone
    map_changes

mapVars == <<entry, map_version, pendingForAck, keyAlive, map_wire, again, missed, map_changes>>

Unversioned == 0

MapInit ==
    /\ entry = [side \in Sides |-> Absent]
    /\ map_version = 0 /\ pendingForAck = 0 /\ keyAlive = TRUE
    /\ map_wire = [side \in Sides |-> << >>]
    /\ again = FALSE /\ missed = FALSE
    /\ map_changes = 0

SendMapEvent(side, message) == map_wire' = [map_wire EXCEPT ![Other(side)] = Append(@, message)]

\* pendingForAck holds a pointer to the key: to the one in the entry, or, for
\* remove, to its caller's.  Once the key is gone a look-up may miss it.
IsPending == { found \in BOOLEAN :
                 /\ pendingForAck = 0 => ~found
                 /\ pendingForAck # 0 /\ keyAlive => found }

LookUp(pending) == missed' = (missed \/ (pendingForAck # 0 /\ ~pending))

-----------------------------------------------------------------------------

\* emplace keeps a number that it finds, and the pointer to its key.
Remember(pending, version, new) ==
    /\ pendingForAck' = IF pending THEN pendingForAck ELSE version
    /\ keyAlive' = ((pending => keyAlive) /\ new # Absent)

\* set of a new value, or remove (new = Absent).  Without a change nothing is
\* sent.
MapChange(side, new) ==
    /\ map_changes < MaxMapChanges
    /\ map_changes' = map_changes + 1
    /\ new # entry[side]
    /\ entry' = [entry EXCEPT ![side] = new]
    /\ IF side = "master"
       THEN /\ map_version' = map_version + 1
            /\ \E pending \in IsPending : Remember(pending, map_version + 1, new) /\ LookUp(pending)
            /\ SendMapEvent(side, [kind |-> "change", version |-> map_version + 1, value |-> new])
            /\ again' = (again \/ pendingForAck # 0)
       ELSE /\ SendMapEvent(side, [kind |-> "change", version |-> Unversioned, value |-> new])
            /\ UNCHANGED <<map_version, pendingForAck, keyAlive, again, missed>>

\* Variant: the other side's change is taken whatever is pending.
MayChangeAlways(side, message, pending) == TRUE

MayChange(side, message, pending) ==
    message.version # Unversioned \/ side # "master" \/ ~pending

ReceiveChange(side, message, pending) ==
    /\ entry' = IF MayChange(side, message, pending)
                THEN [entry EXCEPT ![side] = message.value]
                ELSE entry
    /\ LET rest == [map_wire EXCEPT ![side] = Tail(@)]
       IN  map_wire' =
               IF message.version = Unversioned THEN rest
               ELSE [rest EXCEPT ![Other(side)] =
                        Append(@, [kind |-> "ack", version |-> message.version, value |-> Absent])]
    /\ UNCHANGED pendingForAck

ReceiveAck(message, pending) ==
    /\ pendingForAck' = IF pending /\ message.version = pendingForAck THEN 0 ELSE pendingForAck
    /\ map_wire' = [map_wire EXCEPT !["master"] = Tail(@)]
    /\ UNCHANGED entry

map_on_wire_received(side) ==
    /\ map_wire[side] # << >>
    /\ LET message == Head(map_wire[side])
       IN  IF side = "master"
           THEN \E pending \in IsPending :
                    /\ LookUp(pending)
                    /\ IF message.kind = "ack"
                       THEN ReceiveAck(message, pending)
                       ELSE ReceiveChange(side, message, pending)
           ELSE ReceiveChange(side, message, FALSE) /\ UNCHANGED missed
    /\ UNCHANGED <<map_version, keyAlive, again, map_changes>>

MapNext ==
    \E side \in Sides :
        map_on_wire_received(side) \/ \E new \in MapValues \cup {Absent} : MapChange(side, new)

MapSpec == MapInit /\ [][MapNext]_mapVars

-----------------------------------------------------------------------------
(* Properties *)

MapMessage == [kind : {"change", "ack"}, version : Nat, value : MapValues \cup {Absent}]

MapTypeOK ==
    /\ entry \in [Sides -> MapValues \cup {Absent}]
    /\ map_version \in Nat /\ pendingForAck \in Nat /\ keyAlive \in BOOLEAN
    /\ map_wire \in [Sides -> Seq(MapMessage)]
    /\ again \in BOOLEAN /\ missed \in BOOLEAN
    /\ map_changes \in Nat

MapQuiet == \A side \in Sides : map_wire[side] = << >>

\* RdMap.h:98-106, 150-178, 208-226.  When all messages have been received, and no
\* look-up has missed a key that was gone, no number is left that would close the
\* key to the other side, and both sides have the same entry, provided the master
\* changed it only when nothing was pending for it.
MapConverges ==
    MapQuiet /\ ~missed => /\ pendingForAck = 0
                           /\ ~again => entry["master"] = entry["slave"]
=============================================================================

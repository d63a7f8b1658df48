---------------------------- MODULE RdEntityProofs -----------------------------
(****************************************************************************)
(* Theorems about the entities that both sides of a wire have: properties,  *)
(* maps, lists and extensions.                                              *)
(****************************************************************************)
EXTENDS RdProperty, RdMap, RdList, RdExt, SequenceTheorems, FiniteSetTheorems,
        WellFoundedInduction, TLAPS

-----------------------------------------------------------------------------
(* RdProperty converges for any values and any number of sets.  The point   *)
(* is who has the last word: as long as a change of the master is under     *)
(* way, what comes from the slave is too old; when none is, the last of     *)
(* the slave's changes that the master will take is the slave's value.      *)

down == under_way["slave"]
up == under_way["master"]

\* The master counts the changes it has sent, the slave those it has received.
PropertyCounted ==
    /\ master_version["master"] = master_version["slave"] + Len(down)
    /\ \A i \in 1 .. Len(down) : down[i].version = master_version["slave"] + i

\* What the slave has sent it has sent in knowledge of what it knows now, or less.
NotAhead == \A j \in 1 .. Len(up) : up[j].version <= master_version["slave"]

\* The changes of the slave that know all of the master's.
Newest == { j \in 1 .. Len(up) : up[j].version = master_version["slave"] }

\* Without a change of the master under way the slave has the last word.
SlaveKeeps ==
    down = << >> =>
        IF Newest = {}
        THEN value["master"] = value["slave"]
        ELSE Len(up) \in Newest /\ up[Len(up)].value = value["slave"]

PropertyInv == PropertyTypeOK /\ PropertyCounted /\ NotAhead /\ MasterKeeps /\ SlaveKeeps

-----------------------------------------------------------------------------

\* The invariant holds before anybody has set the property.
LEMMA PropertyInvInit == PropertyInit => PropertyInv
  <1> SUFFICES ASSUME PropertyInit PROVE PropertyInv
    OBVIOUS
  <1> USE DEF PropertyInit, Sides, down, up
  <1>1. PropertyTypeOK
    BY DEF PropertyTypeOK, Message
  <1>2. PropertyCounted /\ NotAhead /\ MasterKeeps /\ SlaveKeeps
    BY DEF PropertyCounted, NotAhead, MasterKeeps, SlaveKeeps, Newest
  <1> QED BY <1>1, <1>2 DEF PropertyInv

\* A step keeps the types.
LEMMA PropertyTypeStep ==
    ASSUME PropertyTypeOK, PropertyNext
    PROVE  PropertyTypeOK'
  <1> USE DEF PropertyTypeOK, Sides
  <1>1. ASSUME NEW side \in Sides, on_wire_received(side)
        PROVE  PropertyTypeOK'
    <2> DEFINE m == Head(under_way[side])
               rest == Tail(under_way[side])
    <2>1. m \in Message /\ rest \in Seq(Message)
      <3>1. under_way[side] \in Seq(Message) /\ under_way[side] # << >>
        BY <1>1 DEF on_wire_received
      <3> HIDE DEF Sides
      <3> QED BY <3>1
    <2>2. m.version \in Nat /\ m.value \in Values
      BY <2>1 DEF Message
    <2>3. /\ under_way' = [under_way EXCEPT ![side] = rest] /\ sets' = sets
          /\ \/ value' = value /\ master_version' = master_version
             \/ /\ value' = [value EXCEPT ![side] = m.value]
                /\ master_version' = [master_version EXCEPT ![side] = m.version]
      BY <1>1 DEF on_wire_received
    <2> HIDE DEF m, rest
    <2>4. value' \in [Sides -> Values \cup {NoValue}] /\ master_version' \in [Sides -> Nat]
      BY <2>2, <2>3
    <2>5. under_way' \in [Sides -> Seq(Message)]
      BY <2>1, <2>3
    <2> QED BY <2>3, <2>4, <2>5
  <1>2. ASSUME NEW side \in Sides, NEW v \in Values, set(side, v)
        PROVE  PropertyTypeOK'
    <2> DEFINE m == [version |-> master_version'[side], value |-> v]
    <2>1. CASE v = value[side]
      BY <1>2, <2>1 DEF set
    <2>2. CASE v # value[side]
      <3>1. /\ value' = [value EXCEPT ![side] = v] /\ sets' = sets + 1
            /\ master_version' = [master_version EXCEPT ![side] =
                                     IF is_master(side) THEN @ + 1 ELSE @]
            /\ under_way' = [under_way EXCEPT ![Other(side)] = Append(@, m)]
        BY <1>2, <2>2 DEF set
      <3>2. value' \in [Sides -> Values \cup {NoValue}] /\ master_version' \in [Sides -> Nat]
        BY <3>1
      <3>3. m \in Message
        BY <3>2 DEF Message
      <3>4. Other(side) \in Sides
        BY DEF Other
      <3> HIDE DEF m
      <3>5. Append(under_way[Other(side)], m) \in Seq(Message)
        <4>1. under_way[Other(side)] \in Seq(Message)
          BY <3>4
        <4> HIDE DEF Sides
        <4> QED BY <4>1, <3>3
      <3>6. under_way' \in [Sides -> Seq(Message)]
        BY <3>1, <3>4, <3>5
      <3> QED BY <3>1, <3>2, <3>6
    <2> QED BY <2>1, <2>2
  <1> QED BY <1>1, <1>2 DEF PropertyNext

\* A new value of the master is the last change under way to the slave.
LEMMA MasterSets ==
    ASSUME PropertyInv, NEW v \in Values, set("master", v), v # value["master"]
    PROVE  (PropertyCounted /\ NotAhead /\ MasterKeeps /\ SlaveKeeps)'
  <1> USE DEF Sides, Other, is_master, down, up
  <1> DEFINE m == [version |-> master_version["master"] + 1, value |-> v]
  <1>1. /\ down \in Seq(Message) /\ m \in Message
        /\ master_version["master"] \in Nat /\ master_version["slave"] \in Nat
        /\ value \in [Sides -> Values \cup {NoValue}]
    BY DEF PropertyInv, PropertyTypeOK, Message
  <1>2. /\ down' = Append(down, m) /\ up' = up
        /\ master_version'["master"] = master_version["master"] + 1
        /\ master_version'["slave"] = master_version["slave"]
        /\ value'["master"] = v
    BY <1>1 DEF set, PropertyInv, PropertyTypeOK
  <1>3. /\ Len(down') = Len(down) + 1
        /\ \A i \in 1 .. Len(down) : down'[i] = down[i]
        /\ down'[Len(down) + 1] = m
    BY <1>1, <1>2
  <1> HIDE DEF down, up, m
  <1>4. PropertyCounted'
    BY <1>1, <1>2, <1>3 DEF PropertyInv, PropertyCounted, m
  <1>5. NotAhead'
    BY <1>2 DEF PropertyInv, NotAhead
  <1>6. MasterKeeps'
    BY <1>1, <1>2, <1>3 DEF MasterKeeps, m, down
  <1>7. SlaveKeeps'
    BY <1>1, <1>3 DEF SlaveKeeps
  <1> QED BY <1>4, <1>5, <1>6, <1>7

\* A new value of the slave is the last change the master will take.
LEMMA SlaveSets ==
    ASSUME PropertyInv, NEW v \in Values, set("slave", v), v # value["slave"]
    PROVE  (PropertyCounted /\ NotAhead /\ MasterKeeps /\ SlaveKeeps)'
  <1> USE DEF Sides, Other, is_master, down, up
  <1> DEFINE m == [version |-> master_version["slave"], value |-> v]
  <1>1. /\ up \in Seq(Message) /\ m \in Message
        /\ master_version["master"] \in Nat /\ master_version["slave"] \in Nat
    BY DEF PropertyInv, PropertyTypeOK, Message
  <1>2. /\ up' = Append(up, m) /\ down' = down
        /\ master_version'["master"] = master_version["master"]
        /\ master_version'["slave"] = master_version["slave"]
        /\ value'["master"] = value["master"] /\ value'["slave"] = v
    BY <1>1 DEF set, PropertyInv, PropertyTypeOK
  <1>3. /\ Len(up') = Len(up) + 1
        /\ \A i \in 1 .. Len(up) : up'[i] = up[i]
        /\ up'[Len(up) + 1] = m
    BY <1>1, <1>2
  <1>4. MasterKeeps'
    BY <1>2 DEF PropertyInv, MasterKeeps
  <1> HIDE DEF down, up, m
  <1>5. PropertyCounted'
    BY <1>2 DEF PropertyInv, PropertyCounted
  <1>6. NotAhead'
    BY <1>1, <1>2, <1>3 DEF PropertyInv, NotAhead, m
  <1>7. SlaveKeeps'
    <2>1. Len(up') \in Newest'
      BY <1>1, <1>2, <1>3 DEF Newest, m
    <2> QED BY <1>1, <1>2, <1>3, <2>1 DEF SlaveKeeps, m
  <1> QED BY <1>4, <1>5, <1>6, <1>7

\* The master takes a change of the slave only if it knows all of the master's own.
LEMMA MasterReceives ==
    ASSUME PropertyInv, on_wire_received("master")
    PROVE  (PropertyCounted /\ NotAhead /\ MasterKeeps /\ SlaveKeeps)'
  <1> USE DEF Sides, is_master, down, up
  <1> DEFINE m == Head(up)
  <1>1. /\ up \in Seq(Message) /\ up # << >> /\ down \in Seq(Message)
        /\ master_version["master"] \in Nat /\ master_version["slave"] \in Nat
        /\ value \in [Sides -> Values \cup {NoValue}]
        /\ master_version \in [Sides -> Nat]
    BY DEF PropertyInv, PropertyTypeOK, on_wire_received
  <1>2. /\ up' = Tail(up) /\ down' = down
        /\ IF m.version < master_version["master"]
           THEN value' = value /\ master_version' = master_version
           ELSE /\ value' = [value EXCEPT !["master"] = m.value]
                /\ master_version' = [master_version EXCEPT !["master"] = m.version]
    BY DEF on_wire_received, Rejected, PropertyInv, PropertyTypeOK
  <1>3. /\ Len(up) \in Nat \ {0} /\ Len(up') = Len(up) - 1
        /\ \A i \in 1 .. Len(up') : up'[i] = up[i + 1]
        /\ m = up[1] /\ m.version \in Nat
    <2>1. up' = Tail(up) /\ m = Head(up)
      BY <1>2
    <2> HIDE DEF m, up
    <2>2. /\ Len(up) \in Nat \ {0} /\ Len(up') = Len(up) - 1
          /\ \A i \in 1 .. Len(up') : up'[i] = up[i + 1]
          /\ m = up[1] /\ m \in Message
      BY <1>1, <2>1
    <2> QED BY <2>2 DEF Message
  <1>4. m.version <= master_version["slave"]
    BY <1>3 DEF PropertyInv, NotAhead
  <1>5. master_version' = master_version
    <2>1. m.version >= master_version["master"] => m.version = master_version["master"]
      BY <1>1, <1>3, <1>4 DEF PropertyInv, PropertyCounted
    <2> QED BY <1>1, <1>2, <1>3, <2>1
  <1>6. value'["slave"] = value["slave"]
    BY <1>1, <1>2
  <1>7. MasterKeeps'
    <2>1. down # << >> => value' = value
      BY <1>1, <1>2, <1>3, <1>4 DEF PropertyInv, PropertyCounted
    <2> QED BY <1>2, <2>1 DEF PropertyInv, MasterKeeps
  <1>8. PropertyCounted'
    BY <1>2, <1>5 DEF PropertyInv, PropertyCounted
  <1> HIDE DEF down, up
  <1>9. NotAhead'
    <2> SUFFICES ASSUME NEW j \in 1 .. Len(up') PROVE up'[j].version <= master_version'["slave"]
      BY DEF NotAhead
    <2>1. j + 1 \in 1 .. Len(up) /\ up'[j] = up[j + 1]
      BY <1>3
    <2> QED BY <1>5, <2>1 DEF PropertyInv, NotAhead
  <1>10. SlaveKeeps'
    <2> SUFFICES ASSUME down = << >>
                 PROVE  IF Newest' = {}
                        THEN value'["master"] = value["slave"]
                        ELSE Len(up') \in Newest' /\ up'[Len(up')].value = value["slave"]
      BY <1>2, <1>6 DEF SlaveKeeps
    <2>1. master_version["master"] = master_version["slave"]
      BY <1>1 DEF PropertyInv, PropertyCounted
    <2>2. Newest' = { j \in 1 .. Len(up') : j + 1 \in Newest }
      BY <1>3, <1>5 DEF Newest
    <2>3. CASE Newest = {}
      <3>1. m.version # master_version["slave"]
        BY <1>3, <2>3 DEF Newest
      <3>2. value' = value
        BY <1>1, <1>2, <1>3, <1>4, <2>1, <3>1
      <3> QED BY <2>2, <2>3, <3>2 DEF PropertyInv, SlaveKeeps
    <2>4. CASE Newest # {} /\ Len(up) = 1
      <3>1. 1 \in Newest /\ m.value = value["slave"]
        BY <1>3, <2>4 DEF PropertyInv, SlaveKeeps
      <3>2. value'["master"] = m.value
        BY <1>1, <1>2, <1>3, <2>1, <3>1 DEF Newest
      <3> QED BY <1>3, <2>2, <2>4, <3>1, <3>2
    <2>5. CASE Newest # {} /\ Len(up) # 1
      <3>1. Len(up) \in Newest /\ up[Len(up)].value = value["slave"]
        BY <2>5 DEF PropertyInv, SlaveKeeps
      <3>2. Len(up') \in 1 .. Len(up') /\ Len(up') + 1 = Len(up)
        BY <1>3, <2>5
      <3> QED BY <1>3, <2>2, <3>1, <3>2
    <2> QED BY <2>3, <2>4, <2>5
  <1> QED BY <1>7, <1>8, <1>9, <1>10

\* The slave takes every change of the master; with the last one it has its value.
LEMMA SlaveReceives ==
    ASSUME PropertyInv, on_wire_received("slave")
    PROVE  (PropertyCounted /\ NotAhead /\ MasterKeeps /\ SlaveKeeps)'
  <1> USE DEF Sides, is_master, down, up
  <1> DEFINE m == Head(down)
  <1>1. /\ down \in Seq(Message) /\ down # << >> /\ up \in Seq(Message)
        /\ master_version["master"] \in Nat /\ master_version["slave"] \in Nat
        /\ value \in [Sides -> Values \cup {NoValue}]
        /\ master_version \in [Sides -> Nat]
    BY DEF PropertyInv, PropertyTypeOK, on_wire_received
  <1>2. /\ down' = Tail(down) /\ up' = up
        /\ value' = [value EXCEPT !["slave"] = m.value]
        /\ master_version' = [master_version EXCEPT !["slave"] = m.version]
    BY DEF on_wire_received, Rejected, PropertyInv, PropertyTypeOK
  <1>3. /\ Len(down) \in Nat \ {0} /\ Len(down') = Len(down) - 1
        /\ \A i \in 1 .. Len(down') : down'[i] = down[i + 1]
        /\ m = down[1]
    BY <1>1, <1>2
  <1>4. /\ master_version'["slave"] = master_version["slave"] + 1
        /\ master_version'["master"] = master_version["master"]
        /\ value'["slave"] = m.value /\ value'["master"] = value["master"]
    BY <1>1, <1>2, <1>3 DEF PropertyInv, PropertyCounted
  <1>5. MasterKeeps'
    <2>1. value["master"] = down[Len(down)].value
      BY <1>1 DEF PropertyInv, MasterKeeps
    <2>2. down' # << >> => Len(down') \in 1 .. Len(down')
      BY <1>1, <1>2, <1>3
    <2>3. ASSUME down' # << >> PROVE down'[Len(down')].value = value'["master"]
      <3>1. down'[Len(down')] = down[Len(down') + 1] /\ Len(down') + 1 = Len(down)
        BY <1>3, <2>2, <2>3
      <3> QED
        BY <1>4, <2>1, <3>1
    <2> QED BY <2>3 DEF MasterKeeps
  <1>6. down' = << >> => Len(down) = 1
    <2> SUFFICES ASSUME down' = << >> PROVE Len(down') = 0
      BY <1>3
    <2> QED OBVIOUS
  <1>7. value["master"] = down[Len(down)].value
    BY <1>1 DEF PropertyInv, MasterKeeps
  <1> HIDE DEF down, up
  <1>8. PropertyCounted'
    <2>1. /\ master_version["master"] = master_version["slave"] + Len(down)
          /\ \A i \in 1 .. Len(down) : down[i].version = master_version["slave"] + i
      BY DEF PropertyInv, PropertyCounted
    <2>2. \A i \in 1 .. Len(down') : down'[i].version = master_version["slave"] + i + 1
      <3> TAKE i \in 1 .. Len(down')
      <3>1. i + 1 \in 1 .. Len(down) /\ down'[i] = down[i + 1] /\ i \in Nat
        BY <1>3
      <3> QED BY <1>1, <2>1, <3>1
    <2>3. master_version'["master"] = master_version'["slave"] + Len(down')
      BY <1>1, <1>3, <1>4, <2>1
    <2>4. \A i \in 1 .. Len(down') : down'[i].version = master_version'["slave"] + i
      BY <1>1, <1>3, <1>4, <2>2
    <2> QED BY <2>3, <2>4 DEF PropertyCounted
  <1>9. \A j \in 1 .. Len(up') : up'[j].version <= master_version["slave"] /\ up'[j].version \in Nat
    <2>1. up' = up
      BY <1>2
    <2> SUFFICES ASSUME NEW j \in 1 .. Len(up)
                 PROVE  up[j].version <= master_version["slave"] /\ up[j].version \in Nat
      BY <2>1
    <2>2. up[j] \in Message
      BY <1>1
    <2> QED BY <2>2 DEF PropertyInv, NotAhead, Message
  <1>10. NotAhead'
    BY <1>1, <1>4, <1>9 DEF NotAhead
  <1>11. SlaveKeeps'
    <2>1. Newest' = {}
      BY <1>1, <1>4, <1>9 DEF Newest
    <2> QED BY <1>3, <1>4, <1>6, <1>7, <2>1 DEF SlaveKeeps
  <1> QED BY <1>5, <1>8, <1>10, <1>11

\* A set without effect keeps everything.
LEMMA NothingSet ==
    ASSUME PropertyInv, NEW side \in Sides, NEW v \in Values, set(side, v), v = value[side]
    PROVE  (PropertyCounted /\ NotAhead /\ MasterKeeps /\ SlaveKeeps)'
  BY DEF set, PropertyInv, PropertyCounted, NotAhead, MasterKeeps, SlaveKeeps, Newest, down, up

\* So the invariant is inductive.
LEMMA PropertyInvStep == PropertyInv /\ [PropertyNext]_propertyVars => PropertyInv'
  <1> SUFFICES ASSUME PropertyInv, [PropertyNext]_propertyVars PROVE PropertyInv'
    OBVIOUS
  <1>1. CASE UNCHANGED propertyVars
    BY <1>1 DEF propertyVars, PropertyInv, PropertyTypeOK, PropertyCounted, NotAhead, MasterKeeps, SlaveKeeps, Newest, down, up
  <1>2. CASE PropertyNext
    <2>1. PropertyTypeOK'
      BY <1>2, PropertyTypeStep DEF PropertyInv
    <2>2. ASSUME NEW side \in Sides, on_wire_received(side)
          PROVE  (PropertyCounted /\ NotAhead /\ MasterKeeps /\ SlaveKeeps)'
      BY <2>2, MasterReceives, SlaveReceives DEF Sides
    <2>3. ASSUME NEW side \in Sides, NEW v \in Values, set(side, v)
          PROVE  (PropertyCounted /\ NotAhead /\ MasterKeeps /\ SlaveKeeps)'
      BY <2>3, MasterSets, SlaveSets, NothingSet DEF Sides
    <2> QED BY <1>2, <2>1, <2>2, <2>3 DEF PropertyNext, PropertyInv
  <1> QED BY <1>1, <1>2

LEMMA PropertyInvariant == PropertySpec => []PropertyInv
  BY PropertyInvInit, PropertyInvStep, PTL DEF PropertySpec

-----------------------------------------------------------------------------

\* RdPropertyBase.h:80-93.  Versions are numbers and messages carry values.
THEOREM PropertyTypeCorrect == PropertySpec => []PropertyTypeOK
  <1>1. PropertyInv => PropertyTypeOK
    BY DEF PropertyInv
  <1> QED BY <1>1, PropertyInvariant, PTL

\* RdPropertyBase.h:80-93, 107-114.  Both sides end up with the same value, however
\* many changes cross.
THEOREM Converges == PropertySpec => []PropertyConverges
  <1>1. PropertyInv => PropertyConverges
    <2> SUFFICES ASSUME PropertyInv, down = << >>, up = << >>
                 PROVE  value["master"] = value["slave"]
      BY DEF PropertyConverges, down, up, Sides
    <2>1. Newest = {}
      BY DEF Newest
    <2> QED BY <2>1 DEF PropertyInv, SlaveKeeps
  <1> QED BY <1>1, PropertyInvariant, PTL

\* RdPropertyBase.h:107.  The master keeps what it has set while the other side has
\* not heard of it.
THEOREM MasterIsKept == PropertySpec => []MasterKeeps
  <1>1. PropertyInv => MasterKeeps
    BY DEF PropertyInv
  <1> QED BY <1>1, PropertyInvariant, PTL

-----------------------------------------------------------------------------
(* Both sides of an RdMap agree on the entry of a key, for any values and   *)
(* any number of changes.  The point is that the master's number stays      *)
(* until its message has gone to the other side and the acknowledgement has *)
(* come back, and that on an ordered wire the changes of the other side     *)
(* that come after the acknowledgement are the ones made after the          *)
(* master's change was taken.                                               *)

toSlave == map_wire["slave"]
toMaster == map_wire["master"]

\* What is under way to each side.
MapWires ==
    /\ \A i \in 1 .. Len(toSlave) :
           toSlave[i].kind = "change" /\ toSlave[i].version # 0
    /\ \A i \in 1 .. Len(toMaster) :
           toMaster[i].kind = "change" <=> toMaster[i].version = 0

\* The master's number, or its acknowledgement, is under way.
NumberUnderWay ==
    pendingForAck # 0 /\ ~missed =>
        \/ \E i \in 1 .. Len(toSlave) : toSlave[i].version = pendingForAck
        \/ \E i \in 1 .. Len(toMaster) : toMaster[i].version = pendingForAck

\* The one change of the master that is not acknowledged.
OneChange ==
    ~again /\ ~missed =>
        /\ \A i, j \in 1 .. Len(toMaster) :
               /\ toMaster[i].version # 0 =>
                      toMaster[i].version = pendingForAck /\ toSlave = << >>
               /\ toMaster[i].version # 0 /\ toMaster[j].version # 0 => i = j
        /\ toSlave # << >> =>
               /\ Len(toSlave) = 1
               /\ toSlave[1].version = pendingForAck
               /\ toSlave[1].value = entry["master"]

\* Once it is taken, the last message to the master tells it the other side's entry.
LastTells ==
    ~again /\ ~missed /\ toSlave = << >> =>
        LET n == Len(toMaster)
        IN  IF n # 0 /\ toMaster[n].version = 0
            THEN toMaster[n].value = entry["slave"]
            ELSE entry["master"] = entry["slave"]

MapInv == MapTypeOK /\ MapWires /\ NumberUnderWay /\ OneChange /\ LastTells

-----------------------------------------------------------------------------

\* The two sides are each other's other side.
LEMMA OtherSide == Sides = {"master", "slave"} /\ Other("master") = "slave" /\ Other("slave") = "master"
  BY DEF Sides, Other

\* What a message adds to a wire, and what taking one leaves.
LEMMA WireLonger ==
    ASSUME NEW w \in Seq(MapMessage), NEW message \in MapMessage
    PROVE  LET new == Append(w, message)
           IN  /\ new \in Seq(MapMessage) /\ Len(new) = Len(w) + 1 /\ Len(w) \in Nat /\ new # << >>
               /\ new[Len(w) + 1] = message /\ \A i \in 1 .. Len(w) : new[i] = w[i]
               /\ \A i \in 1 .. Len(w) + 1 : i \in 1 .. Len(w) \/ i = Len(w) + 1
  <1>1. Append(w, message) # << >>
    BY AppendProperties
  <1>2. Len(w) \in Nat
    OBVIOUS
  <1> QED BY <1>1, <1>2, AppendProperties

LEMMA WireShorter ==
    ASSUME NEW w \in Seq(MapMessage), w # << >>
    PROVE  LET rest == Tail(w)
           IN  /\ rest \in Seq(MapMessage) /\ Len(rest) \in Nat /\ Len(w) = Len(rest) + 1
               /\ Head(w) = w[1] /\ Head(w) \in MapMessage
               /\ 1 \in 1 .. Len(w)
               /\ \A i \in 1 .. Len(rest) : rest[i] = w[i + 1] /\ i + 1 \in 1 .. Len(w)
               /\ \A i \in 1 .. Len(w) : i = 1 \/ (i - 1 \in 1 .. Len(rest) /\ rest[i - 1] = w[i])
  <1>1. /\ Tail(w) \in Seq(MapMessage) /\ Len(Tail(w)) = Len(w) - 1 /\ Head(w) \in MapMessage
        /\ \A i \in 1 .. Len(Tail(w)) : Tail(w)[i] = w[i + 1]
    BY HeadTailProperties
  <1>2. Len(w) \in Nat /\ Len(w) # 0 /\ Head(w) = w[1]
    BY EmptySeq
  <1> DEFINE n == Len(w)
             m == Len(Tail(w))
  <1>3. m = n - 1 /\ n \in Nat /\ n # 0
    BY <1>1, <1>2
  <1>4. \A i \in 1 .. m : Tail(w)[i] = w[i + 1]
    BY <1>1
  <1> HIDE DEF n, m
  <1>5. /\ m \in Nat /\ n = m + 1 /\ 1 \in 1 .. n
        /\ \A i \in 1 .. m : i + 1 \in 1 .. n
        /\ \A i \in 1 .. n : i = 1 \/ (i - 1 \in 1 .. m /\ (i - 1) + 1 = i)
    BY <1>3
  <1>6. \A i \in 1 .. n : i = 1 \/ (i - 1 \in 1 .. m /\ Tail(w)[i - 1] = w[i])
    BY <1>4, <1>5
  <1> QED BY <1>1, <1>2, <1>4, <1>5, <1>6 DEF n, m

\* Nothing has happened at first.
LEMMA MapInvInit == MapInit => MapInv
  <1> SUFFICES ASSUME MapInit PROVE MapInv
    OBVIOUS
  <1>1. toSlave = << >> /\ toMaster = << >> /\ Len(toSlave) = 0 /\ Len(toMaster) = 0
    BY OtherSide DEF MapInit, toSlave, toMaster
  <1>2. MapTypeOK
    BY EmptySeq DEF MapInit, MapTypeOK
  <1>3. entry["master"] = entry["slave"] /\ pendingForAck = 0
    BY OtherSide DEF MapInit
  <1> QED BY <1>1, <1>2, <1>3 DEF MapInv, MapWires, NumberUnderWay, OneChange, LastTells

\* The master changes its entry, and remembers the number unless there is one.
LEMMA MasterChanges ==
    ASSUME MapInv, NEW new \in MapValues \cup {Absent}, MapChange("master", new)
    PROVE  MapInv'
  <1> DEFINE v == map_version + 1
             message == [kind |-> "change", version |-> v, value |-> new]
  <1>1. v \in Nat /\ v # 0 /\ message \in MapMessage
    BY DEF MapInv, MapTypeOK, MapMessage
  <1>2. toSlave \in Seq(MapMessage) /\ toMaster \in Seq(MapMessage)
    BY OtherSide DEF MapInv, MapTypeOK, toSlave, toMaster
  <1>3. PICK pending \in IsPending : Remember(pending, v, new) /\ LookUp(pending)
    BY DEF MapChange
  <1>4. /\ toSlave' = Append(toSlave, message) /\ toMaster' = toMaster
        /\ entry' = [entry EXCEPT !["master"] = new]
        /\ entry'["master"] = new /\ entry'["slave"] = entry["slave"]
        /\ map_version' = v
    BY OtherSide DEF MapChange, SendMapEvent, MapInv, MapTypeOK, toSlave, toMaster
  <1>5. again' = (again \/ pendingForAck # 0) /\ map_changes' \in Nat
    BY DEF MapChange, MapInv, MapTypeOK
  <1>6. MapTypeOK'
    <2>1. map_wire' \in [Sides -> Seq(MapMessage)]
      <3>1. map_wire' = [map_wire EXCEPT !["slave"] = Append(toSlave, message)]
        BY OtherSide DEF MapChange, SendMapEvent, MapInv, MapTypeOK, toSlave
      <3>2. Append(toSlave, message) \in Seq(MapMessage)
        BY <1>1, <1>2, WireLonger
      <3> QED BY <3>1, <3>2 DEF MapInv, MapTypeOK
    <2>2. entry' \in [Sides -> MapValues \cup {Absent}]
      BY <1>4 DEF MapInv, MapTypeOK
    <2>3. pendingForAck' \in Nat /\ keyAlive' \in BOOLEAN /\ missed' \in BOOLEAN
      BY <1>1, <1>3 DEF Remember, LookUp, IsPending, MapInv, MapTypeOK
    <2> QED BY <1>1, <1>4, <1>5, <2>1, <2>2, <2>3 DEF MapInv, MapTypeOK
  <1> HIDE DEF v, message
  <1>7. message.kind = "change" /\ message.version = v /\ message.value = new
    BY DEF message
  <1>8. /\ Len(toSlave') = Len(toSlave) + 1 /\ Len(toSlave) \in Nat /\ toSlave' # << >>
        /\ toSlave'[Len(toSlave) + 1] = message
        /\ \A i \in 1 .. Len(toSlave) : toSlave'[i] = toSlave[i]
        /\ \A i \in 1 .. Len(toSlave) + 1 : i \in 1 .. Len(toSlave) \/ i = Len(toSlave) + 1
    BY <1>1, <1>2, <1>4, WireLonger
  <1>9. MapWires'
    BY <1>1, <1>4, <1>7, <1>8 DEF MapInv, MapWires
  <1>10. NumberUnderWay'
    <2> SUFFICES ASSUME pendingForAck' # 0, ~missed' PROVE NumberUnderWay'
      BY DEF NumberUnderWay
    <2>1. ~missed
      BY <1>3 DEF LookUp
    <2>2. CASE pending
      <3>1. pendingForAck' = pendingForAck
        BY <1>3, <2>2 DEF Remember
      <3>2. \A i \in 1 .. Len(toSlave) : i \in 1 .. Len(toSlave')
        BY <1>8
      <3> QED BY <1>4, <1>8, <2>1, <3>1, <3>2 DEF MapInv, NumberUnderWay
    <2>3. CASE ~pending
      <3>1. pendingForAck' = v
        BY <1>3, <2>3 DEF Remember
      <3>2. Len(toSlave) + 1 \in 1 .. Len(toSlave')
        BY <1>8
      <3> QED BY <1>7, <1>8, <3>1, <3>2 DEF NumberUnderWay
    <2> QED BY <2>2, <2>3
  <1>11. OneChange'
    <2> SUFFICES ASSUME ~again', ~missed' PROVE OneChange'
      BY DEF OneChange
    <2>1. ~again /\ pendingForAck = 0 /\ ~missed
      BY <1>3, <1>5 DEF LookUp
    <2>2. ~pending /\ pendingForAck' = v
      BY <1>3, <2>1 DEF IsPending, Remember
    <2>3. \A i \in 1 .. Len(toMaster) : toMaster[i].version = 0
      BY <2>1 DEF MapInv, OneChange
    <2>4. toSlave = << >>
      <3> SUFFICES ASSUME toSlave # << >> PROVE FALSE
        OBVIOUS
      <3>1. Len(toSlave) = 1 /\ toSlave[1].version = 0
        BY <2>1 DEF MapInv, OneChange
      <3> QED BY <3>1 DEF MapInv, MapWires
    <2>5. Len(toSlave) = 0
      BY <2>4
    <2>6. Len(toSlave') = 1 /\ toSlave'[1] = message
      BY <1>8, <2>5
    <2> QED BY <1>4, <1>7, <2>2, <2>3, <2>6 DEF OneChange
  <1>12. LastTells'
    BY <1>8 DEF LastTells
  <1> QED BY <1>6, <1>9, <1>10, <1>11, <1>12 DEF MapInv

\* The other side changes its entry, and tells the master.
LEMMA SlaveChanges ==
    ASSUME MapInv, NEW new \in MapValues \cup {Absent}, MapChange("slave", new)
    PROVE  MapInv'
  <1> DEFINE message == [kind |-> "change", version |-> 0, value |-> new]
  <1>1. message \in MapMessage
    BY DEF MapMessage
  <1>2. toSlave \in Seq(MapMessage) /\ toMaster \in Seq(MapMessage)
    BY OtherSide DEF MapInv, MapTypeOK, toSlave, toMaster
  <1>3. /\ toMaster' = Append(toMaster, message) /\ toSlave' = toSlave
        /\ entry' = [entry EXCEPT !["slave"] = new]
        /\ entry'["slave"] = new /\ entry'["master"] = entry["master"]
        /\ UNCHANGED <<map_version, pendingForAck, keyAlive, again, missed>> /\ map_changes' \in Nat
    BY OtherSide DEF MapChange, SendMapEvent, Unversioned, MapInv, MapTypeOK, toSlave, toMaster
  <1>4. MapTypeOK'
    <2>1. map_wire' \in [Sides -> Seq(MapMessage)]
      <3>1. map_wire' = [map_wire EXCEPT !["master"] = Append(toMaster, message)]
        BY OtherSide DEF MapChange, SendMapEvent, Unversioned, MapInv, MapTypeOK, toMaster
      <3>2. Append(toMaster, message) \in Seq(MapMessage)
        BY <1>1, <1>2, WireLonger
      <3> QED BY <3>1, <3>2 DEF MapInv, MapTypeOK
    <2> QED BY <1>3, <2>1 DEF MapInv, MapTypeOK
  <1> HIDE DEF message
  <1>5. message.kind = "change" /\ message.version = 0 /\ message.value = new
    BY DEF message
  <1>6. /\ Len(toMaster') = Len(toMaster) + 1 /\ Len(toMaster) \in Nat
        /\ toMaster'[Len(toMaster) + 1] = message
        /\ \A i \in 1 .. Len(toMaster) : toMaster'[i] = toMaster[i]
        /\ \A i \in 1 .. Len(toMaster) + 1 : i \in 1 .. Len(toMaster) \/ i = Len(toMaster) + 1
    BY <1>1, <1>2, <1>3, WireLonger
  <1>7. MapWires'
    BY <1>3, <1>5, <1>6 DEF MapInv, MapWires
  <1>8. NumberUnderWay'
    <2>1. \A i \in 1 .. Len(toMaster) : i \in 1 .. Len(toMaster')
      BY <1>6
    <2> QED BY <1>3, <1>6, <2>1 DEF MapInv, NumberUnderWay
  <1>9. OneChange'
    BY <1>3, <1>5, <1>6 DEF MapInv, OneChange
  <1>10. LastTells'
    <2>1. Len(toMaster) + 1 # 0
      BY <1>6
    <2> QED BY <1>3, <1>5, <1>6, <2>1 DEF LastTells
  <1> QED BY <1>4, <1>7, <1>8, <1>9, <1>10 DEF MapInv

\* The other side takes the master's change and acknowledges it.
LEMMA SlaveTakes == ASSUME MapInv, map_on_wire_received("slave") PROVE MapInv'
  <1> DEFINE message == toSlave[1]
             ack == [kind |-> "ack", version |-> message.version, value |-> Absent]
  <1>1. toSlave \in Seq(MapMessage) /\ toMaster \in Seq(MapMessage) /\ toSlave # << >>
    BY OtherSide DEF MapInv, MapTypeOK, toSlave, toMaster, map_on_wire_received
  <1>2. /\ Tail(toSlave) \in Seq(MapMessage) /\ Len(Tail(toSlave)) \in Nat
        /\ Len(toSlave) = Len(Tail(toSlave)) + 1
        /\ Head(toSlave) = message /\ message \in MapMessage /\ 1 \in 1 .. Len(toSlave)
        /\ \A i \in 1 .. Len(Tail(toSlave)) : Tail(toSlave)[i] = toSlave[i + 1] /\ i + 1 \in 1 .. Len(toSlave)
        /\ \A i \in 1 .. Len(toSlave) :
               i = 1 \/ (i - 1 \in 1 .. Len(Tail(toSlave)) /\ Tail(toSlave)[i - 1] = toSlave[i])
    BY <1>1, WireShorter
  <1>3. message.kind = "change" /\ message.version # 0
    BY <1>2 DEF MapInv, MapWires
  <1>4. ack \in MapMessage
    BY <1>2 DEF MapMessage
  <1>5. /\ map_wire' = [map_wire EXCEPT !["slave"] = Tail(toSlave), !["master"] = Append(toMaster, ack)]
        /\ entry' = [entry EXCEPT !["slave"] = message.value]
        /\ UNCHANGED <<map_version, pendingForAck, keyAlive, again, missed, map_changes>>
    BY <1>2, <1>3, OtherSide DEF map_on_wire_received, ReceiveChange, MayChange, Unversioned, MapInv, MapTypeOK,
                                 toSlave, toMaster
  <1>6. /\ toSlave' = Tail(toSlave) /\ toMaster' = Append(toMaster, ack)
        /\ entry'["slave"] = message.value /\ entry'["master"] = entry["master"]
    BY <1>5, OtherSide DEF MapInv, MapTypeOK, toSlave, toMaster
  <1>7. /\ Len(toMaster') = Len(toMaster) + 1 /\ Len(toMaster) \in Nat /\ toMaster' \in Seq(MapMessage)
        /\ toMaster'[Len(toMaster) + 1] = ack
        /\ \A i \in 1 .. Len(toMaster) : toMaster'[i] = toMaster[i]
        /\ \A i \in 1 .. Len(toMaster) + 1 : i \in 1 .. Len(toMaster) \/ i = Len(toMaster) + 1
    BY <1>1, <1>4, <1>6, WireLonger
  <1>8. MapTypeOK'
    <2>1. message.value \in MapValues \cup {Absent}
      BY <1>2 DEF MapMessage
    <2>2. map_wire' \in [Sides -> Seq(MapMessage)]
      BY <1>2, <1>5, <1>6, <1>7 DEF MapInv, MapTypeOK
    <2> QED BY <1>5, <2>1, <2>2 DEF MapInv, MapTypeOK
  <1>9. ack.kind = "ack" /\ ack.version = message.version
    OBVIOUS
  <1> HIDE DEF message, ack
  <1>10. MapWires'
    BY <1>2, <1>3, <1>6, <1>7, <1>9 DEF MapInv, MapWires
  <1>11. NumberUnderWay'
    <2> SUFFICES ASSUME pendingForAck # 0, ~missed PROVE NumberUnderWay'
      BY <1>5 DEF NumberUnderWay
    <2>1. CASE \E i \in 1 .. Len(toMaster) : toMaster[i].version = pendingForAck
      <3>1. \A i \in 1 .. Len(toMaster) : i \in 1 .. Len(toMaster')
        BY <1>7
      <3> QED BY <1>5, <1>7, <2>1, <3>1 DEF NumberUnderWay
    <2>2. CASE message.version = pendingForAck
      <3>1. Len(toMaster) + 1 \in 1 .. Len(toMaster')
        BY <1>7
      <3> QED BY <1>5, <1>7, <1>9, <2>2, <3>1 DEF NumberUnderWay
    <2>3. CASE \E i \in 1 .. Len(toSlave) : i # 1 /\ toSlave[i].version = pendingForAck
      BY <1>2, <1>5, <1>6, <2>3 DEF NumberUnderWay
    <2> QED BY <2>1, <2>2, <2>3 DEF MapInv, NumberUnderWay, message
  <1>12. ASSUME ~again, ~missed
         PROVE  /\ Len(toSlave) = 1 /\ message.version = pendingForAck /\ message.value = entry["master"]
                /\ toSlave' = << >> /\ \A i \in 1 .. Len(toMaster) : toMaster[i].version = 0
    <2>1. /\ Len(toSlave) = 1 /\ message.version = pendingForAck /\ message.value = entry["master"]
          /\ \A i \in 1 .. Len(toMaster) : toMaster[i].version = 0
      BY <1>1, <1>12 DEF MapInv, OneChange, message
    <2>2. Len(Tail(toSlave)) = 0
      <3> DEFINE n == Len(Tail(toSlave))
      <3>1. n \in Nat /\ n + 1 = 1
        BY <1>2, <2>1
      <3> HIDE DEF n
      <3>2. n = 0
        BY <3>1
      <3> QED BY <3>2 DEF n
    <2> QED BY <1>2, <1>6, <2>1, <2>2, EmptySeq
  <1>13. OneChange'
    BY <1>5, <1>6, <1>7, <1>9, <1>12 DEF OneChange
  <1>14. LastTells'
    <2>1. ack.version # 0
      BY <1>3, <1>9
    <2> QED BY <1>5, <1>6, <1>7, <1>12, <2>1 DEF LastTells
  <1> QED BY <1>8, <1>10, <1>11, <1>13, <1>14 DEF MapInv

\* The master takes or refuses a change of the other side, or its change is acknowledged.
LEMMA MasterTakes == ASSUME MapInv, map_on_wire_received("master") PROVE MapInv'
  <1> DEFINE message == toMaster[1]
             rest == Tail(toMaster)
  <1>1. toSlave \in Seq(MapMessage) /\ toMaster \in Seq(MapMessage) /\ toMaster # << >>
    BY OtherSide DEF MapInv, MapTypeOK, toSlave, toMaster, map_on_wire_received
  <1>2. /\ rest \in Seq(MapMessage) /\ Len(rest) \in Nat
        /\ Len(toMaster) = Len(rest) + 1
        /\ Head(toMaster) = message /\ message \in MapMessage /\ 1 \in 1 .. Len(toMaster)
        /\ \A i \in 1 .. Len(rest) : rest[i] = toMaster[i + 1] /\ i + 1 \in 1 .. Len(toMaster)
        /\ \A i \in 1 .. Len(toMaster) :
               i = 1 \/ (i - 1 \in 1 .. Len(rest) /\ rest[i - 1] = toMaster[i])
    BY <1>1, WireShorter
  <1>3. message.kind = "change" <=> message.version = 0
    BY <1>2 DEF MapInv, MapWires
  <1>4. PICK pending \in IsPending :
            /\ LookUp(pending)
            /\ IF message.kind = "ack"
               THEN ReceiveAck(message, pending)
               ELSE ReceiveChange("master", message, pending)
    BY <1>2 DEF map_on_wire_received, toMaster
  <1>5. message.kind \in {"change", "ack"} /\ message.value \in MapValues \cup {Absent} /\ message.version \in Nat
    BY <1>2 DEF MapMessage
  <1>6. /\ map_wire' = [map_wire EXCEPT !["master"] = rest]
        /\ entry' = IF message.version = 0 /\ ~pending THEN [entry EXCEPT !["master"] = message.value] ELSE entry
        /\ pendingForAck' = IF message.version # 0 /\ pending /\ message.version = pendingForAck
                            THEN 0 ELSE pendingForAck
        /\ missed' = (missed \/ (pendingForAck # 0 /\ ~pending))
    BY <1>3, <1>4, <1>5, OtherSide DEF ReceiveAck, ReceiveChange, MayChange, Unversioned, LookUp, toMaster
  <1>7. UNCHANGED <<map_version, keyAlive, again, map_changes>>
    BY DEF map_on_wire_received
  <1>8. MapTypeOK'
    <2>1. map_wire' \in [Sides -> Seq(MapMessage)] /\ entry' \in [Sides -> MapValues \cup {Absent}]
      BY <1>2, <1>5, <1>6 DEF MapInv, MapTypeOK
    <2>2. missed' \in BOOLEAN /\ pendingForAck' \in Nat
      BY <1>6 DEF MapInv, MapTypeOK
    <2> QED BY <1>7, <2>1, <2>2 DEF MapInv, MapTypeOK
  <1>9. /\ toMaster' = rest /\ toSlave' = toSlave /\ entry'["slave"] = entry["slave"]
        /\ entry'["master"] = IF message.version = 0 /\ ~pending THEN message.value ELSE entry["master"]
    BY <1>6, OtherSide DEF MapInv, MapTypeOK, toSlave, toMaster
  <1> HIDE DEF message, rest
  <1>10. MapWires'
    BY <1>2, <1>9 DEF MapInv, MapWires
  <1>11. ~missed' => ~missed /\ (pendingForAck # 0 => pending) /\ (pendingForAck = 0 => ~pending)
    BY <1>4, <1>6 DEF IsPending
  <1>12. NumberUnderWay'
    <2> SUFFICES ASSUME pendingForAck' # 0, ~missed' PROVE NumberUnderWay'
      BY DEF NumberUnderWay
    <2>1. pendingForAck' = pendingForAck /\ message.version # pendingForAck
      BY <1>6, <1>11
    <2>2. CASE \E i \in 1 .. Len(toMaster) : toMaster[i].version = pendingForAck
      <3>1. PICK i \in 1 .. Len(toMaster) : toMaster[i].version = pendingForAck
        BY <2>2
      <3>2. i # 1
        BY <2>1, <3>1 DEF message
      <3> QED BY <1>2, <1>9, <2>1, <3>1, <3>2 DEF NumberUnderWay
    <2> QED BY <1>9, <1>11, <2>1, <2>2 DEF MapInv, NumberUnderWay
  <1>13. ASSUME ~again, ~missed'
         PROVE  OneChange' /\ LastTells'
    <2>1. /\ ~missed
          /\ \A i, j \in 1 .. Len(toMaster) :
                 /\ toMaster[i].version # 0 => toMaster[i].version = pendingForAck /\ toSlave = << >>
                 /\ toMaster[i].version # 0 /\ toMaster[j].version # 0 => i = j
          /\ toSlave # << >> => /\ Len(toSlave) = 1 /\ toSlave[1].version = pendingForAck
                                /\ toSlave[1].value = entry["master"]
      BY <1>11, <1>13 DEF MapInv, OneChange
    <2>2. \A i \in 1 .. Len(rest) : i + 1 # 1
      BY <1>2
    <2>3. \A i, j \in 1 .. Len(rest) :
              /\ rest[i].version # 0 => /\ rest[i].version = pendingForAck /\ toSlave = << >>
                                        /\ message.version = 0
              /\ rest[i].version # 0 /\ rest[j].version # 0 => i = j
      <3> SUFFICES ASSUME NEW i \in 1 .. Len(rest), NEW j \in 1 .. Len(rest), rest[i].version # 0
                   PROVE  /\ rest[i].version = pendingForAck /\ toSlave = << >> /\ message.version = 0
                          /\ rest[j].version # 0 => i = j
        OBVIOUS
      <3>1. rest[i] = toMaster[i + 1] /\ rest[j] = toMaster[j + 1] /\ i + 1 # 1
        BY <1>2, <2>2
      <3>2. i + 1 = j + 1 => i = j
        BY <1>2
      <3> QED BY <1>2, <2>1, <3>1, <3>2 DEF message
    <2>4. CASE message.version = 0
      <3>1. pendingForAck' = pendingForAck
        BY <1>6, <2>4
      <3>2. OneChange'
        <4>1. toSlave # << >> => entry'["master"] = entry["master"]
          <5>1. toSlave # << >> => pendingForAck # 0
            BY <2>1 DEF MapInv, MapWires
          <5> QED BY <1>9, <1>11, <1>13, <5>1
        <4> QED BY <1>9, <2>1, <2>3, <3>1, <4>1 DEF OneChange
      <3>3. LastTells'
        <4> SUFFICES ASSUME toSlave = << >>
                     PROVE  LET n == Len(rest)
                            IN  IF n # 0 /\ rest[n].version = 0
                                THEN rest[n].value = entry["slave"]
                                ELSE entry'["master"] = entry["slave"]
          BY <1>9 DEF LastTells
        <4>1. LET n == Len(toMaster)
              IN  IF n # 0 /\ toMaster[n].version = 0
                  THEN toMaster[n].value = entry["slave"]
                  ELSE entry["master"] = entry["slave"]
          BY <1>13, <2>1 DEF MapInv, LastTells
        <4>2. CASE Len(rest) = 0
          <5>1. message.value = entry["slave"]
            BY <1>2, <2>4, <4>1, <4>2 DEF message
          <5>2. pendingForAck = 0
            <6> SUFFICES ASSUME pendingForAck # 0 PROVE FALSE
              OBVIOUS
            <6>1. PICK i \in 1 .. Len(toMaster) : toMaster[i].version = pendingForAck
              BY <2>1 DEF MapInv, NumberUnderWay
            <6>2. i = 1
              BY <1>2, <4>2
            <6> QED BY <2>4, <6>1, <6>2 DEF message
          <5> QED BY <1>9, <1>11, <1>13, <2>4, <4>2, <5>1, <5>2
        <4>3. CASE Len(rest) # 0
          <5>1. Len(rest) \in 1 .. Len(rest) /\ rest[Len(rest)] = toMaster[Len(toMaster)] /\ Len(toMaster) # 0
            BY <1>2, <4>3
          <5>2. CASE rest[Len(rest)].version = 0
            BY <4>1, <5>1, <5>2
          <5>3. CASE rest[Len(rest)].version # 0
            <6>1. pendingForAck # 0
              BY <2>3, <5>1, <5>3
            <6> QED BY <1>9, <1>11, <1>13, <4>1, <5>1, <5>3, <6>1
          <5> QED BY <5>2, <5>3
        <4> QED BY <4>2, <4>3
      <3> QED BY <3>2, <3>3
    <2>5. CASE message.version # 0
      <3>1. message.version = pendingForAck /\ toSlave = << >> /\ pendingForAck # 0
        BY <1>2, <2>1, <2>5 DEF message
      <3>2. pendingForAck' = 0 /\ entry'["master"] = entry["master"]
        BY <1>6, <1>9, <1>11, <1>13, <2>5, <3>1
      <3>3. \A i \in 1 .. Len(rest) : rest[i].version = 0
        BY <2>3, <2>5
      <3>4. OneChange'
        BY <1>9, <3>1, <3>3 DEF OneChange
      <3>5. LastTells'
        <4>1. LET n == Len(toMaster)
              IN  IF n # 0 /\ toMaster[n].version = 0
                  THEN toMaster[n].value = entry["slave"]
                  ELSE entry["master"] = entry["slave"]
          BY <1>13, <2>1, <3>1 DEF MapInv, LastTells
        <4>2. CASE Len(rest) = 0
          <5>1. entry["master"] = entry["slave"]
            BY <1>2, <2>5, <4>1, <4>2 DEF message
          <5> QED BY <1>9, <3>2, <4>2, <5>1 DEF LastTells
        <4>3. CASE Len(rest) # 0
          <5>1. Len(rest) \in 1 .. Len(rest) /\ rest[Len(rest)] = toMaster[Len(toMaster)] /\ Len(toMaster) # 0
            BY <1>2, <4>3
          <5> QED BY <1>9, <3>3, <4>1, <4>3, <5>1 DEF LastTells
        <4> QED BY <4>2, <4>3
      <3> QED BY <3>4, <3>5
    <2> QED BY <2>4, <2>5
  <1>14. OneChange' /\ LastTells'
    BY <1>7, <1>13 DEF OneChange, LastTells
  <1> QED BY <1>8, <1>10, <1>12, <1>14 DEF MapInv

LEMMA MapInvStep == MapInv /\ [MapNext]_mapVars => MapInv'
  <1> SUFFICES ASSUME MapInv, [MapNext]_mapVars PROVE MapInv'
    OBVIOUS
  <1>1. CASE UNCHANGED mapVars
    BY <1>1 DEF mapVars, MapInv, MapTypeOK, MapWires, NumberUnderWay, OneChange, LastTells, toSlave, toMaster
  <1>2. CASE MapNext
    <2>1. PICK side \in {"master", "slave"} :
              \/ map_on_wire_received(side)
              \/ \E new \in MapValues \cup {Absent} : MapChange(side, new)
      BY <1>2, OtherSide DEF MapNext
    <2> QED BY <2>1, MasterChanges, SlaveChanges, SlaveTakes, MasterTakes
  <1> QED BY <1>1, <1>2

\* The invariant of the map is inductive.
THEOREM MapInductive == MapSpec => []MapInv
  BY MapInvInit, MapInvStep, PTL DEF MapSpec

\* RdMap.h:98-106, 150-178, 208-226.  When everything has been received and no look-up
\* has missed, the key is open to both sides, and they have the same entry unless the
\* master changed it again before the acknowledgement.
THEOREM EntriesConverge == MapSpec => []MapConverges
  <1>1. MapInv => MapConverges
    <2> SUFFICES ASSUME MapInv, MapQuiet, ~missed
                 PROVE  pendingForAck = 0 /\ (~again => entry["master"] = entry["slave"])
      BY DEF MapConverges
    <2>1. toSlave = << >> /\ Len(toSlave) = 0 /\ Len(toMaster) = 0
      BY OtherSide DEF MapQuiet, toSlave, toMaster
    <2> QED BY <2>1 DEF MapInv, NumberUnderWay, LastTells
  <1> QED BY <1>1, MapInductive, PTL

-----------------------------------------------------------------------------
(* An RdList, for any elements and any number of operations.  As long as no *)
(* number was unexpected only one side has messages under way that the      *)
(* other one still expects, and these lead from the list of the one that    *)
(* receives them to the list of the one that sent them, index by index.  As *)
(* soon as messages cross the first one of each direction carries a number  *)
(* that its receiver has already used.                                      *)

\* The lists between the events, from l on.
Path(path, l, events) ==
    /\ path \in [0 .. Len(events) -> Seq(Elements)]
    /\ path[0] = l
    /\ \A k \in 1 .. Len(events) :
          Fits(path[k - 1], events[k]) /\ path[k] = Apply(path[k - 1], events[k])

Leads(l, events, target) == \E path : Path(path, l, events) /\ path[Len(events)] = target

\* The events of messages.
EventsIn(messages) == [k \in 1 .. Len(messages) |-> messages[k].event]

ListMessage == [version : Nat, event : ListEvent]

\* Whatever is sent and received, both counters count it once.
BothCount ==
    list_version["server"] + Len(events_to["server"]) = list_version["client"] + Len(events_to["client"])

\* Nothing is under way in the other direction: each number is the one expected.
Expecting(side) ==
    /\ \A k \in 1 .. Len(events_to[side]) : events_to[side][k].version = list_version[side] + k - 1
    /\ Leads(list[side], EventsIn(events_to[side]), list[Opposite(side)])

\* Messages have crossed: the next number is an old one.
Crossed(side) == events_to[side] # << >> => events_to[side][1].version < list_version[side]

ListsFollow ==
    ~reported => /\ ~outside
                 /\ \A side \in Peers : IF events_to[Opposite(side)] = << >>
                                        THEN Expecting(side) ELSE Crossed(side)

ListInv == ListTypeOK /\ BothCount /\ ListsFollow

LEMMA BothPeers ==
    /\ Peers = {"server", "client"}
    /\ Opposite("server") = "client" /\ Opposite("client") = "server"
    /\ \A side \in Peers : Opposite(side) \in Peers /\ Opposite(side) # side /\ Opposite(Opposite(side)) = side
    /\ \A side \in Peers : Peers = {side, Opposite(side)}
BY DEF Peers, Opposite

\* A non-empty set of naturals has a least one.
LEMMA LeastNumber ==
    ASSUME NEW T, T \subseteq Nat, T # {}
    PROVE  \E n \in T : \A m \in T : n <= m
<1> DEFINE S == {1 .. n : n \in T}
<1>1. S # {}
  OBVIOUS
<1>2. \A y \in S : y \in SUBSET Nat
  OBVIOUS
<1>3. \A n \in T : 1 .. n \in S
  OBVIOUS
<1>4. \A y \in S : \E n \in T : y = 1 .. n
  OBVIOUS
<1>5. S \subseteq FiniteSubsetsOf(Nat)
  <2> SUFFICES ASSUME NEW n \in T PROVE 1 .. n \in FiniteSubsetsOf(Nat)
    OBVIOUS
  <2>1. IsFiniteSet(1 .. n)
    BY FS_Interval
  <2> QED
    BY <2>1 DEF FiniteSubsetsOf
<1> HIDE DEF S
<1>6. PICK x \in S : \A y \in S : ~(<<y, x>> \in StrictSubsetOrdering(Nat))
  BY <1>1, <1>5, FS_StrictSubsetOrderingWellFounded, WFMin
<1>7. \A y \in S : ~(y \subseteq x /\ y # x)
  BY <1>2, <1>6 DEF StrictSubsetOrdering
<1>8. PICK n \in T : x = 1 .. n
  BY <1>4
<1>9. ASSUME NEW m \in T, m < n PROVE FALSE
  <2>1. m \in Nat /\ n \in Nat
    OBVIOUS
  <2>2. 1 .. m \subseteq 1 .. n /\ n \in 1 .. n /\ n \notin 1 .. m
    BY <1>9, <2>1
  <2> QED
    BY <1>3, <1>7, <1>8, <2>2
<1> QED
  BY <1>9

\* Induction up to n: a set with 0 and with the next of each.
LEMMA Upwards ==
    ASSUME NEW P, NEW n \in Nat, 0 \in P, \A k \in 1 .. n : k - 1 \in P => k \in P
    PROVE  0 .. n \subseteq P
<1> DEFINE T == {k \in 0 .. n : k \notin P}
<1> SUFFICES ASSUME T # {} PROVE FALSE
  OBVIOUS
<1>1. \A S : S \subseteq Nat /\ S # {} => \E k \in S : \A m \in S : k <= m
  BY LeastNumber
<1>2. T \subseteq Nat
  OBVIOUS
<1>3. PICK k \in T : \A m \in T : k <= m
  BY <1>1, <1>2
<1>4. k \in 1 .. n /\ k \notin P
  OBVIOUS
<1>5. k - 1 \notin T
  BY <1>3, <1>4
<1>6. k - 1 \in 0 .. n
  BY <1>4
<1> QED
  BY <1>4, <1>5, <1>6

-----------------------------------------------------------------------------
(* One event.                                                               *)

LEMMA EventFacts ==
    ASSUME NEW event \in ListEvent
    PROVE  /\ event.op \in {"ADD", "UPDATE", "REMOVE"}
           /\ event.index \in Nat \ {0}
           /\ event.op # "REMOVE" => (CHOOSE e \in event.value : TRUE) \in Elements
<1>1. CASE event \in [op : {"REMOVE"}, index : Nat \ {0}, value : {{}}]
  BY <1>1
<1>2. CASE event \in [op : {"ADD", "UPDATE"}, index : Nat \ {0}, value : {{e} : e \in Elements}]
  <2>1. PICK e \in Elements : event.value = {e}
    BY <1>2
  <2>2. (CHOOSE d \in event.value : TRUE) \in {e}
    BY <2>1
  <2> QED
    BY <1>2, <2>2
<1> QED
  BY <1>1, <1>2 DEF ListEvent

LEMMA EventsAre ==
    ASSUME NEW i \in Nat \ {0}
    PROVE  /\ \A e \in Elements : /\ Added(i, e) \in ListEvent /\ Added(i, e).op = "ADD"
                                  /\ Added(i, e).index = i
                                  /\ Updated(i, e) \in ListEvent /\ Updated(i, e).op = "UPDATE"
                                  /\ Updated(i, e).index = i
           /\ Removed(i) \in ListEvent /\ Removed(i).op = "REMOVE" /\ Removed(i).index = i
BY DEF Added, Updated, Removed, ListEvent

Growth(event) == CASE event.op = "ADD" -> 1 [] event.op = "UPDATE" -> 0 [] event.op = "REMOVE" -> -1

\* Where an event fits it makes a list, longer or shorter by one or as long.
LEMMA ApplyList ==
    ASSUME NEW l \in Seq(Elements), NEW event \in ListEvent, Fits(l, event)
    PROVE  Apply(l, event) \in Seq(Elements) /\ Len(Apply(l, event)) = Len(l) + Growth(event)
<1> DEFINE i == event.index
           e == CHOOSE d \in event.value : TRUE
<1>1. /\ event.op \in {"ADD", "UPDATE", "REMOVE"} /\ i \in Nat \ {0}
      /\ event.op # "REMOVE" => e \in Elements
  BY EventFacts
<1>2. Len(l) \in Nat
  OBVIOUS
<1>3. CASE event.op = "ADD"
  <2>1. i \in 1 .. Len(l) + 1
    BY <1>3 DEF Fits
  <2>2. Apply(l, event) = SubSeq(l, 1, i - 1) \o <<e>> \o SubSeq(l, i, Len(l))
    BY <1>3 DEF Apply, InsertAt
  <2> HIDE DEF i, e
  <2>3. SubSeq(l, 1, i - 1) \in Seq(Elements) /\ Len(SubSeq(l, 1, i - 1)) = i - 1
    BY <1>2, <2>1
  <2>4. SubSeq(l, i, Len(l)) \in Seq(Elements) /\ Len(SubSeq(l, i, Len(l))) = Len(l) - i + 1
    BY <1>2, <2>1
  <2>5. <<e>> \in Seq(Elements) /\ Len(<<e>>) = 1
    BY <1>1, <1>3
  <2>6. Growth(event) = 1
    BY <1>3 DEF Growth
  <2> DEFINE front == SubSeq(l, 1, i - 1)
             back == SubSeq(l, i, Len(l))
  <2> HIDE DEF front, back
  <2>7. /\ front \o <<e>> \o back \in Seq(Elements)
        /\ Len(front \o <<e>> \o back) = (i - 1) + 1 + (Len(l) - i + 1)
    <3>1. front \o <<e>> \in Seq(Elements) /\ Len(front \o <<e>>) = (i - 1) + 1
      BY <2>3, <2>5 DEF front
    <3> QED
      BY <3>1, <2>4 DEF back
  <2>8. Apply(l, event) = front \o <<e>> \o back
    BY <2>2 DEF front, back
  <2> QED
    BY <1>2, <2>1, <2>6, <2>7, <2>8
<1>4. CASE event.op = "UPDATE"
  <2>1. i \in 1 .. Len(l)
    BY <1>4 DEF Fits
  <2>2. Apply(l, event) = [l EXCEPT ![i] = e]
    BY <1>4 DEF Apply, ReplaceAt
  <2>3. Growth(event) = 0
    BY <1>4 DEF Growth
  <2> HIDE DEF i, e
  <2> QED
    BY <1>1, <1>2, <1>4, <2>1, <2>2, <2>3
<1>5. CASE event.op = "REMOVE"
  <2>1. i \in 1 .. Len(l)
    BY <1>5 DEF Fits
  <2>2. Apply(l, event) = SubSeq(l, 1, i - 1) \o SubSeq(l, i + 1, Len(l))
    BY <1>5 DEF Apply, RemoveAt
  <2> HIDE DEF i
  <2>3. SubSeq(l, 1, i - 1) \in Seq(Elements) /\ Len(SubSeq(l, 1, i - 1)) = i - 1
    BY <1>2, <2>1
  <2>4. SubSeq(l, i + 1, Len(l)) \in Seq(Elements) /\ Len(SubSeq(l, i + 1, Len(l))) = Len(l) - i
    BY <1>2, <2>1
  <2>5. Growth(event) = -1
    BY <1>5 DEF Growth
  <2> DEFINE front == SubSeq(l, 1, i - 1)
             back == SubSeq(l, i + 1, Len(l))
  <2> HIDE DEF front, back
  <2>6. front \o back \in Seq(Elements) /\ Len(front \o back) = (i - 1) + (Len(l) - i)
    BY <2>3, <2>4 DEF front, back
  <2>7. Apply(l, event) = front \o back
    BY <2>2 DEF front, back
  <2> QED
    BY <1>2, <2>1, <2>5, <2>6, <2>7
<1> QED
  BY <1>1, <1>3, <1>4, <1>5

-----------------------------------------------------------------------------
(* The events of one operation.                                             *)

\* Stages is well defined, though its definition is recursive.
LEMMA StagesExist ==
    ASSUME NEW l, NEW events, Len(events) \in Nat
    PROVE  /\ Stages(l, events) = [k \in 0 .. Len(events) |-> Stages(l, events)[k]]
           /\ Stages(l, events)[0] = l
           /\ \A k \in 1 .. Len(events) :
                 Stages(l, events)[k] = Apply(Stages(l, events)[k - 1], events[k])
<1> DEFINE n == Len(events)
           Upto(m, f) == \A k \in 0 .. m : f[k] = IF k = 0 THEN l ELSE Apply(f[k - 1], events[k])
           P == {m \in 0 .. n : \E f : Upto(m, f)}
           Is(f) == f = [k \in 0 .. n |-> IF k = 0 THEN l ELSE Apply(f[k - 1], events[k])]
<1>1. 0 \in P
  <2> DEFINE f == [k \in 0 .. n |-> l]
  <2>1. Upto(0, f)
    OBVIOUS
  <2> HIDE DEF f
  <2> QED
    BY <2>1
<1>2. ASSUME NEW m \in 1 .. n, m - 1 \in P PROVE m \in P
  <2>1. PICK f : Upto(m - 1, f)
    BY <1>2
  <2> DEFINE g == [k \in 0 .. n |-> IF k < m THEN f[k] ELSE Apply(f[m - 1], events[m])]
  <2>2. \A k \in 0 .. m - 1 : g[k] = f[k]
    OBVIOUS
  <2>3. g[m] = Apply(f[m - 1], events[m])
    OBVIOUS
  <2> HIDE DEF g
  <2>4. ASSUME NEW k \in 0 .. m PROVE g[k] = IF k = 0 THEN l ELSE Apply(g[k - 1], events[k])
    <3>1. CASE k = 0
      BY <2>1, <2>2, <3>1
    <3>2. CASE k \in 1 .. m - 1
      <4>1. k - 1 \in 0 .. m - 1 /\ k \in 0 .. m - 1 /\ k # 0
        BY <3>2
      <4>2. g[k - 1] = f[k - 1] /\ g[k] = f[k]
        BY <2>2, <4>1
      <4>3. f[k] = Apply(f[k - 1], events[k])
        BY <2>1, <4>1
      <4> QED
        BY <4>1, <4>2, <4>3
    <3>3. CASE k = m
      BY <2>2, <2>3, <3>3
    <3> QED
      BY <3>1, <3>2, <3>3
  <2> QED
    BY <2>4
<1>3. 0 .. n \subseteq P
  <2> HIDE DEF P
  <2> QED
    BY <1>1, <1>2, Upwards
<1>4. PICK f : Upto(n, f)
  <2>1. n \in P
    BY <1>3
  <2> QED
    BY <2>1
<1> DEFINE g == [k \in 0 .. n |-> f[k]]
<1>5. Is(g)
  <2>1. \A k \in 0 .. n : g[k] = IF k = 0 THEN l ELSE Apply(g[k - 1], events[k])
    BY <1>4
  <2> QED
    BY <2>1
<1>6. Stages(l, events) = CHOOSE h : Is(h)
  BY DEF Stages
<1>7. Is(CHOOSE h : Is(h))
  <2> HIDE DEF Is, g
  <2> QED
    BY <1>5
<1> DEFINE stage == Stages(l, events)
<1>8. Is(stage)
  BY <1>6, <1>7
<1>9. /\ stage = [k \in 0 .. n |-> stage[k]]
      /\ \A k \in 0 .. n : stage[k] = IF k = 0 THEN l ELSE Apply(stage[k - 1], events[k])
  <2> HIDE DEF stage, n
  <2> QED
    BY <1>8
<1> QED
  <2> HIDE DEF stage
  <2>1. stage[0] = l
    BY <1>9
  <2>2. \A k \in 1 .. n : stage[k] = Apply(stage[k - 1], events[k])
    BY <1>9
  <2> QED
    BY <1>9, <2>1, <2>2 DEF stage

\* Events lead from list to list if each fits the length that the ones before
\* leave.
LEMMA StagesPath ==
    ASSUME NEW l \in Seq(Elements), NEW events \in Seq(ListEvent),
           NEW len \in [0 .. Len(events) -> Nat], len[0] = Len(l),
           \A k \in 1 .. Len(events) :
               /\ events[k].index \in 1 .. len[k - 1] + (IF events[k].op = "ADD" THEN 1 ELSE 0)
               /\ len[k] = len[k - 1] + Growth(events[k])
    PROVE  LET stage == Stages(l, events)
           IN  Path(stage, l, events) /\ Len(stage[Len(events)]) = len[Len(events)]
<1> DEFINE n == Len(events)
           stage == Stages(l, events)
           P == {k \in 0 .. n : stage[k] \in Seq(Elements) /\ Len(stage[k]) = len[k]}
<1>1. n \in Nat
  OBVIOUS
<1>2. stage = [k \in 0 .. n |-> stage[k]]
  BY <1>1, StagesExist, Zenon
<1>3. stage[0] = l
  BY <1>1, StagesExist, Zenon
<1>4. \A k \in 1 .. n : stage[k] = Apply(stage[k - 1], events[k])
  BY <1>1, StagesExist
<1> HIDE DEF stage
<1>5. ASSUME NEW k \in 1 .. n, k - 1 \in P
      PROVE  Fits(stage[k - 1], events[k]) /\ k \in P
  <2>1. stage[k - 1] \in Seq(Elements) /\ Len(stage[k - 1]) = len[k - 1]
    BY <1>5
  <2>2. events[k] \in ListEvent
    BY <1>1
  <2>3. Fits(stage[k - 1], events[k])
    BY <2>1 DEF Fits
  <2>4. /\ Apply(stage[k - 1], events[k]) \in Seq(Elements)
        /\ Len(Apply(stage[k - 1], events[k])) = len[k - 1] + Growth(events[k])
    BY <2>1, <2>2, <2>3, ApplyList
  <2>5. stage[k] \in Seq(Elements) /\ Len(stage[k]) = len[k]
    BY <1>4, <2>4
  <2>6. k \in 0 .. n
    BY <1>1
  <2> QED
    BY <2>3, <2>5, <2>6
<1>6. 0 .. n \subseteq P
  <2>1. 0 \in P
    BY <1>1, <1>3
  <2> HIDE DEF P
  <2> QED
    BY <1>1, <1>5, <2>1, Upwards
<1>7. \A k \in 0 .. n : stage[k] \in Seq(Elements) /\ Len(stage[k]) = len[k]
  BY <1>6
<1>8. stage \in [0 .. n -> Seq(Elements)]
  BY <1>2, <1>3, <1>7
<1>9. \A k \in 1 .. n : Fits(stage[k - 1], events[k])
  <2> HIDE DEF P
  <2>1. \A k \in 1 .. n : k - 1 \in 0 .. n
    BY <1>1
  <2> QED
    BY <1>5, <1>6, <2>1
<1> QED
  BY <1>1, <1>3, <1>4, <1>7, <1>8, <1>9 DEF Path, stage

\* Removals from the back to the front fit.
LEMMA Removals ==
    ASSUME NEW l \in Seq(Elements), NEW n \in Nat, NEW h \in [1 .. n -> 1 .. Len(l)],
           \A k \in 1 .. n : \A j \in 1 .. k - 1 : h[j] > h[k]
    PROVE  LET events == [k \in 1 .. n |-> Removed(h[k])]
           IN  /\ events \in Seq(ListEvent) /\ Len(events) = n
               /\ Path(Stages(l, events), l, events)
               /\ Len(Stages(l, events)[n]) = Len(l) - n
<1> DEFINE events == [k \in 1 .. n |-> Removed(h[k])]
           P == {k \in 0 .. n : k \in 1 .. n => h[k] <= Len(l) - k + 1}
           len == [k \in 0 .. n |-> Len(l) - k]
<1>1. Len(l) \in Nat
  OBVIOUS
<1>2. \A k \in 1 .. n : h[k] \in Nat \ {0} /\ h[k] <= Len(l)
  BY <1>1
<1>3. \A k \in 1 .. n : events[k] \in ListEvent /\ events[k].op = "REMOVE" /\ events[k].index = h[k]
  BY <1>2, EventsAre
<1>4. events \in Seq(ListEvent) /\ Len(events) = n
  <2>1. events \in [1 .. n -> ListEvent]
    BY <1>3
  <2> HIDE DEF events
  <2> QED
    BY <2>1
<1>5. ASSUME NEW k \in 1 .. n, k - 1 \in P PROVE k \in P
  <2>1. CASE k = 1
    BY <1>1, <1>2, <2>1
  <2>2. CASE k # 1
    <3>1. k - 1 \in 1 .. n /\ k - 1 \in 1 .. k - 1
      BY <2>2
    <3>2. h[k - 1] > h[k] /\ h[k - 1] <= Len(l) - (k - 1) + 1
      BY <1>5, <3>1
    <3> QED
      BY <1>1, <1>2, <3>1, <3>2
  <2> QED
    BY <2>1, <2>2
<1>6. 0 .. n \subseteq P
  <2>1. 0 \in P
    OBVIOUS
  <2> HIDE DEF P
  <2> QED
    BY <1>5, <2>1, Upwards
<1>7. \A k \in 1 .. n : h[k] <= Len(l) - k + 1
  BY <1>6
<1>8. len \in [0 .. n -> Nat]
  <2> SUFFICES ASSUME NEW k \in 0 .. n PROVE Len(l) - k \in Nat
    OBVIOUS
  <2>1. CASE k = 0
    BY <1>1, <2>1
  <2>2. CASE k \in 1 .. n
    BY <1>1, <1>2, <1>7, <2>2
  <2> QED
    BY <2>1, <2>2
<1>9. /\ len[0] = Len(l) /\ len[n] = Len(l) - n
      /\ \A k \in 1 .. n : len[k - 1] = Len(l) - k + 1 /\ len[k] = Len(l) - k
  BY <1>1
<1> HIDE DEF events, len
<1>10. \A k \in 1 .. n : Growth(events[k]) = -1
  BY <1>3 DEF Growth
<1>11. \A k \in 1 .. n :
           /\ events[k].index \in 1 .. len[k - 1] + (IF events[k].op = "ADD" THEN 1 ELSE 0)
           /\ len[k] = len[k - 1] + Growth(events[k])
  <2> HIDE DEF P
  <2> TAKE k \in 1 .. n
  <2>1. /\ events[k].op = "REMOVE" /\ events[k].index = h[k] /\ Growth(events[k]) = -1
        /\ h[k] \in Nat \ {0} /\ h[k] <= Len(l) - k + 1
        /\ len[k - 1] = Len(l) - k + 1 /\ len[k] = Len(l) - k
    BY <1>2, <1>3, <1>7, <1>9, <1>10
  <2> QED
    BY <1>1, <2>1
<1>12. Path(Stages(l, events), l, events) /\ Len(Stages(l, events)[n]) = len[n]
  BY <1>4, <1>8, <1>9, <1>11, StagesPath
<1> QED
  BY <1>4, <1>9, <1>12 DEF events

\* The indices of a set, from the last to the first.
LEMMA BackwardsOver ==
    ASSUME NEW n \in Nat, NEW hit \in SUBSET (1 .. n), NEW h \in Backwards(hit)
    PROVE  \E m \in Nat : /\ h \in [1 .. m -> 1 .. n]
                          /\ \A k \in 1 .. m : \A j \in 1 .. k - 1 : h[j] > h[k]
<1>1. IsFiniteSet(hit)
  <2>1. IsFiniteSet(1 .. n)
    BY FS_Interval
  <2>2. hit \subseteq 1 .. n
    OBVIOUS
  <2> QED
    BY <2>1, <2>2, FS_Subset
<1>2. Cardinality(hit) \in Nat
  BY <1>1, FS_CardinalityType
<1> QED
  BY <1>2 DEF Backwards

\* Each operation leads from the list to the one it makes.
LEMMA OperationLeads ==
    ASSUME NEW l \in Seq(Elements), NEW events \in EventsOf(l)
    PROVE  /\ events \in Seq(ListEvent)
           /\ Path(Stages(l, events), l, events)
           /\ events \in clear(l) => Stages(l, events)[Len(events)] = << >>
<1> DEFINE n == Len(l)
           Led(es) == es \in Seq(ListEvent) /\ Path(Stages(l, es), l, es)
<1>1. n \in Nat /\ DOMAIN l = 1 .. n
  OBVIOUS
<1>2. ASSUME NEW event \in ListEvent, Fits(l, event) PROVE Led(<<event>>)
  <2> DEFINE len == [k \in 0 .. 1 |-> IF k = 0 THEN n ELSE n + Growth(event)]
  <2>1. event.op \in {"ADD", "UPDATE", "REMOVE"} /\ event.index \in Nat \ {0}
    BY EventFacts
  <2>2. n + Growth(event) \in Nat
    BY <1>1, <1>2, <2>1 DEF Fits, Growth
  <2>3. len \in [0 .. 1 -> Nat] /\ len[0] = n /\ len[1] = n + Growth(event)
    BY <1>1, <2>2
  <2>4. <<event>> \in Seq(ListEvent) /\ Len(<<event>>) = 1 /\ <<event>>[1] = event
    OBVIOUS
  <2> HIDE DEF len
  <2>5. \A k \in 1 .. Len(<<event>>) :
           /\ <<event>>[k].index \in 1 .. len[k - 1] + (IF <<event>>[k].op = "ADD" THEN 1 ELSE 0)
           /\ len[k] = len[k - 1] + Growth(<<event>>[k])
    <3> SUFFICES ASSUME NEW k \in 1 .. 1
                 PROVE  /\ <<event>>[k].index \in 1 .. len[k - 1] + (IF <<event>>[k].op = "ADD" THEN 1 ELSE 0)
                        /\ len[k] = len[k - 1] + Growth(<<event>>[k])
      BY <2>4
    <3>1. k = 1 /\ k - 1 = 0
      OBVIOUS
    <3> QED
      BY <1>2, <2>3, <2>4, <3>1 DEF Fits
  <2> QED
    BY <2>3, <2>4, <2>5, StagesPath
<1>3. ASSUME NEW i \in 1 .. n + 1, NEW d \in Elements, NEW e \in Elements
      PROVE  Led(<<Added(i, d), Added(i + 1, e)>>)
  <2> DEFINE two == <<Added(i, d), Added(i + 1, e)>>
             len == [k \in 0 .. 2 |-> n + k]
  <2>1. /\ i \in Nat \ {0} /\ i + 1 \in Nat \ {0} /\ i + 1 \in 1 .. n + 2
    BY <1>1
  <2>2. /\ Added(i, d) \in ListEvent /\ Added(i, d).op = "ADD" /\ Added(i, d).index = i
        /\ Added(i + 1, e) \in ListEvent /\ Added(i + 1, e).op = "ADD" /\ Added(i + 1, e).index = i + 1
    BY <2>1, EventsAre
  <2>3. two \in Seq(ListEvent) /\ Len(two) = 2 /\ two[1] = Added(i, d) /\ two[2] = Added(i + 1, e)
    BY <2>2
  <2>4. Growth(two[1]) = 1 /\ Growth(two[2]) = 1
    BY <2>2, <2>3 DEF Growth
  <2>5. len \in [0 .. 2 -> Nat] /\ len[0] = n /\ len[1] = n + 1 /\ len[2] = n + 2
    BY <1>1
  <2> HIDE DEF len, two
  <2>6. \A k \in 1 .. 2 :
           /\ two[k].index \in 1 .. len[k - 1] + (IF two[k].op = "ADD" THEN 1 ELSE 0)
           /\ len[k] = len[k - 1] + Growth(two[k])
    <3> TAKE k \in 1 .. 2
    <3>1. CASE k = 1
      <4>1. k - 1 = 0
        BY <3>1
      <4> QED
        BY <1>1, <2>1, <2>2, <2>3, <2>4, <2>5, <3>1, <4>1
    <3>2. CASE k = 2
      <4>1. k - 1 = 1
        BY <3>2
      <4> QED
        BY <1>1, <2>1, <2>2, <2>3, <2>4, <2>5, <3>2, <4>1
    <3> QED
      BY <3>1, <3>2
  <2>7. Path(Stages(l, two), l, two)
    BY <2>3, <2>5, <2>6, StagesPath
  <2> QED
    BY <2>3, <2>7 DEF two
<1>4. ASSUME events \in clear(l)
      PROVE  Led(events) /\ Stages(l, events)[Len(events)] = << >>
  <2> DEFINE h == [k \in 1 .. n |-> n + 1 - k]
  <2>1. h \in [1 .. n -> 1 .. n] /\ \A k \in 1 .. n : \A j \in 1 .. k - 1 : h[j] > h[k]
    BY <1>1
  <2>2. events = [k \in 1 .. n |-> Removed(h[k])]
    BY <1>1, <1>4 DEF clear
  <2> HIDE DEF h
  <2>3. /\ events \in Seq(ListEvent) /\ Len(events) = n
        /\ Path(Stages(l, events), l, events)
        /\ Len(Stages(l, events)[n]) = n - n
    BY <1>1, <2>1, <2>2, Removals
  <2>4. Stages(l, events)[n] \in Seq(Elements)
    BY <1>1, <2>3 DEF Path
  <2>5. Len(Stages(l, events)[n]) = 0
    BY <1>1, <2>3
  <2> QED
    BY <2>3, <2>4, <2>5
<1>5. ASSUME NEW gone \in SUBSET Elements, NEW h \in Backwards({i \in DOMAIN l : l[i] \in gone}),
             events = [k \in DOMAIN h |-> Removed(h[k])]
      PROVE  Led(events)
  <2>1. PICK m \in Nat : /\ h \in [1 .. m -> 1 .. n]
                         /\ \A k \in 1 .. m : \A j \in 1 .. k - 1 : h[j] > h[k]
    <3>1. {i \in DOMAIN l : l[i] \in gone} \in SUBSET (1 .. n)
      BY <1>1
    <3> QED
      BY <1>1, <1>5, <3>1, BackwardsOver
  <2>2. events = [k \in 1 .. m |-> Removed(h[k])]
    BY <1>5, <2>1
  <2> QED
    BY <1>1, <2>1, <2>2, Removals
<1>6. ASSUME NEW i \in 1 .. n + 1, NEW e \in Elements PROVE Led(<<Added(i, e)>>)
  <2>1. i \in Nat \ {0}
    BY <1>1
  <2>2. Added(i, e) \in ListEvent /\ Fits(l, Added(i, e))
    BY <1>1, <2>1, EventsAre DEF Fits
  <2> QED
    BY <1>2, <2>2
<1>7. ASSUME NEW i \in 1 .. n PROVE Led(<<Removed(i)>>) /\ \A e \in Elements : Led(<<Updated(i, e)>>)
  <2>1. i \in Nat \ {0}
    BY <1>1
  <2>2. Removed(i) \in ListEvent /\ Fits(l, Removed(i))
    BY <1>1, <2>1, EventsAre DEF Fits
  <2>3. \A e \in Elements : Updated(i, e) \in ListEvent /\ Fits(l, Updated(i, e))
    BY <1>1, <2>1, EventsAre DEF Fits
  <2> HIDE DEF Led
  <2> QED
    BY <1>2, <2>2, <2>3
<1>8. CASE events \in add(l)
  <2> HIDE DEF Led
  <2>1. Led(events)
    BY <1>1, <1>6, <1>8 DEF add
  <2> QED
    BY <1>4, <2>1 DEF Led
<1>9. CASE events \in list_set(l) \cup removeAt(l)
  <2> HIDE DEF Led
  <2>1. CASE events \in list_set(l)
    <3>1. PICK i \in 1 .. n, e \in Elements : events = <<Updated(i, e)>>
      BY <1>1, <2>1 DEF list_set
    <3>2. Led(events)
      BY <1>7, <3>1
    <3> QED
      BY <1>4, <3>2 DEF Led
  <2>2. CASE events \in removeAt(l)
    <3>1. PICK i \in 1 .. n : events = <<Removed(i)>>
      BY <1>1, <2>2 DEF removeAt
    <3>2. Led(events)
      BY <1>7, <3>1
    <3> QED
      BY <1>4, <3>2 DEF Led
  <2> QED
    BY <1>9, <2>1, <2>2
<1>10. CASE events \in addAll(l)
  <2> HIDE DEF Led
  <2>1. PICK i \in 1 .. n + 1, d \in Elements :
            events \in {<<Added(i, d), Added(i + 1, e)>> : e \in Elements \ {d}}
    BY <1>10 DEF addAll
  <2>2. Led(events)
    BY <1>3, <2>1
  <2> QED
    BY <1>4, <2>2 DEF Led
<1>11. CASE events \in removeAll(l)
  <2> HIDE DEF Led
  <2>1. PICK gone \in SUBSET Elements :
            events \in {[k \in DOMAIN h |-> Removed(h[k])] : h \in Backwards({i \in DOMAIN l : l[i] \in gone})}
    BY <1>11 DEF removeAll
  <2>2. Led(events)
    BY <1>5, <2>1
  <2> QED
    BY <1>4, <2>2 DEF Led
<1>12. CASE events \in clear(l)
  BY <1>4, <1>12
<1> QED
  BY <1>8, <1>9, <1>10, <1>11, <1>12 DEF EventsOf

-----------------------------------------------------------------------------
(* Events behind one another.                                               *)

LEMMA NoneLeads ==
    ASSUME NEW l \in Seq(Elements), NEW target
    PROVE  Leads(l, << >>, target) <=> l = target
<1>1. ASSUME l = target PROVE Leads(l, << >>, target)
  <2> DEFINE path == [k \in 0 .. 0 |-> l]
  <2>1. Path(path, l, << >>) /\ path[Len(<< >>)] = target
    BY <1>1 DEF Path
  <2> HIDE DEF path
  <2> QED
    BY <2>1 DEF Leads
<1>2. ASSUME Leads(l, << >>, target) PROVE l = target
  BY <1>2 DEF Leads, Path
<1> QED
  BY <1>1, <1>2

LEMMA LeadsOn ==
    ASSUME NEW a \in Seq(ListEvent), NEW b \in Seq(ListEvent), NEW l, NEW middle, NEW target,
           Leads(l, a, middle), Leads(middle, b, target)
    PROVE  Leads(l, a \o b, target)
<1> DEFINE n == Len(a)
           m == Len(b)
           ab == a \o b
<1>1. PICK p : Path(p, l, a) /\ p[n] = middle
  BY DEF Leads
<1>2. PICK q : Path(q, middle, b) /\ q[m] = target
  BY DEF Leads
<1>3. n \in Nat /\ m \in Nat /\ Len(ab) = n + m
  OBVIOUS
<1>4. /\ \A k \in 1 .. n : ab[k] = a[k]
      /\ \A k \in 1 .. m : ab[n + k] = b[k]
  OBVIOUS
<1> DEFINE path == [k \in 0 .. n + m |-> IF k <= n THEN p[k] ELSE q[k - n]]
<1> HIDE DEF n, m, ab
<1>5. /\ p \in [0 .. n -> Seq(Elements)] /\ p[0] = l
      /\ \A k \in 1 .. n : Fits(p[k - 1], a[k]) /\ p[k] = Apply(p[k - 1], a[k])
  BY <1>1 DEF Path, n
<1>6. /\ q \in [0 .. m -> Seq(Elements)] /\ q[0] = middle
      /\ \A k \in 1 .. m : Fits(q[k - 1], b[k]) /\ q[k] = Apply(q[k - 1], b[k])
  BY <1>2 DEF Path, m
<1>7. \A k \in 0 .. n : path[k] = p[k]
  BY <1>3
<1>8. \A k \in 0 .. m : path[n + k] = q[k]
  <2> TAKE k \in 0 .. m
  <2>1. CASE k = 0
    BY <1>1, <1>3, <1>6, <1>7, <2>1
  <2>2. CASE k # 0
    BY <1>3, <2>2
  <2> QED
    BY <2>1, <2>2
<1>9. path \in [0 .. n + m -> Seq(Elements)]
  <2> SUFFICES ASSUME NEW k \in 0 .. n + m
               PROVE  (IF k <= n THEN p[k] ELSE q[k - n]) \in Seq(Elements)
    OBVIOUS
  <2>1. CASE k <= n
    BY <1>3, <1>5, <2>1
  <2>2. CASE ~(k <= n)
    <3>1. k - n \in 0 .. m
      BY <1>3, <2>2
    <3> QED
      BY <1>6, <2>2, <3>1
  <2> QED
    BY <2>1, <2>2
<1> HIDE DEF path
<1>10. ASSUME NEW k \in 1 .. n + m
       PROVE  Fits(path[k - 1], ab[k]) /\ path[k] = Apply(path[k - 1], ab[k])
  <2>1. CASE k <= n
    <3>1. k \in 1 .. n /\ k \in 0 .. n /\ k - 1 \in 0 .. n
      BY <1>3, <2>1
    <3>2. path[k - 1] = p[k - 1] /\ path[k] = p[k] /\ ab[k] = a[k]
      BY <1>4, <1>7, <3>1
    <3> QED
      BY <1>5, <3>1, <3>2
  <2>2. CASE ~(k <= n)
    <3> DEFINE j == k - n
    <3>1. j \in 1 .. m /\ j \in 0 .. m /\ j - 1 \in 0 .. m /\ n + j = k /\ n + (j - 1) = k - 1
      BY <1>3, <2>2
    <3> HIDE DEF j
    <3>2. path[k - 1] = q[j - 1] /\ path[k] = q[j] /\ ab[k] = b[j]
      BY <1>4, <1>8, <3>1
    <3> QED
      BY <1>6, <3>1, <3>2
  <2> QED
    BY <2>1, <2>2
<1>11. Path(path, l, ab)
  <2>1. path[0] = l
    BY <1>3, <1>5, <1>7
  <2> QED
    BY <1>3, <1>9, <1>10, <2>1 DEF Path
<1>12. path[Len(ab)] = target
  BY <1>2, <1>3, <1>8 DEF m
<1> QED
  BY <1>11, <1>12 DEF Leads, ab

LEMMA LeadsNext ==
    ASSUME NEW a \in Seq(ListEvent), a # << >>, NEW l, NEW target, Leads(l, a, target)
    PROVE  /\ Fits(l, a[1])
           /\ Leads(Apply(l, a[1]), Tail(a), target)
<1> DEFINE n == Len(a)
           rest == Tail(a)
<1>1. PICK p : Path(p, l, a) /\ p[n] = target
  BY DEF Leads
<1>2. /\ n \in Nat /\ n >= 1 /\ Len(rest) = n - 1
      /\ \A k \in 1 .. n - 1 : rest[k] = a[k + 1]
  OBVIOUS
<1> DEFINE path == [k \in 0 .. n - 1 |-> p[k + 1]]
<1> HIDE DEF n, rest
<1>3. /\ p \in [0 .. n -> Seq(Elements)] /\ p[0] = l
      /\ \A k \in 1 .. n : Fits(p[k - 1], a[k]) /\ p[k] = Apply(p[k - 1], a[k])
  BY <1>1 DEF Path, n
<1>4. Fits(l, a[1]) /\ p[1] = Apply(l, a[1])
  <2>1. 1 \in 1 .. n /\ 1 - 1 = 0
    BY <1>2
  <2>2. Fits(p[1 - 1], a[1]) /\ p[1] = Apply(p[1 - 1], a[1])
    BY <1>3, <2>1
  <2> QED
    BY <1>3, <2>1, <2>2
<1>5. \A k \in 0 .. n - 1 : path[k] = p[k + 1]
  OBVIOUS
<1>6. path \in [0 .. n - 1 -> Seq(Elements)]
  BY <1>2, <1>3
<1> HIDE DEF path
<1>7. ASSUME NEW k \in 1 .. n - 1
      PROVE  Fits(path[k - 1], rest[k]) /\ path[k] = Apply(path[k - 1], rest[k])
  <2>1. k - 1 \in 0 .. n - 1 /\ k \in 0 .. n - 1 /\ (k - 1) + 1 = k /\ k + 1 \in 1 .. n /\ (k + 1) - 1 = k
    BY <1>2
  <2>2. path[k - 1] = p[k] /\ path[k] = p[k + 1] /\ rest[k] = a[k + 1]
    BY <1>2, <1>5, <2>1
  <2>3. Fits(p[(k + 1) - 1], a[k + 1]) /\ p[k + 1] = Apply(p[(k + 1) - 1], a[k + 1])
    BY <1>3, <2>1
  <2> QED
    BY <2>1, <2>2, <2>3
<1>8. path[0] = Apply(l, a[1])
  <2>1. 0 \in 0 .. n - 1 /\ 0 + 1 = 1
    BY <1>2
  <2>2. path[0] = p[1]
    BY <1>5, <2>1
  <2> QED
    BY <1>4, <2>2
<1>9. Path(path, Apply(l, a[1]), rest)
  BY <1>2, <1>6, <1>7, <1>8 DEF Path
<1>10. path[Len(rest)] = target
  BY <1>1, <1>2, <1>5 DEF n
<1> QED
  BY <1>4, <1>9, <1>10 DEF Leads, rest

\* The events of messages, and of the messages behind the first.
LEMMA EventsOfMessages ==
    ASSUME NEW messages \in Seq(ListMessage)
    PROVE  /\ EventsIn(messages) \in Seq(ListEvent) /\ Len(EventsIn(messages)) = Len(messages)
           /\ messages # << >> => /\ EventsIn(messages) # << >>
                                  /\ EventsIn(messages)[1] = messages[1].event
                                  /\ EventsIn(Tail(messages)) = Tail(EventsIn(messages))
<1> DEFINE n == Len(messages)
           all == EventsIn(messages)
<1>1. n \in Nat /\ \A k \in 1 .. n : messages[k] \in ListMessage
  OBVIOUS
<1>2. all = [k \in 1 .. n |-> messages[k].event]
  BY DEF EventsIn
<1>3. \A k \in 1 .. n : messages[k].event \in ListEvent
  BY <1>1 DEF ListMessage
<1>4. all \in Seq(ListEvent) /\ Len(all) = n
  <2>1. all \in [1 .. n -> ListEvent]
    BY <1>2, <1>3
  <2> HIDE DEF all, n
  <2> QED
    BY <1>1, <2>1
<1>5. ASSUME messages # << >>
      PROVE  all # << >> /\ all[1] = messages[1].event /\ EventsIn(Tail(messages)) = Tail(all)
  <2> DEFINE rest == Tail(messages)
  <2>1. n >= 1 /\ Len(rest) = n - 1 /\ \A k \in 1 .. n - 1 : rest[k] = messages[k + 1]
    BY <1>5
  <2>2. EventsIn(rest) = [k \in 1 .. n - 1 |-> rest[k].event]
    BY <2>1 DEF EventsIn
  <2> HIDE DEF all, n, rest
  <2>3. all # << >> /\ all[1] = messages[1].event
    BY <1>1, <1>2, <1>4, <2>1
  <2>4. Tail(all) \in Seq(ListEvent) /\ Len(Tail(all)) = n - 1 /\ \A k \in 1 .. n - 1 : Tail(all)[k] = all[k + 1]
    BY <1>4, <2>3, HeadTailProperties
  <2>5. \A k \in 1 .. n - 1 : all[k + 1] = rest[k].event
    BY <1>1, <1>2, <2>1
  <2>6. \A k \in 1 .. n - 1 : Tail(all)[k] = rest[k].event
    BY <2>4, <2>5
  <2>7. Tail(all) = [k \in 1 .. n - 1 |-> rest[k].event]
    <3> DEFINE r == [k \in 1 .. n - 1 |-> rest[k].event]
    <3>1. \A k \in 1 .. n - 1 : rest[k].event \in ListEvent
      BY <1>1, <1>3, <2>1
    <3>2. r \in Seq(ListEvent) /\ Len(r) = n - 1
      BY <1>1, <2>1, <3>1
    <3>3. \A k \in 1 .. n - 1 : r[k] = rest[k].event
      OBVIOUS
    <3> HIDE DEF r
    <3> QED
      BY <2>4, <2>6, <3>2, <3>3, SeqEqual DEF r
  <2> QED
    BY <2>2, <2>3, <2>7 DEF rest
<1> QED
  BY <1>4, <1>5

-----------------------------------------------------------------------------
(* The invariant.                                                           *)

LEMMA ListInvInit == ListInit => ListInv
<1> SUFFICES ASSUME ListInit PROVE ListInv
  OBVIOUS
<1>1. \A side \in Peers : list[side] = << >> /\ events_to[side] = << >> /\ list_version[side] = 1
  BY DEF ListInit
<1>2. << >> \in Seq(Elements) /\ << >> \in Seq(ListMessage)
  OBVIOUS
<1>3. ListTypeOK
  <2>1. << >> \in Seq([version : Nat, event : ListEvent])
    OBVIOUS
  <2>2. list \in [Peers -> Seq(Elements)]
    BY <1>2 DEF ListInit
  <2>3. list_version \in [Peers -> Nat \ {0}]
    BY DEF ListInit
  <2>4. events_to \in [Peers -> Seq([version : Nat, event : ListEvent])]
    BY <2>1 DEF ListInit
  <2> QED
    BY <2>2, <2>3, <2>4 DEF ListInit, ListTypeOK
<1>4. BothCount
  BY <1>1, BothPeers DEF BothCount
<1>5. ASSUME NEW side \in Peers PROVE Expecting(side)
  <2>1. events_to[side] = << >> /\ list[side] = << >> /\ list[Opposite(side)] = << >>
    BY <1>1, BothPeers
  <2>2. EventsIn(<< >>) = << >>
    BY DEF EventsIn
  <2>3. Leads(<< >>, << >>, << >>)
    BY <1>2, NoneLeads
  <2> QED
    BY <2>1, <2>2, <2>3 DEF Expecting
<1>6. ListsFollow
  BY <1>1, <1>5, BothPeers DEF ListInit, ListsFollow
<1> QED
  BY <1>3, <1>4, <1>6 DEF ListInv

\* The types of a side, and what its counters say.
LEMMA SideTyped ==
    ASSUME ListTypeOK, NEW side \in Peers
    PROVE  /\ list[side] \in Seq(Elements) /\ list_version[side] \in Nat \ {0}
           /\ events_to[side] \in Seq(ListMessage)
BY DEF ListTypeOK, ListMessage

LEMMA SidesCount ==
    ASSUME ListTypeOK, BothCount, NEW side \in Peers
    PROVE  list_version[side] + Len(events_to[side])
               = list_version[Opposite(side)] + Len(events_to[Opposite(side)])
BY BothPeers DEF BothCount

\* A change goes behind the messages that are under way.
LEMMA ListChangeStep ==
    ASSUME ListInv, NEW side \in Peers, NEW events \in EventsOf(list[side]), ListChange(side, events),
           operations < MaxOperations
    PROVE  ListInv'
<1> DEFINE o == Opposite(side)
           l == list[side]
           n == Len(events)
           l2 == Stages(l, events)[n]
           messages == [k \in 1 .. n |->
                            [version |-> list_version[side] + k - 1, event |-> events[k]]]
<1>1. ListTypeOK /\ BothCount /\ ListsFollow
  BY DEF ListInv
<1>2. /\ o \in Peers /\ o # side /\ Opposite(o) = side /\ Peers = {side, o}
  BY BothPeers
<1>3. /\ l \in Seq(Elements) /\ list_version[side] \in Nat \ {0} /\ events_to[side] \in Seq(ListMessage)
      /\ list[o] \in Seq(Elements) /\ list_version[o] \in Nat \ {0} /\ events_to[o] \in Seq(ListMessage)
  BY <1>1, <1>2, SideTyped
<1>4. /\ events \in Seq(ListEvent) /\ Path(Stages(l, events), l, events)
      /\ events \in clear(l) => l2 = << >>
  BY <1>3, OperationLeads
<1>5. n \in Nat /\ DOMAIN events = 1 .. n /\ \A k \in 1 .. n : events[k] \in ListEvent
  BY <1>4
<1>6. l2 \in Seq(Elements) /\ Leads(l, events, l2)
  <2> DEFINE stage == Stages(l, events)
  <2>1. Path(stage, l, events) /\ stage[Len(events)] = l2
    BY <1>4
  <2> HIDE DEF stage, l2, l
  <2>2. stage \in [0 .. Len(events) -> Seq(Elements)] /\ Len(events) \in 0 .. Len(events)
    BY <1>5, <2>1 DEF Path
  <2> QED
    BY <2>1, <2>2 DEF Leads
<1>7. messages \in Seq(ListMessage) /\ Len(messages) = n
  <2>1. \A k \in 1 .. n : [version |-> list_version[side] + k - 1, event |-> events[k]] \in ListMessage
    <3> TAKE k \in 1 .. n
    <3>1. list_version[side] + k - 1 \in Nat /\ events[k] \in ListEvent
      BY <1>3, <1>5
    <3> QED
      BY <3>1 DEF ListMessage
  <2> HIDE DEF n
  <2>2. messages \in [1 .. n -> ListMessage]
    BY <2>1
  <2> HIDE DEF messages
  <2> QED
    BY <1>5, <2>2
<1>8. /\ list' = [list EXCEPT ![side] = l2]
      /\ events_to' = [events_to EXCEPT ![o] = events_to[o] \o messages]
      /\ list_version' = [list_version EXCEPT ![side] = list_version[side] + n]
      /\ operations' = operations + 1
      /\ UNCHANGED <<reported, outside>>
  <2>1. (IF events \in clear(l) THEN << >> ELSE l2) = l2
    BY <1>4
  <2> QED
    BY <1>5, <2>1 DEF ListChange
<1>9. \A k \in 1 .. n : messages[k].version = list_version[side] + k - 1 /\ messages[k].event = events[k]
  OBVIOUS
<1>10. EventsIn(messages) = events
  <2>1. EventsIn(messages) \in Seq(ListEvent) /\ Len(EventsIn(messages)) = n
    BY <1>7, EventsOfMessages
  <2>2. \A k \in 1 .. n : EventsIn(messages)[k] = events[k]
    BY <1>7, <1>9 DEF EventsIn
  <2> HIDE DEF messages
  <2> QED
    BY <1>4, <2>1, <2>2, SeqEqual
<1> HIDE DEF l2, messages, o, n, l
<1> DEFINE q == events_to[o]
           q2 == q \o messages
<1>0. q \in Seq(ListMessage) /\ Len(q) \in Nat
  BY <1>3
<1>11. /\ list'[side] = l2 /\ list'[o] = list[o]
       /\ events_to'[o] = q2 /\ events_to'[side] = events_to[side]
       /\ list_version'[side] = list_version[side] + n /\ list_version'[o] = list_version[o]
  BY <1>1, <1>2, <1>8 DEF ListTypeOK
<1>12. /\ q2 \in Seq(ListMessage) /\ Len(q2) = Len(q) + n /\ Len(q) \in Nat
       /\ \A k \in 1 .. Len(q) : q2[k] = q[k]
       /\ \A k \in 1 .. n : q2[Len(q) + k] = messages[k]
  <2> HIDE DEF q
  <2> QED
    BY <1>0, <1>5, <1>7
<1> HIDE DEF q, q2
<1>13. ListTypeOK'
  <2>1. q2 \in Seq([version : Nat, event : ListEvent])
    BY <1>12 DEF ListMessage
  <2>2. list' \in [Peers -> Seq(Elements)]
    BY <1>1, <1>6, <1>8 DEF ListTypeOK
  <2>3. list_version' \in [Peers -> Nat \ {0}]
    BY <1>1, <1>3, <1>5, <1>8 DEF ListTypeOK
  <2>4. events_to' \in [Peers -> Seq([version : Nat, event : ListEvent])]
    BY <1>1, <1>8, <2>1 DEF ListTypeOK, q2, q
  <2>5. operations' \in Nat
    BY <1>1, <1>8 DEF ListTypeOK
  <2>6. reported' \in BOOLEAN /\ outside' \in BOOLEAN
    BY <1>1, <1>8 DEF ListTypeOK
  <2> QED
    BY <2>2, <2>3, <2>4, <2>5, <2>6 DEF ListTypeOK
<1>14. list_version[side] + Len(events_to[side]) = list_version[o] + Len(q)
  BY <1>1, SidesCount DEF o, q
<1>15. Len(events_to[side]) \in Nat
  BY <1>3
<1>16. BothCount'
  <2>1. list_version'[side] + Len(events_to'[side]) = list_version'[o] + Len(events_to'[o])
    <3>1. Len(events_to'[o]) = Len(q) + n /\ Len(events_to'[side]) = Len(events_to[side])
      BY <1>11, <1>12
    <3>2. list_version'[side] = list_version[side] + n /\ list_version'[o] = list_version[o]
      BY <1>11
    <3>3. list_version[side] \in Nat /\ list_version[o] \in Nat
      BY <1>3
    <3> DEFINE v == list_version[side]
               w == list_version[o]
               x == Len(events_to[side])
               y == Len(q)
    <3>4. v \in Nat /\ w \in Nat /\ x \in Nat /\ y \in Nat /\ v + x = w + y
      BY <1>12, <1>14, <1>15, <3>3
    <3> HIDE DEF v, w, x, y
    <3>5. (v + n) + x = w + (y + n)
      BY <1>5, <3>4
    <3> QED
      BY <3>1, <3>2, <3>5 DEF v, w, x, y
  <2>2. side \in {"server", "client"} /\ o = IF side = "server" THEN "client" ELSE "server"
    BY BothPeers DEF o
  <2> QED
    BY <2>1, <2>2 DEF BothCount
<1>17. ASSUME ~reported
       PROVE  ~outside' /\ \A s \in Peers : IF events_to'[Opposite(s)] = << >>
                                            THEN Expecting(s)' ELSE Crossed(s)'
  <2>1. /\ ~outside
        /\ IF events_to[side] = << >> THEN Expecting(o) ELSE Crossed(o)
        /\ IF q = << >> THEN Expecting(side) ELSE Crossed(side)
    BY <1>1, <1>2, <1>17 DEF ListsFollow, o, q
  <2>2. ASSUME events_to[side] = << >> PROVE Expecting(o)'
    <3>1. list_version[o] + Len(q) = list_version[side]
      <4>1. Len(events_to[side]) = 0 /\ list_version[side] \in Nat
        BY <1>3, <2>2
      <4> QED
        BY <1>14, <4>1
    <3>2. /\ \A k \in 1 .. Len(q) : q[k].version = list_version[o] + k - 1
          /\ Leads(list[o], EventsIn(q), l)
      BY <1>2, <2>1, <2>2 DEF Expecting, l, q
    <3>3. ASSUME NEW k \in 1 .. Len(q2) PROVE q2[k].version = list_version[o] + k - 1
      <4>1. CASE k <= Len(q)
        BY <1>12, <3>2, <4>1
      <4>2. CASE ~(k <= Len(q))
        <5> DEFINE j == k - Len(q)
        <5>1. j \in 1 .. n /\ Len(q) + j = k
          BY <1>5, <1>12, <4>2
        <5> HIDE DEF j
        <5>2. q2[k].version = list_version[side] + j - 1
          BY <1>9, <1>12, <5>1
        <5>3. list_version[o] \in Nat /\ j \in Nat
          BY <1>3, <5>1
        <5>4. (list_version[o] + Len(q)) + j - 1 = list_version[o] + (Len(q) + j) - 1
          BY <1>0, <5>3
        <5> QED
          BY <3>1, <5>1, <5>2, <5>4
      <4> QED
        BY <4>1, <4>2
    <3>4. EventsIn(q2) = EventsIn(q) \o events
      <4>1. /\ EventsIn(q) \in Seq(ListEvent) /\ Len(EventsIn(q)) = Len(q)
            /\ EventsIn(q2) \in Seq(ListEvent) /\ Len(EventsIn(q2)) = Len(q2)
        BY <1>0, <1>12, EventsOfMessages
      <4> DEFINE a == EventsIn(q)
                 both == a \o events
      <4>2. /\ both \in Seq(ListEvent) /\ Len(both) = Len(q) + n
            /\ \A k \in 1 .. Len(q) : both[k] = a[k]
            /\ \A k \in 1 .. n : both[Len(q) + k] = events[k]
        <5>1. n = Len(events)
          BY DEF n
        <5>2. a \in Seq(ListEvent) /\ Len(a) = Len(q)
          BY <4>1
        <5> HIDE DEF a
        <5> QED
          BY <1>4, <5>1, <5>2
      <4> HIDE DEF both
      <4>3. ASSUME NEW k \in 1 .. Len(q2) PROVE EventsIn(q2)[k] = both[k]
        <5>0. EventsIn(q2)[k] = q2[k].event
          BY DEF EventsIn
        <5>1. CASE k <= Len(q)
          <6>1. k \in 1 .. Len(q) /\ a[k] = q[k].event
            BY <1>12, <5>1 DEF EventsIn
          <6> QED
            BY <1>12, <4>2, <5>0, <6>1
        <5>2. CASE ~(k <= Len(q))
          <6> DEFINE j == k - Len(q)
          <6>1. j \in 1 .. n /\ Len(q) + j = k
            BY <1>5, <1>12, <5>2
          <6> HIDE DEF j
          <6> QED
            BY <1>9, <1>12, <4>2, <5>0, <6>1
        <5> QED
          BY <5>1, <5>2
      <4>4. EventsIn(q2) = both
        <5>1. Len(EventsIn(q2)) = Len(both)
          BY <1>12, <4>1, <4>2
        <5> QED
          BY <4>1, <4>2, <4>3, <5>1, SeqEqual
      <4> QED
        BY <4>4 DEF both
    <3>5. Leads(list[o], EventsIn(q2), l2)
      <4>1. EventsIn(q) \in Seq(ListEvent)
        BY <1>0, EventsOfMessages
      <4> QED
        BY <1>4, <1>6, <3>2, <3>4, <4>1, LeadsOn
    <3> QED
      BY <1>2, <1>11, <3>3, <3>5 DEF Expecting
  <2>3. ASSUME events_to[side] # << >> PROVE Crossed(o)'
    <3> SUFFICES ASSUME q2 # << >> PROVE q2[1].version < list_version[o]
      BY <1>11 DEF Crossed
    <3>1. CASE q = << >>
      <4>1. Len(q) = 0 /\ Len(events_to[side]) >= 1
        BY <1>3, <2>3, <3>1
      <4>2. 1 \in 1 .. n
        BY <1>5, <1>12, <4>1
      <4>3. q2[1] = messages[1]
        <5>1. Len(q) + 1 = 1
          BY <4>1
        <5> QED
          BY <1>12, <4>2, <5>1
      <4>4. q2[1].version = list_version[side]
        <5>1. messages[1].version = list_version[side] + 1 - 1 /\ list_version[side] \in Nat
          BY <1>3, <1>9, <4>2
        <5> QED
          BY <4>3, <5>1
      <4>5. list_version[side] \in Nat /\ list_version[o] \in Nat
        BY <1>3
      <4> QED
        BY <1>14, <1>15, <4>1, <4>4, <4>5
    <3>2. CASE q # << >>
      <4>1. 1 \in 1 .. Len(q)
        BY <1>0, <3>2
      <4>2. q[1].version < list_version[o]
        BY <2>1, <2>3, <3>2 DEF Crossed, q
      <4> QED
        BY <1>12, <4>1, <4>2
    <3> QED
      BY <3>1, <3>2
  <2>4. ASSUME q2 = << >> PROVE Expecting(side)'
    <3>1. n = 0 /\ Len(q) = 0
      <4>1. Len(q2) = 0
        BY <2>4
      <4> QED
        BY <1>5, <1>12, <4>1
    <3>2. q = << >>
      BY <1>0, <3>1
    <3>3. l2 = l
      BY <1>4, <1>5, <3>1 DEF Path, l2, n
    <3>4. Expecting(side)
      BY <2>1, <3>2
    <3>5. list_version[side] + n = list_version[side]
      BY <1>3, <3>1
    <3> QED
      BY <1>11, <3>3, <3>4, <3>5 DEF Expecting, o, l
  <2>5. ASSUME q2 # << >> PROVE Crossed(side)'
    <3> SUFFICES ASSUME events_to[side] # << >>
                 PROVE  events_to[side][1].version < list_version[side] + n
      BY <1>11 DEF Crossed
    <3>1. 1 \in 1 .. Len(events_to[side]) /\ list_version[side] \in Nat
      BY <1>3
    <3>2. events_to[side][1].version \in Nat
      <4>1. events_to[side][1] \in ListMessage
        BY <1>3, <3>1
      <4> QED
        BY <4>1 DEF ListMessage
    <3>3. CASE q = << >>
      <4>1. n >= 1
        <5>1. Len(q2) # 0 /\ Len(q) = 0
          BY <1>12, <2>5, <3>3
        <5> QED
          BY <1>5, <1>12, <5>1
      <4>2. events_to[side][1].version = list_version[side] + 1 - 1
        BY <2>1, <3>1, <3>3 DEF Expecting
      <4> QED
        BY <1>5, <3>1, <4>1, <4>2
    <3>4. CASE q # << >>
      <4>1. events_to[side][1].version < list_version[side]
        BY <2>1, <3>4 DEF Crossed
      <4> QED
        BY <1>5, <3>1, <3>2, <4>1
    <3> QED
      BY <3>3, <3>4
  <2>6. IF events_to'[side] = << >> THEN Expecting(o)' ELSE Crossed(o)'
    BY <1>11, <2>2, <2>3
  <2>7. IF events_to'[o] = << >> THEN Expecting(side)' ELSE Crossed(side)'
    BY <1>11, <2>4, <2>5
  <2>8. ~outside'
    BY <1>8, <2>1
  <2> QED
    BY <1>2, <2>6, <2>7, <2>8 DEF o
<1>18. ListsFollow'
  BY <1>8, <1>17 DEF ListsFollow
<1> QED
  BY <1>13, <1>16, <1>18 DEF ListInv

\* What is received is either what leads on to the other side's list, or reported.
LEMMA ListReceiveStep ==
    ASSUME ListInv, NEW side \in Peers, list_on_wire_received(side)
    PROVE  ListInv'
<1> DEFINE o == Opposite(side)
           q == events_to[side]
           event == q[1].event
<1>1. ListTypeOK /\ BothCount /\ ListsFollow
  BY DEF ListInv
<1>2. /\ o \in Peers /\ o # side /\ Opposite(o) = side /\ Peers = {side, o}
  BY BothPeers
<1>3. /\ list[side] \in Seq(Elements) /\ list_version[side] \in Nat \ {0} /\ q \in Seq(ListMessage)
      /\ list[o] \in Seq(Elements) /\ list_version[o] \in Nat \ {0} /\ events_to[o] \in Seq(ListMessage)
  BY <1>1, <1>2, SideTyped
<1>4. q # << >> /\ ~outside /\ Head(q) = q[1]
  BY <1>3 DEF list_on_wire_received
<1>5. /\ reported' = (reported \/ q[1].version # list_version[side])
      /\ IF Fits(list[side], event)
         THEN list' = [list EXCEPT ![side] = Apply(list[side], event)] /\ UNCHANGED outside
         ELSE outside' = TRUE /\ UNCHANGED list
      /\ list_version' = [list_version EXCEPT ![side] = list_version[side] + 1]
      /\ events_to' = [events_to EXCEPT ![side] = Tail(q)]
      /\ UNCHANGED operations
  BY <1>4 DEF list_on_wire_received, Expected
<1>6. /\ Len(q) \in Nat /\ Len(q) >= 1 /\ 1 \in 1 .. Len(q) /\ q[1] \in ListMessage
      /\ Tail(q) \in Seq(ListMessage) /\ Len(Tail(q)) = Len(q) - 1
      /\ \A k \in 1 .. Len(q) - 1 : Tail(q)[k] = q[k + 1]
  BY <1>3, <1>4
<1>7. event \in ListEvent
  BY <1>6 DEF ListMessage
<1> HIDE DEF o, q, event
<1>8. /\ events_to'[side] = Tail(q) /\ events_to'[o] = events_to[o]
      /\ list_version'[side] = list_version[side] + 1 /\ list_version'[o] = list_version[o]
  BY <1>1, <1>2, <1>5 DEF ListTypeOK
<1>9. ListTypeOK'
  <2>1. list' \in [Peers -> Seq(Elements)]
    <3>1. CASE Fits(list[side], event)
      <4>1. Apply(list[side], event) \in Seq(Elements)
        BY <1>3, <1>7, <3>1, ApplyList
      <4> QED
        BY <1>1, <1>5, <3>1, <4>1 DEF ListTypeOK
    <3>2. CASE ~Fits(list[side], event)
      BY <1>1, <1>5, <3>2 DEF ListTypeOK
    <3> QED
      BY <3>1, <3>2
  <2>2. list_version' \in [Peers -> Nat \ {0}]
    BY <1>1, <1>3, <1>5 DEF ListTypeOK
  <2>3. events_to' \in [Peers -> Seq([version : Nat, event : ListEvent])]
    BY <1>1, <1>5, <1>6 DEF ListTypeOK, ListMessage
  <2>4. reported' \in BOOLEAN
    BY <1>1, <1>5 DEF ListTypeOK
  <2>5. outside' \in BOOLEAN
    BY <1>1, <1>5 DEF ListTypeOK
  <2> QED
    BY <1>1, <1>5, <2>1, <2>2, <2>3, <2>4, <2>5 DEF ListTypeOK
<1>10. BothCount'
  <2>0. list_version[side] + Len(q) = list_version[o] + Len(events_to[o])
    BY <1>1, SidesCount DEF o, q
  <2>1. list_version'[side] + Len(events_to'[side]) = list_version'[o] + Len(events_to'[o])
    <3>1. Len(events_to'[side]) = Len(q) - 1 /\ events_to'[o] = events_to[o]
      BY <1>6, <1>8
    <3>2. list_version'[side] = list_version[side] + 1 /\ list_version'[o] = list_version[o]
      BY <1>8
    <3>3. list_version[side] \in Nat /\ list_version[o] \in Nat /\ Len(events_to[o]) \in Nat
      BY <1>3
    <3> DEFINE v == list_version[side]
               w == list_version[o]
               x == Len(q)
               y == Len(events_to[o])
    <3>4. v \in Nat /\ w \in Nat /\ x \in Nat /\ y \in Nat /\ v + x = w + y
      BY <1>6, <2>0, <3>3
    <3> HIDE DEF v, w, x, y
    <3>5. (v + 1) + (x - 1) = w + y
      BY <3>4
    <3> QED
      BY <3>1, <3>2, <3>5 DEF v, w, x, y
  <2>2. side \in {"server", "client"} /\ o = IF side = "server" THEN "client" ELSE "server"
    BY BothPeers DEF o
  <2> QED
    BY <2>1, <2>2 DEF BothCount
<1>11. ASSUME ~reported'
       PROVE  ~outside' /\ \A s \in Peers : IF events_to'[Opposite(s)] = << >>
                                            THEN Expecting(s)' ELSE Crossed(s)'
  <2>1. ~reported /\ q[1].version = list_version[side]
    BY <1>5, <1>11
  <2>2. IF events_to[o] = << >> THEN Expecting(side) ELSE Crossed(side)
    BY <1>1, <2>1 DEF ListsFollow, o
  <2>3. events_to[o] = << >>
    <3> SUFFICES ASSUME Crossed(side) PROVE FALSE
      BY <2>2
    <3>1. q[1].version < list_version[side]
      BY <1>4 DEF Crossed, q
    <3> QED
      BY <1>3, <2>1, <3>1
  <2>4. /\ \A k \in 1 .. Len(q) : q[k].version = list_version[side] + k - 1
        /\ Leads(list[side], EventsIn(q), list[o])
    BY <2>2, <2>3 DEF Expecting, q, o
  <2>5. /\ EventsIn(q) \in Seq(ListEvent) /\ EventsIn(q) # << >> /\ EventsIn(q)[1] = event
        /\ EventsIn(Tail(q)) = Tail(EventsIn(q))
    BY <1>3, <1>4, EventsOfMessages DEF event
  <2>6. Fits(list[side], event) /\ Leads(Apply(list[side], event), EventsIn(Tail(q)), list[o])
    BY <2>4, <2>5, LeadsNext
  <2>7. list'[side] = Apply(list[side], event) /\ list'[o] = list[o] /\ ~outside'
    BY <1>1, <1>2, <1>4, <1>5, <2>6 DEF ListTypeOK
  <2>8. Expecting(side)'
    <3>1. \A k \in 1 .. Len(Tail(q)) : Tail(q)[k].version = (list_version[side] + 1) + k - 1
      <4> TAKE k \in 1 .. Len(Tail(q))
      <4>1. k + 1 \in 1 .. Len(q) /\ Tail(q)[k] = q[k + 1] /\ k \in Nat
        BY <1>6
      <4>2. q[k + 1].version = list_version[side] + (k + 1) - 1
        BY <2>4, <4>1
      <4>3. list_version[side] \in Nat
        BY <1>3
      <4>4. list_version[side] + (k + 1) - 1 = (list_version[side] + 1) + k - 1
        BY <4>1, <4>3
      <4> QED
        BY <4>1, <4>2, <4>4
    <3> QED
      BY <1>8, <2>6, <2>7, <3>1 DEF Expecting, o
  <2>9. IF events_to'[side] = << >> THEN Expecting(o)' ELSE Crossed(o)'
    <3>1. CASE Tail(q) = << >>
      <4>1. EventsIn(<< >>) = << >>
        BY DEF EventsIn
      <4>2. Apply(list[side], event) \in Seq(Elements)
        BY <1>3, <1>7, <2>6, ApplyList
      <4>3. list'[o] = list'[side]
        BY <2>6, <2>7, <3>1, <4>1, <4>2, NoneLeads
      <4>4. Leads(list'[o], << >>, list'[side])
        BY <1>3, <2>7, <4>3, NoneLeads
      <4>5. Expecting(o)'
        BY <1>2, <1>8, <2>3, <4>1, <4>4 DEF Expecting
      <4> QED
        BY <1>8, <3>1, <4>5
    <3>2. CASE Tail(q) # << >>
      BY <1>8, <2>3, <3>2 DEF Crossed
    <3> QED
      BY <3>1, <3>2
  <2>10. IF events_to'[o] = << >> THEN Expecting(side)' ELSE Crossed(side)'
    BY <1>8, <2>3, <2>8
  <2> QED
    BY <1>2, <2>7, <2>9, <2>10 DEF o
<1>12. ListsFollow'
  BY <1>11 DEF ListsFollow
<1> QED
  BY <1>9, <1>10, <1>12 DEF ListInv

LEMMA ListInvStep == ListInv /\ [ListNext]_listVars => ListInv'
<1> SUFFICES ASSUME ListInv, [ListNext]_listVars PROVE ListInv'
  OBVIOUS
<1>1. CASE UNCHANGED listVars
  BY <1>1 DEF listVars, ListInv, ListTypeOK, BothCount, ListsFollow, Expecting, Crossed
<1>2. ASSUME NEW side \in Peers, list_on_wire_received(side) PROVE ListInv'
  BY <1>2, ListReceiveStep
<1>3. ASSUME NEW side \in Peers, Operation(side) PROVE ListInv'
  BY <1>3, ListChangeStep DEF Operation
<1> QED
  BY <1>1, <1>2, <1>3 DEF ListNext

\* The types of both sides, their counters, and what is under way between them.
THEOREM ListInductive == ListSpec => []ListInv
BY ListInvInit, ListInvStep, PTL DEF ListSpec

\* RdList.h:135-139.  For any elements and any number of operations: sides that
\* change the list at the same time are told, and only then do their lists differ
\* or an index lie outside; the counters agree in any case.
THEOREM DifferOnlyReported == ListSpec => []ListsDifferOnlyReported
<1>1. ASSUME ListInv PROVE ListsDifferOnlyReported
  <2>1. ListTypeOK /\ BothCount /\ ListsFollow
    BY <1>1 DEF ListInv
  <2>2. ASSUME ListQuiet
        PROVE  /\ list_version["server"] = list_version["client"]
               /\ ~reported => list["server"] = list["client"]
    <3>1. events_to["server"] = << >> /\ events_to["client"] = << >>
      BY <2>2, BothPeers DEF ListQuiet
    <3>2. list_version["server"] = list_version["client"]
      BY <2>1, <3>1, BothPeers DEF BothCount, ListTypeOK
    <3>3. ASSUME ~reported PROVE list["server"] = list["client"]
      <4>1. Expecting("server")
        BY <2>1, <3>1, <3>3, BothPeers DEF ListsFollow
      <4>2. EventsIn(<< >>) = << >> /\ list["server"] \in Seq(Elements)
        BY <2>1, BothPeers DEF EventsIn, ListTypeOK
      <4> QED
        BY <3>1, <4>1, <4>2, NoneLeads, BothPeers DEF Expecting
    <3> QED
      BY <3>2, <3>3
  <2> QED
    BY <2>1, <2>2 DEF ListsDifferOnlyReported, ListsFollow
<1> QED
  BY <1>1, ListInductive, PTL
-----------------------------------------------------------------------------
(* What one side of an extension sends the other hears in order, for any    *)
(* number of messages.  Of the messages given to send the first ones have   *)
(* been passed on, and of these the ones that were not heard yet are under  *)
(* way, in order; the last are queued, or one is about to be handed to the  *)
(* wire.  Nothing is passed on before the other side is bound, so nothing   *)
(* is dropped while it still can hear.                                      *)

\* The messages r + 1 .. t are on the wire, in their order, among others.
OnWire(w, r, t) ==
    /\ \A i \in 1 .. Len(w) : w[i].kind = "data" => w[i].msg \in r + 1 .. t
    /\ \A m \in r + 1 .. t : \E i \in 1 .. Len(w) : w[i].kind = "data" /\ w[i].msg = m
    /\ \A i, j \in 1 .. Len(w) :
           i < j /\ w[i].kind = "data" /\ w[j].kind = "data" => w[i].msg < w[j].msg

\* How many messages of a side have been passed on to the wire.
Passed(s) == sent[s] - Len(sendQ[s]) - (IF direct[s] = 0 THEN 0 ELSE 1)

\* The queue holds the last messages; what is handed on directly is the last one.
Kept(s) ==
    /\ Passed(s) \in Nat
    /\ \A k \in 1 .. Len(sendQ[s]) : sendQ[s][k] = Passed(s) + k
    /\ direct[s] # 0 => Len(sendQ[s]) = 0 /\ direct[s] = sent[s]

\* Before the other side is bound nothing comes from it, so all is queued.
NoneBefore(s) ==
    life[Opposite(s)] = "unbound" =>
        /\ Len(arriving[s]) = 0 /\ ~connected[s] /\ ~flushing[s]
        /\ Passed(s) = 0 /\ direct[s] = 0
        /\ Len(received[Opposite(s)]) = 0
        /\ OnWire(arriving[Opposite(s)], 0, 0)

\* While the other side lives it has heard the first messages and the others that
\* were passed on are on the wire.
UnderWay(s) ==
    life[Opposite(s)] = "bound" =>
        /\ Len(received[Opposite(s)]) <= Passed(s)
        /\ OnWire(arriving[Opposite(s)], Len(received[Opposite(s)]), Passed(s))

Heard(s) == \A k \in 1 .. Len(received[s]) : received[s][k] = k

\* A side that is not bound has sent nothing.
Quiet(s) == life[s] = "unbound" => sent[s] = 0 /\ ~flushing[s]

Flow(s) == Kept(s) /\ Quiet(s) /\ NoneBefore(s) /\ UnderWay(s)

ExtInv == ExtTypeOK /\ \A s \in Peers : Flow(s) /\ Heard(s)

-----------------------------------------------------------------------------
(* The wire *)

ExtMessage == [kind : States \cup {"data"}, msg : Nat]

\* What says that a side is ready, or not, does not matter to the messages.
LEMMA StateSent ==
    ASSUME NEW w \in Seq(ExtMessage), NEW a \in ExtMessage, a.kind # "data",
           NEW r \in Nat, NEW t \in Nat, OnWire(w, r, t)
    PROVE  OnWire(Append(w, a), r, t)
  <1>1. /\ Len(Append(w, a)) = Len(w) + 1 /\ Len(w) \in Nat
        /\ \A i \in 1 .. Len(w) : Append(w, a)[i] = w[i]
        /\ Append(w, a)[Len(w) + 1] = a
    OBVIOUS
  <1> DEFINE v == Append(w, a)
  <1> HIDE DEF v
  <1>2. \A i \in 1 .. Len(v) : v[i].kind = "data" => i \in 1 .. Len(w) /\ v[i] = w[i]
    BY <1>1 DEF v
  <1>3. \A i \in 1 .. Len(w) : i \in 1 .. Len(v) /\ v[i] = w[i]
    BY <1>1 DEF v
  <1> QED BY <1>2, <1>3 DEF OnWire, v

\* Messages are passed on one behind the other.
LEMMA DataSent ==
    ASSUME NEW w \in Seq(ExtMessage), NEW q \in Seq(ExtMessage),
           NEW r \in Nat, NEW t \in Nat, r <= t, OnWire(w, r, t),
           \A k \in 1 .. Len(q) : q[k].kind = "data" /\ q[k].msg = t + k
    PROVE  OnWire(w \o q, r, t + Len(q))
  <1> DEFINE v == w \o q
  <1>1. /\ Len(v) = Len(w) + Len(q) /\ Len(w) \in Nat /\ Len(q) \in Nat
        /\ \A i \in 1 .. Len(w) : v[i] = w[i]
        /\ \A i \in 1 .. Len(v) : i \notin 1 .. Len(w) => i - Len(w) \in 1 .. Len(q) /\ v[i] = q[i - Len(w)]
        /\ \A k \in 1 .. Len(q) : Len(w) + k \in 1 .. Len(v) /\ v[Len(w) + k] = q[k]
    OBVIOUS
  <1> HIDE DEF v
  <1>2. \A i \in 1 .. Len(v) : v[i].kind = "data" => v[i].msg \in r + 1 .. t + Len(q)
    <2> SUFFICES ASSUME NEW i \in 1 .. Len(v), v[i].kind = "data"
                 PROVE  v[i].msg \in r + 1 .. t + Len(q)
      OBVIOUS
    <2>1. CASE i \in 1 .. Len(w)
      BY <1>1, <2>1 DEF OnWire
    <2>2. CASE i \notin 1 .. Len(w)
      <3>1. PICK k \in 1 .. Len(q) : v[i] = q[k]
        BY <1>1, <2>2
      <3>2. v[i].msg = t + k
        BY <3>1
      <3> QED BY <1>1, <3>2
    <2> QED BY <2>1, <2>2
  <1>3. \A m \in r + 1 .. t + Len(q) : \E i \in 1 .. Len(v) : v[i].kind = "data" /\ v[i].msg = m
    <2> SUFFICES ASSUME NEW m \in r + 1 .. t + Len(q)
                 PROVE  \E i \in 1 .. Len(v) : v[i].kind = "data" /\ v[i].msg = m
      OBVIOUS
    <2>1. CASE m <= t
      <3>1. PICK i \in 1 .. Len(w) : w[i].kind = "data" /\ w[i].msg = m
        BY <2>1 DEF OnWire
      <3> QED BY <1>1, <3>1
    <2>2. CASE m > t
      <3>1. m - t \in 1 .. Len(q) /\ t + (m - t) = m
        BY <1>1, <2>2
      <3>2. Len(w) + (m - t) \in 1 .. Len(v) /\ v[Len(w) + (m - t)] = q[m - t]
        BY <1>1, <3>1
      <3>3. q[m - t].kind = "data" /\ q[m - t].msg = m
        BY <3>1
      <3> QED BY <3>2, <3>3
    <2> QED BY <2>1, <2>2
  <1>4. \A i, j \in 1 .. Len(v) :
            i < j /\ v[i].kind = "data" /\ v[j].kind = "data" => v[i].msg < v[j].msg
    <2> SUFFICES ASSUME NEW i \in 1 .. Len(v), NEW j \in 1 .. Len(v), i < j,
                        v[i].kind = "data", v[j].kind = "data"
                 PROVE  v[i].msg < v[j].msg
      OBVIOUS
    <2>1. CASE j \in 1 .. Len(w)
      <3>1. i \in 1 .. Len(w)
        BY <1>1, <2>1
      <3> QED BY <1>1, <2>1, <3>1 DEF OnWire
    <2>2. CASE i \in 1 .. Len(w) /\ j \notin 1 .. Len(w)
      <3>1. v[i].msg \in r + 1 .. t
        BY <1>1, <2>2 DEF OnWire
      <3>2. v[j].msg = t + (j - Len(w)) /\ j - Len(w) >= 1
        <4>1. j - Len(w) \in 1 .. Len(q) /\ v[j] = q[j - Len(w)]
          BY <1>1, <2>2
        <4> QED BY <1>1, <4>1
      <3> QED BY <1>1, <3>1, <3>2
    <2>3. CASE i \notin 1 .. Len(w) /\ j \notin 1 .. Len(w)
      <3>1. v[j].msg = t + (j - Len(w)) /\ v[i].msg = t + (i - Len(w))
        <4>1. /\ j - Len(w) \in 1 .. Len(q) /\ v[j] = q[j - Len(w)]
              /\ i - Len(w) \in 1 .. Len(q) /\ v[i] = q[i - Len(w)]
          BY <1>1, <2>3
        <4> QED BY <4>1
      <3> QED BY <1>1, <3>1
    <2> QED BY <1>1, <2>1, <2>2, <2>3
  <1> QED BY <1>2, <1>3, <1>4 DEF OnWire, v

\* The first thing on the wire is no message.
LEMMA StateTaken ==
    ASSUME NEW w \in Seq(ExtMessage), w # << >>, Head(w).kind # "data",
           NEW r \in Nat, NEW t \in Nat, OnWire(w, r, t)
    PROVE  OnWire(Tail(w), r, t)
  <1>1. /\ Len(w) \in Nat \ {0} /\ Len(Tail(w)) = Len(w) - 1
        /\ \A i \in 1 .. Len(Tail(w)) : Tail(w)[i] = w[i + 1] /\ i + 1 \in 1 .. Len(w)
        /\ \A i \in 1 .. Len(w) : i # 1 => i - 1 \in 1 .. Len(Tail(w)) /\ Tail(w)[i - 1] = w[i]
        /\ Head(w) = w[1]
    OBVIOUS
  <1> DEFINE v == Tail(w)
  <1> HIDE DEF v
  <1>2. \A m \in r + 1 .. t : \E i \in 1 .. Len(v) : v[i].kind = "data" /\ v[i].msg = m
    <2> TAKE m \in r + 1 .. t
    <2>1. PICK i \in 1 .. Len(w) : w[i].kind = "data" /\ w[i].msg = m
      BY DEF OnWire
    <2> QED BY <1>1, <2>1 DEF v
  <1>3. /\ \A i \in 1 .. Len(v) : v[i].kind = "data" => v[i].msg \in r + 1 .. t
        /\ \A i, j \in 1 .. Len(v) :
               i < j /\ v[i].kind = "data" /\ v[j].kind = "data" => v[i].msg < v[j].msg
    BY <1>1 DEF OnWire, v
  <1> QED BY <1>2, <1>3 DEF OnWire, v

\* The first message on the wire is the next one to be heard.
LEMMA DataTaken ==
    ASSUME NEW w \in Seq(ExtMessage), w # << >>, Head(w).kind = "data",
           NEW r \in Nat, NEW t \in Nat, OnWire(w, r, t)
    PROVE  Head(w).msg = r + 1 /\ r + 1 <= t /\ OnWire(Tail(w), r + 1, t)
  <1>1. /\ Len(w) \in Nat \ {0} /\ Len(Tail(w)) = Len(w) - 1
        /\ \A i \in 1 .. Len(Tail(w)) : Tail(w)[i] = w[i + 1] /\ i + 1 \in 1 .. Len(w)
        /\ \A i \in 1 .. Len(w) : i # 1 => i - 1 \in 1 .. Len(Tail(w)) /\ Tail(w)[i - 1] = w[i]
        /\ Head(w) = w[1] /\ 1 \in 1 .. Len(w)
    OBVIOUS
  <1> DEFINE v == Tail(w)
  <1> HIDE DEF v
  <1>2. w[1].msg \in r + 1 .. t
    BY <1>1 DEF OnWire
  <1>3. w[1].msg = r + 1
    <2>1. PICK i \in 1 .. Len(w) : w[i].kind = "data" /\ w[i].msg = r + 1
      BY <1>2 DEF OnWire
    <2>2. i # 1 => w[1].msg < w[i].msg
      BY <1>1, <2>1 DEF OnWire
    <2> QED BY <1>2, <2>1, <2>2
  <1>4. \A i \in 1 .. Len(v) : v[i].kind = "data" => v[i].msg \in r + 1 + 1 .. t
    <2> SUFFICES ASSUME NEW i \in 1 .. Len(v), v[i].kind = "data"
                 PROVE  v[i].msg \in r + 1 + 1 .. t
      OBVIOUS
    <2>1. i + 1 \in 1 .. Len(w) /\ 1 < i + 1 /\ v[i] = w[i + 1]
      BY <1>1 DEF v
    <2>2. w[1].msg < w[i + 1].msg /\ w[i + 1].msg \in r + 1 .. t
      BY <1>1, <2>1 DEF OnWire
    <2> QED BY <1>3, <2>1, <2>2
  <1>5. \A m \in r + 1 + 1 .. t : \E i \in 1 .. Len(v) : v[i].kind = "data" /\ v[i].msg = m
    <2> TAKE m \in r + 1 + 1 .. t
    <2>1. m \in r + 1 .. t /\ m # r + 1
      OBVIOUS
    <2>2. PICK i \in 1 .. Len(w) : w[i].kind = "data" /\ w[i].msg = m
      BY <2>1 DEF OnWire
    <2> QED BY <1>1, <1>3, <2>1, <2>2 DEF v
  <1>6. \A i, j \in 1 .. Len(v) :
            i < j /\ v[i].kind = "data" /\ v[j].kind = "data" => v[i].msg < v[j].msg
    BY <1>1 DEF OnWire, v
  <1> QED BY <1>1, <1>2, <1>3, <1>4, <1>5, <1>6 DEF OnWire, v

-----------------------------------------------------------------------------
(* The steps: what a side sends, and what the other one sends to it *)

LEMMA Others ==
    ASSUME NEW side \in Peers
    PROVE  /\ Opposite(side) \in Peers /\ Opposite(Opposite(side)) = side /\ Opposite(side) # side
           /\ \A s \in Peers : s = side \/ s = Opposite(side)
  BY DEF Peers, Opposite

\* What the type invariant says of one side.
LEMMA Typed ==
    ASSUME ExtTypeOK, NEW s \in Peers
    PROVE  /\ Len(sendQ[s]) \in Nat /\ sent[s] \in Nat /\ direct[s] \in Nat
           /\ Len(received[s]) \in Nat /\ Len(arriving[s]) \in Nat
           /\ sendQ[s] \in Seq(Nat) /\ received[s] \in Seq(Nat)
           /\ arriving[s] \in Seq(ExtMessage)
  <1>1. sendQ[s] \in Seq(Nat) /\ received[s] \in Seq(Nat) /\ sent[s] \in Nat /\ direct[s] \in Nat
    BY DEF ExtTypeOK
  <1>2. arriving[s] \in Seq(ExtMessage)
    BY DEF ExtTypeOK, ExtMessage
  <1> HIDE DEF ExtMessage, Peers
  <1> QED BY <1>1, <1>2

\* A state put on the wire, as Bind and EndLife do.
LEMMA StateCarried ==
    ASSUME ExtTypeOK, NEW side \in Peers, NEW state \in States,
           arriving' = Carry(arriving, side, State(state))
    PROVE  /\ arriving' \in [Peers -> Seq([kind : States \cup {"data"}, msg : Nat])]
           /\ arriving'[side] = arriving[side]
           /\ \A r, t \in Nat : OnWire(arriving[Opposite(side)], r, t) => OnWire(arriving'[Opposite(side)], r, t)
  <1>1. State(state) \in ExtMessage /\ State(state).kind # "data"
    BY DEF State, ExtMessage, States
  <1>2. arriving[Opposite(side)] \in Seq(ExtMessage) /\ Opposite(side) \in Peers /\ Opposite(side) # side
    BY Typed, Others
  <1>3. Append(arriving[Opposite(side)], State(state)) \in Seq(ExtMessage)
    BY <1>1, <1>2
  <1>4. /\ arriving'[side] = arriving[side]
        /\ arriving'[Opposite(side)] = Append(arriving[Opposite(side)], State(state))
    BY <1>2 DEF Carry, ExtTypeOK
  <1>5. arriving' \in [Peers -> Seq(ExtMessage)]
    BY <1>2, <1>3 DEF Carry, ExtTypeOK, ExtMessage
  <1>6. \A r, t \in Nat : OnWire(arriving[Opposite(side)], r, t) => OnWire(arriving'[Opposite(side)], r, t)
    BY <1>1, <1>2, <1>4, StateSent
  <1> QED BY <1>4, <1>5, <1>6 DEF ExtMessage

LEMMA ExtInvInit == ExtInit => ExtInv
  <1> SUFFICES ASSUME ExtInit PROVE ExtInv
    OBVIOUS
  <1>1. \A T : << >> \in Seq(T) /\ Len(<< >>) = 0
    OBVIOUS
  <1>2. ExtTypeOK
    BY <1>1 DEF ExtInit, ExtTypeOK
  <1>3. ASSUME NEW s \in Peers PROVE Flow(s) /\ Heard(s)
    <2>1. /\ life[s] = "unbound" /\ ~flushing[s] /\ ~connected[s] /\ sendQ[s] = << >>
          /\ direct[s] = 0 /\ sent[s] = 0 /\ received[s] = << >> /\ arriving[s] = << >>
          /\ life[Opposite(s)] = "unbound" /\ received[Opposite(s)] = << >> /\ arriving[Opposite(s)] = << >>
      BY Others DEF ExtInit
    <2>2. OnWire(<< >>, 0, 0)
      BY <1>1 DEF OnWire
    <2>3. Len(sendQ[s]) = 0 /\ Passed(s) = 0
      <3>1. Len(sendQ[s]) = 0
        BY <2>1
      <3>2. sent[s] = 0 /\ direct[s] = 0
        BY <2>1
      <3> QED BY <3>1, <3>2 DEF Passed
    <2>4. Kept(s)
      BY <2>1, <2>3 DEF Kept
    <2> QED BY <1>1, <2>1, <2>2, <2>3, <2>4 DEF Flow, Quiet, NoneBefore, UnderWay, Heard
  <1> QED BY <1>2, <1>3 DEF ExtInv

\* The lifetime begins.
LEMMA BindStep ==
    ASSUME ExtInv, NEW side \in Peers, Bind(side)
    PROVE  ExtInv'
  <1> DEFINE o == Opposite(side)
  <1>1. /\ o \in Peers /\ Opposite(o) = side /\ o # side /\ \A s \in Peers : s = side \/ s = o
    BY Others
  <1>2. /\ life[side] = "unbound" /\ life'[side] = "bound" /\ life'[o] = life[o]
        /\ life' \in [Peers -> {"unbound", "bound", "ended"}]
        /\ UNCHANGED <<connected, flushing, sendQ, direct, sent, received>>
    BY <1>1 DEF Bind, ExtInv, ExtTypeOK
  <1>3. /\ arriving' \in [Peers -> Seq([kind : States \cup {"data"}, msg : Nat])]
        /\ arriving'[side] = arriving[side]
        /\ \A r, t \in Nat : OnWire(arriving[o], r, t) => OnWire(arriving'[o], r, t)
    BY StateCarried DEF Bind, ExtInv, States
  <1>4. ExtTypeOK'
    BY <1>2, <1>3 DEF ExtInv, ExtTypeOK
  <1>5. /\ Kept(side)' /\ Kept(o)' /\ Heard(side)' /\ Heard(o)'
        /\ Passed(side)' = Passed(side) /\ Passed(o)' = Passed(o)
    BY <1>1, <1>2 DEF ExtInv, Flow, Kept, Passed, Heard
  <1>6. Quiet(side)' /\ Quiet(o)'
    BY <1>1, <1>2 DEF ExtInv, Flow, Quiet
  <1>7. /\ Len(received[o]) \in Nat /\ Len(received[side]) \in Nat
        /\ Passed(side) \in Nat /\ Passed(o) \in Nat
    BY <1>1, Typed DEF ExtInv, Flow, Kept
  <1>8. NoneBefore(side)' /\ UnderWay(side)'
    <2> HIDE DEF o
    <2>1. NoneBefore(side) /\ UnderWay(side) /\ o = Opposite(side)
      BY DEF ExtInv, Flow, o
    <2>2. OnWire(arriving[o], 0, 0) => OnWire(arriving'[o], 0, 0)
      BY <1>3
    <2>3. OnWire(arriving[o], Len(received[o]), Passed(side))
              => OnWire(arriving'[o], Len(received[o]), Passed(side))
      BY <1>3, <1>7
    <2>4. NoneBefore(side)'
      BY <1>1, <1>2, <1>3, <1>5, <2>1, <2>2 DEF NoneBefore
    <2>5. UnderWay(side)'
      BY <1>1, <1>2, <1>5, <2>1, <2>3 DEF UnderWay
    <2> QED BY <2>4, <2>5
  <1>9. NoneBefore(o)' /\ UnderWay(o)'
    <2> HIDE DEF o
    <2>1. NoneBefore(o)
      BY <1>1 DEF ExtInv, Flow
    <2>2. Passed(o) = 0 /\ Len(received[side]) = 0 /\ OnWire(arriving[side], 0, 0)
      BY <1>1, <1>2, <2>1 DEF NoneBefore
    <2> QED BY <1>1, <1>2, <1>3, <1>5, <2>2 DEF NoneBefore, UnderWay
  <1> QED BY <1>1, <1>4, <1>5, <1>6, <1>8, <1>9 DEF ExtInv, Flow

\* The lifetime ends.
LEMMA EndStep ==
    ASSUME ExtInv, NEW side \in Peers, EndLife(side)
    PROVE  ExtInv'
  <1> DEFINE o == Opposite(side)
  <1>1. /\ o \in Peers /\ Opposite(o) = side /\ o # side /\ \A s \in Peers : s = side \/ s = o
    BY Others
  <1>2. /\ life[side] = "bound" /\ life'[side] = "ended" /\ life'[o] = life[o]
        /\ life' \in [Peers -> {"unbound", "bound", "ended"}]
        /\ UNCHANGED <<connected, flushing, sendQ, direct, sent, received>>
    BY <1>1 DEF EndLife, ExtInv, ExtTypeOK
  <1>3. /\ arriving' \in [Peers -> Seq([kind : States \cup {"data"}, msg : Nat])]
        /\ arriving'[side] = arriving[side]
        /\ \A r, t \in Nat : OnWire(arriving[o], r, t) => OnWire(arriving'[o], r, t)
    BY StateCarried DEF EndLife, ExtInv, States
  <1>4. ExtTypeOK'
    BY <1>2, <1>3 DEF ExtInv, ExtTypeOK
  <1>5. /\ Kept(side)' /\ Kept(o)' /\ Heard(side)' /\ Heard(o)'
        /\ Passed(side)' = Passed(side) /\ Passed(o)' = Passed(o)
    BY <1>1, <1>2 DEF ExtInv, Flow, Kept, Passed, Heard
  <1>6. Quiet(side)' /\ Quiet(o)'
    BY <1>1, <1>2 DEF ExtInv, Flow, Quiet
  <1>7. /\ Len(received[o]) \in Nat /\ Len(received[side]) \in Nat
        /\ Passed(side) \in Nat /\ Passed(o) \in Nat
    BY <1>1, Typed DEF ExtInv, Flow, Kept
  <1>8. NoneBefore(side)' /\ UnderWay(side)'
    <2> HIDE DEF o
    <2>1. NoneBefore(side) /\ UnderWay(side) /\ o = Opposite(side)
      BY DEF ExtInv, Flow, o
    <2>2. OnWire(arriving[o], 0, 0) => OnWire(arriving'[o], 0, 0)
      BY <1>3
    <2>3. OnWire(arriving[o], Len(received[o]), Passed(side))
              => OnWire(arriving'[o], Len(received[o]), Passed(side))
      BY <1>3, <1>7
    <2>4. NoneBefore(side)'
      BY <1>1, <1>2, <1>3, <1>5, <2>1, <2>2 DEF NoneBefore
    <2>5. UnderWay(side)'
      BY <1>1, <1>2, <1>5, <2>1, <2>3 DEF UnderWay
    <2> QED BY <2>4, <2>5
  <1>9. NoneBefore(o)' /\ UnderWay(o)'
    BY <1>1, <1>2 DEF NoneBefore, UnderWay
  <1> QED BY <1>1, <1>4, <1>5, <1>6, <1>8, <1>9 DEF ExtInv, Flow

\* A message is given to send: it is queued, or it is the one to be handed on.
LEMMA SendStep ==
    ASSUME ExtInv, NEW side \in Peers, send(side)
    PROVE  ExtInv'
  <1> DEFINE o == Opposite(side)
  <1>1. /\ o \in Peers /\ Opposite(o) = side /\ o # side /\ \A s \in Peers : s = side \/ s = o
    BY Others
  <1>2. /\ life[side] = "bound" /\ direct[side] = 0
        /\ UNCHANGED <<life, connected, flushing, arriving, received>>
    BY DEF send
  <1>3. /\ sendQ[side] \in Seq(Nat) /\ Len(sendQ[side]) \in Nat /\ sent[side] \in Nat
        /\ Passed(side) = sent[side] - Len(sendQ[side])
    BY <1>2, Typed DEF ExtInv, Passed
  <1>4. sent' \in [Peers -> Nat] /\ sent'[side] = sent[side] + 1 /\ sent'[o] = sent[o]
    <2>1. sent \in [Peers -> Nat] /\ sent' = [sent EXCEPT ![side] = @ + 1]
      BY DEF send, ExtInv, ExtTypeOK
    <2>2. sent[side] + 1 \in Nat
      BY <1>3
    <2> HIDE DEF o
    <2> QED BY <1>1, <2>1, <2>2
  <1>5. /\ sendQ'[o] = sendQ[o] /\ direct'[o] = direct[o]
        /\ sendQ' \in [Peers -> Seq(Nat)] /\ direct' \in [Peers -> Nat]
        /\ \/ sendQ'[side] = Append(sendQ[side], sent[side] + 1) /\ direct'[side] = 0
           \/ /\ connected[side] /\ sendQ[side] = << >>
              /\ sendQ'[side] = << >> /\ direct'[side] = sent[side] + 1
    <2>1. CASE HasToQueue(side)
      <3>1. sendQ' = [sendQ EXCEPT ![side] = Append(@, sent[side] + 1)] /\ direct' = direct
        BY <2>1 DEF send
      <3>2. Append(sendQ[side], sent[side] + 1) \in Seq(Nat)
        BY <1>3
      <3> QED BY <1>1, <1>2, <3>1, <3>2 DEF ExtInv, ExtTypeOK
    <2>2. CASE ~HasToQueue(side)
      <3>1. direct' = [direct EXCEPT ![side] = sent[side] + 1] /\ sendQ' = sendQ
        BY <2>2 DEF send
      <3> QED BY <1>1, <1>2, <1>3, <2>2, <3>1 DEF ExtInv, ExtTypeOK, HasToQueue
    <2> QED BY <2>1, <2>2
  <1>6. ExtTypeOK'
    BY <1>2, <1>4, <1>5 DEF ExtInv, ExtTypeOK
  <1>7. Flow(o)' /\ Heard(o)' /\ Heard(side)'
    <2>1. Flow(o)'
      BY <1>1, <1>2, <1>4, <1>5 DEF ExtInv, Flow, Kept, Passed, Quiet, NoneBefore, UnderWay
    <2>2. Heard(o)' /\ Heard(side)'
      BY <1>1, <1>2 DEF ExtInv, Heard
    <2> QED BY <2>1, <2>2
  <1>8. Kept(side) /\ Passed(side)' = Passed(side) /\ Kept(side)'
    <2>1. Kept(side) /\ Passed(side) \in Nat
      BY DEF ExtInv, Flow, Kept
    <2>2. CASE sendQ'[side] = Append(sendQ[side], sent[side] + 1) /\ direct'[side] = 0
      <3>1. /\ Len(sendQ'[side]) = Len(sendQ[side]) + 1
            /\ \A k \in 1 .. Len(sendQ[side]) : sendQ'[side][k] = sendQ[side][k]
            /\ sendQ'[side][Len(sendQ[side]) + 1] = sent[side] + 1
        BY <1>3, <2>2
      <3>2. Passed(side)' = Passed(side)
        BY <1>3, <1>4, <2>2, <3>1 DEF Passed
      <3>3. ASSUME NEW k \in 1 .. Len(sendQ'[side]) PROVE sendQ'[side][k] = Passed(side) + k
        <4>1. k \in 1 .. Len(sendQ[side]) \/ k = Len(sendQ[side]) + 1
          BY <1>3, <3>1
        <4>2. Passed(side) + (Len(sendQ[side]) + 1) = sent[side] + 1
          BY <1>3
        <4> QED BY <2>1, <3>1, <4>1, <4>2 DEF Kept
      <3> QED BY <2>1, <2>2, <3>2, <3>3 DEF Kept
    <2>3. CASE sendQ[side] = << >> /\ sendQ'[side] = << >> /\ direct'[side] = sent[side] + 1
      <3>1. Len(sendQ[side]) = 0 /\ Len(sendQ'[side]) = 0 /\ direct'[side] # 0
        BY <1>3, <2>3
      <3>2. Passed(side)' = Passed(side)
        BY <1>3, <1>4, <3>1 DEF Passed
      <3> QED BY <1>4, <2>1, <2>3, <3>1, <3>2 DEF Kept
    <2> QED BY <1>5, <2>1, <2>2, <2>3
  <1>9. Quiet(side)' /\ UnderWay(side)' /\ NoneBefore(side)'
    <2>1. Quiet(side) /\ UnderWay(side) /\ NoneBefore(side)
      BY DEF ExtInv, Flow
    <2>2. Quiet(side)' /\ UnderWay(side)'
      BY <1>2, <1>8, <2>1 DEF Quiet, UnderWay
    <2>3. life[o] = "unbound" => direct'[side] = 0
      BY <1>5, <2>1 DEF NoneBefore
    <2> QED BY <1>2, <1>8, <2>1, <2>2, <2>3 DEF NoneBefore
  <1> QED BY <1>1, <1>6, <1>7, <1>8, <1>9 DEF ExtInv, Flow

\* The lemma of both steps that pass messages on: q, which continues what was passed.
LEMMA DataCarried ==
    ASSUME ExtTypeOK, NEW side \in Peers, NEW q \in Seq(ExtMessage), Flow(side), Passed(side)' = Passed(side) + Len(q),
           \A k \in 1 .. Len(q) : q[k].kind = "data" /\ q[k].msg = Passed(side) + k,
           life[Opposite(side)] = "unbound" => q = << >>,
           arriving' = [arriving EXCEPT ![Opposite(side)] = @ \o q],
           UNCHANGED <<life, connected, received>>,
           flushing'[side] => flushing[side],
           Len(q) = 0 => direct'[side] = direct[side]
    PROVE  /\ arriving' \in [Peers -> Seq([kind : States \cup {"data"}, msg : Nat])]
           /\ arriving'[side] = arriving[side]
           /\ NoneBefore(side)' /\ UnderWay(side)'
  <1> DEFINE o == Opposite(side)
  <1>1. o \in Peers /\ o # side /\ o = Opposite(side)
    BY Others
  <1>2. /\ arriving[o] \in Seq(ExtMessage) /\ Len(received[o]) \in Nat /\ Passed(side) \in Nat
        /\ Len(q) \in Nat
    BY <1>1, Typed DEF Flow, Kept
  <1> HIDE DEF o
  <1>3. arriving[o] \o q \in Seq(ExtMessage)
    <2> HIDE DEF ExtMessage
    <2> QED BY <1>2
  <1>4. arriving'[side] = arriving[side] /\ arriving'[o] = arriving[o] \o q
    BY <1>1 DEF ExtTypeOK
  <1>5. arriving' \in [Peers -> Seq(ExtMessage)]
    BY <1>1, <1>3 DEF ExtTypeOK, ExtMessage
  <1>6. NoneBefore(side)'
    <2> SUFFICES ASSUME life[o] = "unbound" PROVE NoneBefore(side)'
      BY <1>1 DEF NoneBefore
    <2>1. q = << >> /\ Len(q) = 0
      BY <1>1
    <2>2. arriving'[o] = arriving[o]
      <3> HIDE DEF ExtMessage
      <3> QED BY <1>2, <1>4, <2>1
    <2>3. Passed(side)' = Passed(side)
      BY <1>2, <2>1
    <2> QED BY <1>1, <1>4, <2>1, <2>2, <2>3 DEF Flow, NoneBefore
  <1>7. UnderWay(side)'
    <2> SUFFICES ASSUME life[o] = "bound" PROVE UnderWay(side)'
      BY <1>1 DEF UnderWay
    <2>1. Len(received[o]) <= Passed(side) /\ OnWire(arriving[o], Len(received[o]), Passed(side))
      BY <1>1 DEF Flow, UnderWay
    <2>2. OnWire(arriving'[o], Len(received[o]), Passed(side) + Len(q))
      BY <1>2, <1>4, <2>1, DataSent
    <2>3. Len(received[o]) <= Passed(side) + Len(q)
      BY <1>2, <2>1
    <2> QED BY <1>1, <2>2, <2>3 DEF UnderWay
  <1> QED BY <1>4, <1>5, <1>6, <1>7 DEF ExtMessage

\* The message that send decided to hand on directly is handed on.
LEMMA DirectStep ==
    ASSUME ExtInv, NEW side \in Peers, SendDirect(side)
    PROVE  ExtInv'
  <1> DEFINE o == Opposite(side)
           q == <<Data(direct[side])>>
  <1>1. /\ o \in Peers /\ Opposite(o) = side /\ o # side /\ \A s \in Peers : s = side \/ s = o
    BY Others
  <1>2. /\ direct[side] # 0 /\ direct' = [direct EXCEPT ![side] = 0]
        /\ UNCHANGED <<life, connected, flushing, sendQ, sent, received>>
        /\ arriving' = Carry(arriving, side, Data(direct[side]))
    BY DEF SendDirect
  <1>3. /\ sent[side] \in Nat /\ direct[side] \in Nat /\ arriving[o] \in Seq(ExtMessage)
        /\ Kept(side) /\ Flow(side) /\ ExtTypeOK
    BY <1>1, Typed DEF ExtInv, Flow
  <1>4. /\ direct'[side] = 0 /\ direct'[o] = direct[o] /\ direct' \in [Peers -> Nat]
    BY <1>1, <1>2, <1>3 DEF ExtTypeOK
  <1>5. /\ Len(sendQ[side]) = 0 /\ direct[side] = sent[side]
        /\ Passed(side) = sent[side] - 1 /\ Passed(side)' = sent[side] /\ Passed(side) \in Nat
    <2>1. Len(sendQ[side]) = 0 /\ direct[side] = sent[side] /\ Passed(side) \in Nat
      BY <1>2, <1>3 DEF Kept
    <2> QED BY <1>2, <1>3, <1>4, <2>1 DEF Passed
  <1>6. q \in Seq(ExtMessage) /\ Len(q) = 1 /\ q[1].kind = "data" /\ q[1].msg = Passed(side) + 1
    <2>1. /\ Data(direct[side]) \in ExtMessage /\ Data(direct[side]).kind = "data"
          /\ Data(direct[side]).msg = direct[side]
      BY <1>3 DEF Data, ExtMessage
    <2> HIDE DEF ExtMessage
    <2>2. q \in Seq(ExtMessage) /\ Len(q) = 1 /\ q[1] = Data(direct[side])
      BY <2>1
    <2> QED BY <1>3, <1>5, <2>1, <2>2
  <1>7. arriving' = [arriving EXCEPT ![o] = @ \o q]
    <2>1. Append(arriving[o], Data(direct[side])) = arriving[o] \o q
      <3> HIDE DEF ExtMessage, o
      <3> QED BY <1>3
    <2> QED BY <1>2, <2>1 DEF Carry
  <1>8. life[o] = "unbound" => q = << >>
    BY <1>2, <1>3 DEF Flow, NoneBefore
  <1>9. /\ arriving' \in [Peers -> Seq([kind : States \cup {"data"}, msg : Nat])]
        /\ arriving'[side] = arriving[side]
        /\ NoneBefore(side)' /\ UnderWay(side)'
    <2> HIDE DEF q
    <2>1. Passed(side)' = Passed(side) + Len(q)
      BY <1>3, <1>5, <1>6
    <2>2. \A k \in 1 .. Len(q) : q[k].kind = "data" /\ q[k].msg = Passed(side) + k
      BY <1>6
    <2>3. Len(q) # 0
      BY <1>6
    <2> QED BY <1>2, <1>3, <1>6, <1>7, <1>8, <2>1, <2>2, <2>3, DataCarried
  <1>10. ExtTypeOK'
    BY <1>2, <1>3, <1>4, <1>9 DEF ExtTypeOK
  <1>11. Kept(side)' /\ Quiet(side)' /\ Heard(side)'
    <2>1. Kept(side)'
      BY <1>2, <1>3, <1>4, <1>5 DEF ExtInv, Flow, Kept
    <2>2. Quiet(side)'
      BY <1>2, <1>3, <1>4, <1>5 DEF ExtInv, Flow, Quiet
    <2>3. Heard(side)'
      BY <1>2, <1>3 DEF ExtInv, Heard
    <2> QED BY <2>1, <2>2, <2>3
  <1>12. Flow(o)' /\ Heard(o)'
    BY <1>1, <1>2, <1>4, <1>9 DEF ExtInv, Flow, Kept, Passed, Quiet, NoneBefore, UnderWay, Heard
  <1> QED BY <1>1, <1>9, <1>10, <1>11, <1>12 DEF ExtInv, Flow

\* The queue is sent.
LEMMA FlushStep ==
    ASSUME ExtInv, NEW side \in Peers, Flush(side)
    PROVE  ExtInv'
  <1> DEFINE o == Opposite(side)
           q == [k \in DOMAIN sendQ[side] |-> Data(sendQ[side][k])]
  <1>1. /\ o \in Peers /\ Opposite(o) = side /\ o # side /\ \A s \in Peers : s = side \/ s = o
    BY Others
  <1>2. /\ flushing[side] /\ flushing' = [flushing EXCEPT ![side] = FALSE]
        /\ sendQ' = [sendQ EXCEPT ![side] = << >>]
        /\ UNCHANGED <<life, connected, direct, sent, received>>
        /\ arriving' = [arriving EXCEPT ![o] = @ \o q]
    BY DEF Flush
  <1>3. /\ sent[side] \in Nat /\ direct[side] \in Nat /\ sendQ[side] \in Seq(Nat)
        /\ Len(sendQ[side]) \in Nat /\ Kept(side) /\ Flow(side) /\ ExtTypeOK
    BY <1>1, Typed DEF ExtInv, Flow
  <1>4. /\ sendQ'[side] = << >> /\ sendQ'[o] = sendQ[o] /\ sendQ' \in [Peers -> Seq(Nat)]
        /\ flushing'[o] = flushing[o] /\ ~flushing'[side] /\ flushing' \in [Peers -> BOOLEAN]
    <2>1. \A T : << >> \in Seq(T)
      OBVIOUS
    <2> QED BY <1>1, <1>2, <1>3, <2>1 DEF ExtTypeOK
  <1>5. Passed(side) \in Nat /\ Passed(side)' = Passed(side) + Len(sendQ[side]) /\ Len(sendQ'[side]) = 0
    <2>1. Passed(side) \in Nat
      BY <1>3 DEF Kept
    <2>2. Len(sendQ'[side]) = 0
      BY <1>4
    <2> QED BY <1>2, <1>3, <2>1, <2>2 DEF Passed
  <1>6. /\ q \in Seq(ExtMessage) /\ Len(q) = Len(sendQ[side])
        /\ \A k \in 1 .. Len(q) : q[k].kind = "data" /\ q[k].msg = Passed(side) + k
    <2>1. DOMAIN sendQ[side] = 1 .. Len(sendQ[side])
      BY <1>3
    <2>2. \A k \in 1 .. Len(sendQ[side]) : sendQ[side][k] \in Nat /\ sendQ[side][k] = Passed(side) + k
      BY <1>3 DEF Kept
    <2>3. \A k \in 1 .. Len(sendQ[side]) :
              q[k] \in ExtMessage /\ q[k].kind = "data" /\ q[k].msg = Passed(side) + k
      BY <2>1, <2>2 DEF Data, ExtMessage
    <2>4. q \in Seq(ExtMessage) /\ Len(q) = Len(sendQ[side])
      <3> HIDE DEF ExtMessage
      <3>1. q \in [1 .. Len(sendQ[side]) -> ExtMessage]
        BY <2>1, <2>3
      <3>2. \A T : \A n \in Nat : \A f \in [1 .. n -> T] : f \in Seq(T) /\ Len(f) = n
        OBVIOUS
      <3> QED BY <1>3, <3>1, <3>2
    <2> QED BY <2>3, <2>4
  <1>7. Len(sendQ[side]) = 0 => q = << >>
    BY <1>3
  <1>8. life[o] = "unbound" => q = << >>
    BY <1>2, <1>3 DEF Flow, NoneBefore
  <1>9. /\ arriving' \in [Peers -> Seq([kind : States \cup {"data"}, msg : Nat])]
        /\ arriving'[side] = arriving[side]
        /\ NoneBefore(side)' /\ UnderWay(side)'
    <2> HIDE DEF q
    <2>1. Passed(side)' = Passed(side) + Len(q)
      BY <1>5, <1>6
    <2> QED BY <1>2, <1>3, <1>4, <1>6, <1>8, <2>1, DataCarried
  <1>10. ExtTypeOK'
    BY <1>2, <1>3, <1>4, <1>9 DEF ExtTypeOK
  <1>11. Kept(side)' /\ Quiet(side)' /\ Heard(side)'
    BY <1>2, <1>3, <1>4, <1>5 DEF ExtInv, Flow, Kept, Quiet, Heard
  <1>12. Flow(o)' /\ Heard(o)'
    <2>1. life[side] # "unbound"
      BY <1>2, <1>3 DEF Flow, Quiet
    <2>2. Flow(o) /\ Heard(o)
      BY <1>1 DEF ExtInv
    <2>3. Kept(o)' /\ Heard(o)' /\ Passed(o)' = Passed(o)
      BY <1>2, <1>4, <2>2 DEF Flow, Kept, Passed, Heard
    <2>4. Quiet(o)' /\ NoneBefore(o)' /\ UnderWay(o)'
      BY <1>1, <1>2, <1>4, <1>9, <2>1, <2>2, <2>3 DEF Flow, Quiet, NoneBefore, UnderWay
    <2> QED BY <2>3, <2>4 DEF Flow
  <1> QED BY <1>1, <1>9, <1>10, <1>11, <1>12 DEF ExtInv, Flow

\* What is taken off the wire.
LEMMA Taken ==
    ASSUME ExtTypeOK, NEW side \in Peers, arriving[side] # << >>
    PROVE  /\ Head(arriving[side]) \in ExtMessage
           /\ Tail(arriving[side]) \in Seq(ExtMessage)
           /\ Len(arriving[side]) # 0
           /\ [arriving EXCEPT ![side] = Tail(@)] \in [Peers -> Seq(ExtMessage)]
           /\ [arriving EXCEPT ![side] = Tail(@)][side] = Tail(arriving[side])
           /\ [arriving EXCEPT ![side] = Tail(@)][Opposite(side)] = arriving[Opposite(side)]
  <1>1. arriving[side] \in Seq(ExtMessage) /\ Opposite(side) \in Peers /\ Opposite(side) # side
    BY Typed, Others
  <1>2. /\ Head(arriving[side]) \in ExtMessage /\ Tail(arriving[side]) \in Seq(ExtMessage)
        /\ Len(arriving[side]) # 0
    <2> HIDE DEF ExtMessage
    <2> QED BY <1>1
  <1>3. arriving \in [Peers -> Seq(ExtMessage)]
    BY DEF ExtTypeOK, ExtMessage
  <1> QED BY <1>1, <1>2, <1>3

\* The scheduler dispatches to an extension that is not bound.
LEMMA DropStep ==
    ASSUME ExtInv, NEW side \in Peers, Drop(side)
    PROVE  ExtInv'
  <1> DEFINE o == Opposite(side)
  <1>1. /\ o \in Peers /\ Opposite(o) = side /\ o # side /\ \A s \in Peers : s = side \/ s = o
    BY Others
  <1>2. /\ arriving[side] # << >> /\ life[side] # "bound"
        /\ UNCHANGED <<life, connected, flushing, sendQ, direct, sent, received>>
    BY DEF Drop
  <1>3. /\ Head(arriving[side]) \in ExtMessage /\ Len(arriving[side]) # 0
        /\ arriving' \in [Peers -> Seq(ExtMessage)]
        /\ arriving'[side] = Tail(arriving[side]) /\ arriving'[o] = arriving[o]
        /\ arriving[side] \in Seq(ExtMessage)
    BY <1>2, Taken, Typed DEF Drop, ExtInv
  <1>4. ExtTypeOK'
    BY <1>2, <1>3 DEF ExtInv, ExtTypeOK, ExtMessage
  <1>5. /\ Kept(side)' /\ Kept(o)' /\ Heard(side)' /\ Heard(o)' /\ Quiet(side)' /\ Quiet(o)'
        /\ Passed(side)' = Passed(side) /\ Passed(o)' = Passed(o)
    BY <1>1, <1>2 DEF ExtInv, Flow, Kept, Passed, Heard, Quiet
  <1>6. NoneBefore(side)' /\ UnderWay(side)'
    <2>1. NoneBefore(side) /\ UnderWay(side)
      BY DEF ExtInv, Flow
    <2> QED BY <1>1, <1>2, <1>3, <1>5, <2>1 DEF NoneBefore, UnderWay
  <1>7. NoneBefore(o)'
    <2> SUFFICES ASSUME life[side] = "unbound" PROVE NoneBefore(o)'
      BY <1>1, <1>2 DEF NoneBefore
    <2>1. NoneBefore(o) /\ OnWire(arriving[side], 0, 0)
      BY <1>1 DEF ExtInv, Flow, NoneBefore
    <2>2. Head(arriving[side]).kind # "data"
      <3> SUFFICES ASSUME Head(arriving[side]).kind = "data" PROVE 0 + 1 <= 0
        OBVIOUS
      <3> HIDE DEF ExtMessage
      <3> QED BY <1>2, <1>3, <2>1, DataTaken
    <2>3. OnWire(Tail(arriving[side]), 0, 0)
      BY <1>2, <1>3, <2>1, <2>2, StateTaken
    <2> QED BY <1>1, <1>2, <1>3, <1>5, <2>1, <2>3 DEF NoneBefore
  <1>8. UnderWay(o)'
    BY <1>1, <1>2 DEF UnderWay
  <1> QED BY <1>1, <1>4, <1>5, <1>6, <1>7, <1>8 DEF ExtInv, Flow

\* A side hears something.
LEMMA HearStep ==
    ASSUME ExtInv, NEW side \in Peers, ext_on_wire_received(side)
    PROVE  ExtInv'
  <1> DEFINE o == Opposite(side)
           message == Head(arriving[side])
           rest == [arriving EXCEPT ![side] = Tail(@)]
  <1>1. /\ o \in Peers /\ Opposite(o) = side /\ o # side /\ \A s \in Peers : s = side \/ s = o
    BY Others
  <1>2. /\ arriving[side] # << >> /\ life[side] = "bound" /\ Dispatch(side, message, rest)
        /\ UNCHANGED <<life, sendQ, direct, sent>>
    BY DEF ext_on_wire_received
  <1>3. /\ message \in ExtMessage /\ Len(arriving[side]) # 0 /\ arriving[o] \in Seq(ExtMessage)
        /\ rest \in [Peers -> Seq(ExtMessage)]
        /\ rest[side] = Tail(arriving[side]) /\ rest[o] = arriving[o]
        /\ arriving[side] \in Seq(ExtMessage)
        /\ Len(received[side]) \in Nat /\ received[side] \in Seq(Nat) /\ Len(received[o]) \in Nat
    BY <1>1, <1>2, Taken, Typed DEF ExtInv
  <1> HIDE DEF message, rest, o
  <1>4. Dispatch(side, message, rest) =>
            /\ connected' \in [Peers -> BOOLEAN] /\ flushing' \in [Peers -> BOOLEAN]
            /\ connected'[o] = connected[o] /\ flushing'[o] = flushing[o]
    BY <1>1, <1>3 DEF Dispatch, Ready, SetConnected, ExtInv, ExtTypeOK, ExtMessage, States
  <1>5. /\ \/ message.kind = "data" /\ arriving' = rest
           \/ message.kind # "data" /\ (arriving' = rest \/ arriving' = Carry(rest, side, State("ReceivedCounterpart")))
        /\ \/ message.kind = "data" /\ received' = [received EXCEPT ![side] = Append(@, message.msg)]
           \/ message.kind # "data" /\ received' = received
    BY <1>2, <1>3 DEF Dispatch, Ready, ExtMessage, States
  <1>6. /\ arriving' \in [Peers -> Seq(ExtMessage)] /\ arriving'[side] = Tail(arriving[side])
        /\ \A r, t \in Nat : OnWire(arriving[o], r, t) => OnWire(arriving'[o], r, t)
    <2>1. CASE arriving' = rest
      BY <1>3, <2>1
    <2>2. CASE arriving' = Carry(rest, side, State("ReceivedCounterpart"))
      <3>1. State("ReceivedCounterpart") \in ExtMessage /\ State("ReceivedCounterpart").kind # "data"
        BY DEF State, ExtMessage, States
      <3>2. Append(arriving[o], State("ReceivedCounterpart")) \in Seq(ExtMessage)
        BY <1>3, <3>1
      <3>3. /\ arriving'[side] = rest[side]
            /\ arriving'[o] = Append(arriving[o], State("ReceivedCounterpart"))
            /\ arriving' \in [Peers -> Seq(ExtMessage)]
        BY <1>1, <1>3, <2>2, <3>2 DEF Carry, o
      <3>4. \A r, t \in Nat : OnWire(arriving[o], r, t) => OnWire(arriving'[o], r, t)
        BY <1>3, <3>1, <3>3, StateSent
      <3> QED BY <1>3, <3>3, <3>4
    <2> QED BY <1>5, <2>1, <2>2
  <1>7. Flow(side) /\ Flow(o) /\ Passed(o) \in Nat /\ Heard(side) /\ Heard(o)
        /\ OnWire(arriving[side], Len(received[side]), Passed(o)) /\ life[o] # "unbound"
    <2>1. Flow(side) /\ Flow(o) /\ Passed(o) \in Nat /\ Heard(side) /\ Heard(o)
      BY <1>1 DEF ExtInv, Flow, Kept
    <2>2. OnWire(arriving[side], Len(received[side]), Passed(o))
      BY <1>1, <1>2, <2>1 DEF Flow, UnderWay
    <2>3. life[o] # "unbound"
      BY <1>3, <2>1 DEF Flow, NoneBefore, o
    <2> QED BY <2>1, <2>2, <2>3
  <1>8. Passed(side)' = Passed(side) /\ Passed(o)' = Passed(o) /\ Kept(side)' /\ Kept(o)'
    BY <1>2, <1>7 DEF Flow, Kept, Passed
  <1>9. Quiet(side)' /\ Quiet(o)'
    BY <1>2, <1>7 DEF Quiet
  <1>10. /\ received' \in [Peers -> Seq(Nat)] /\ received'[o] = received[o] /\ Heard(side)'
         /\ Len(received'[side]) \in Nat /\ Len(received'[side]) <= Passed(o)
         /\ OnWire(Tail(arriving[side]), Len(received'[side]), Passed(o))
    <2>1. CASE message.kind = "data"
      <3>1. /\ message.msg = Len(received[side]) + 1 /\ Len(received[side]) + 1 <= Passed(o)
            /\ OnWire(Tail(arriving[side]), Len(received[side]) + 1, Passed(o))
        BY <1>2, <1>3, <1>7, <2>1, DataTaken DEF message
      <3>2. received' = [received EXCEPT ![side] = Append(@, Len(received[side]) + 1)]
        BY <1>5, <2>1, <3>1
      <3>3. /\ Append(received[side], Len(received[side]) + 1) \in Seq(Nat)
            /\ Len(Append(received[side], Len(received[side]) + 1)) = Len(received[side]) + 1
            /\ Append(received[side], Len(received[side]) + 1)[Len(received[side]) + 1] = Len(received[side]) + 1
            /\ \A k \in 1 .. Len(received[side]) :
                   Append(received[side], Len(received[side]) + 1)[k] = received[side][k]
        BY <1>3
      <3>4. /\ received'[side] = Append(received[side], Len(received[side]) + 1)
            /\ received'[o] = received[o] /\ received' \in [Peers -> Seq(Nat)]
        BY <1>1, <3>2, <3>3 DEF ExtInv, ExtTypeOK
      <3>5. Len(received'[side]) = Len(received[side]) + 1
        BY <3>3, <3>4
      <3>6. Heard(side)'
        BY <1>3, <1>7, <3>3, <3>4, <3>5 DEF Heard
      <3> QED BY <1>3, <3>1, <3>4, <3>5, <3>6
    <2>2. CASE message.kind # "data"
      <3>1. received' = received
        BY <1>5, <2>2
      <3>2. OnWire(Tail(arriving[side]), Len(received[side]), Passed(o))
        BY <1>2, <1>3, <1>7, <2>2, StateTaken DEF message
      <3>3. Len(received[side]) <= Passed(o)
        BY <1>1, <1>2, <1>7 DEF Flow, UnderWay
      <3> QED BY <1>3, <1>7, <3>1, <3>2, <3>3 DEF ExtInv, ExtTypeOK, Heard
    <2> QED BY <2>1, <2>2
  <1>11. ExtTypeOK'
    BY <1>2, <1>4, <1>6, <1>10 DEF ExtInv, ExtTypeOK, ExtMessage
  <1>12. Heard(o)'
    BY <1>7, <1>10 DEF Heard
  <1>13. NoneBefore(side)' /\ UnderWay(side)'
    <2>1. UnderWay(side) /\ o = Opposite(side) /\ Passed(side) \in Nat
      BY <1>7 DEF Flow, Kept, o
    <2>2. OnWire(arriving[o], Len(received[o]), Passed(side))
              => OnWire(arriving'[o], Len(received[o]), Passed(side))
      BY <1>3, <1>6, <2>1
    <2>3. NoneBefore(side)'
      BY <1>2, <1>7, <2>1 DEF NoneBefore
    <2>4. UnderWay(side)'
      BY <1>2, <1>8, <1>10, <2>1, <2>2 DEF UnderWay
    <2> QED BY <2>3, <2>4
  <1>14. NoneBefore(o)' /\ UnderWay(o)'
    BY <1>1, <1>2, <1>6, <1>8, <1>10 DEF NoneBefore, UnderWay
  <1> QED BY <1>1, <1>8, <1>9, <1>10, <1>11, <1>12, <1>13, <1>14 DEF ExtInv, Flow

\* Every step keeps the invariant.
LEMMA ExtInvStep == ExtInv /\ [ExtNext]_extVars => ExtInv'
  <1> SUFFICES ASSUME ExtInv, [ExtNext]_extVars PROVE ExtInv'
    OBVIOUS
  <1>1. CASE UNCHANGED extVars
    BY <1>1 DEF extVars, ExtInv, ExtTypeOK, Flow, Kept, Passed, Quiet, NoneBefore, UnderWay, Heard
  <1>2. CASE ExtNext
    BY <1>2, BindStep, EndStep, SendStep, DirectStep, FlushStep, HearStep, DropStep DEF ExtNext
  <1> QED BY <1>1, <1>2

LEMMA ExtInvariant == ExtSpec => []ExtInv
  BY ExtInvInit, ExtInvStep, PTL DEF ExtSpec

-----------------------------------------------------------------------------

\* ExtWire.cpp, RdExtBase.cpp.  The variables keep their types.
THEOREM ExtTypeCorrect == ExtSpec => []ExtTypeOK
  <1>1. ExtInv => ExtTypeOK
    BY DEF ExtInv
  <1> QED BY <1>1, ExtInvariant, PTL

\* What the invariant says of what was heard.
LEMMA HeardByFlow == ExtInv => HeardInOrder
  <1> SUFFICES ASSUME ExtInv, NEW s \in Peers
               PROVE  received[s] = [k \in 1 .. Len(received[s]) |-> k]
    BY DEF HeardInOrder
  <1>1. received[s] \in Seq(Nat) /\ Heard(s)
    BY Typed DEF ExtInv
  <1> QED BY <1>1 DEF Heard

\* ExtWire.cpp:10-26, 38-48.  However many messages either side sends, and whenever the
\* two come up, each hears what the other sends from the first on, without a gap.
THEOREM HeardFromTheFirst == ExtSpec => []HeardInOrder
  BY HeardByFlow, ExtInvariant, PTL
=============================================================================

--------------------------------- MODULE RdExt ---------------------------------
(****************************************************************************)
(* An extension on both sides of a wire that keeps the order: the two tell  *)
(* each other that they are ready, and until then an ExtWire queues what    *)
(* its side sends.  On each side one thread sends, one dispatches what      *)
(* arrives, and a third one binds the extension and ends its lifetime.      *)
(* What arrives for an extension that is not bound is dropped by the broker *)
(* unless the extension is bound before the scheduler gets to it.           *)
(****************************************************************************)
EXTENDS RdSides, Integers, Sequences

CONSTANT MaxSends    \* bound on the messages of each side

VARIABLES
    life,          \* "unbound", "bound" or "ended", on each side
    connected,
    flushing,      \* connected has become true and its advisor has not run yet
    sendQ,
    direct,        \* the message send has decided to hand to the real wire, 0 if none
    sent,          \* how many messages send was given
    arriving,      \* what is under way to each side
    received       \* the messages dispatched to the extension's entities

extVars == <<life, connected, flushing, sendQ, direct, sent, arriving, received>>

States == {"Ready", "ReceivedCounterpart", "Disconnected"}

ExtInit ==
    /\ life = [side \in Peers |-> "unbound"]
    /\ connected = [side \in Peers |-> FALSE]
    /\ flushing = [side \in Peers |-> FALSE]
    /\ sendQ = [side \in Peers |-> << >>]
    /\ direct = [side \in Peers |-> 0]
    /\ sent = [side \in Peers |-> 0]
    /\ arriving = [side \in Peers |-> << >>]
    /\ received = [side \in Peers |-> << >>]

State(state) == [kind |-> state, msg |-> 0]
Data(msg) == [kind |-> "data", msg |-> msg]

\* What the wire makes of a message of a side.
Carry(wire, side, message) == [wire EXCEPT ![Opposite(side)] = Append(@, message)]

-----------------------------------------------------------------------------

\* The lifetime: init, and the actions that undo it.
Bind(side) ==
    /\ life[side] = "unbound"
    /\ life' = [life EXCEPT ![side] = "bound"]
    /\ arriving' = Carry(arriving, side, State("Ready"))
    /\ UNCHANGED <<connected, flushing, sendQ, direct, sent, received>>

EndLife(side) ==
    /\ life[side] = "bound"
    /\ life' = [life EXCEPT ![side] = "ended"]
    /\ arriving' = Carry(arriving, side, State("Disconnected"))
    /\ UNCHANGED <<connected, flushing, sendQ, direct, sent, received>>

\* Variant: what is queued does not matter.
HasToQueueUnconnected(side) == ~connected[side]

HasToQueue(side) == sendQ[side] # << >> \/ ~connected[side]

\* ExtWire::send, under its lock.
send(side) ==
    /\ life[side] = "bound" /\ direct[side] = 0 /\ sent[side] < MaxSends
    /\ sent' = [sent EXCEPT ![side] = @ + 1]
    /\ IF HasToQueue(side)
       THEN sendQ' = [sendQ EXCEPT ![side] = Append(@, sent[side] + 1)] /\ UNCHANGED direct
       ELSE direct' = [direct EXCEPT ![side] = sent[side] + 1] /\ UNCHANGED sendQ
    /\ UNCHANGED <<life, connected, flushing, arriving, received>>

\* And without it.
SendDirect(side) ==
    /\ direct[side] # 0
    /\ arriving' = Carry(arriving, side, Data(direct[side]))
    /\ direct' = [direct EXCEPT ![side] = 0]
    /\ UNCHANGED <<life, connected, flushing, sendQ, sent, received>>

-----------------------------------------------------------------------------
(* The wire's thread of a side                                              *)

SetConnected(side, value) ==
    /\ connected' = [connected EXCEPT ![side] = value]
    /\ flushing' = [flushing EXCEPT ![side] = value /\ ~connected[side]]

\* The advisor of connected sends the queue, under the lock.
Flush(side) ==
    /\ flushing[side]
    /\ flushing' = [flushing EXCEPT ![side] = FALSE]
    /\ arriving' = [arriving EXCEPT
           ![Opposite(side)] = @ \o [k \in DOMAIN sendQ[side] |-> Data(sendQ[side][k])]]
    /\ sendQ' = [sendQ EXCEPT ![side] = << >>]
    /\ UNCHANGED <<life, connected, direct, sent, received>>

\* Variant: Ready is not answered.
ReadyUnanswered(side, rest) ==
    SetConnected(side, TRUE) /\ arriving' = rest /\ UNCHANGED received

Ready(side, rest) ==
    /\ arriving' = Carry(rest, side, State("ReceivedCounterpart"))
    /\ SetConnected(side, TRUE)
    /\ UNCHANGED received

Dispatch(side, message, rest) ==
    CASE message.kind = "Ready" -> Ready(side, rest)
      [] message.kind = "ReceivedCounterpart" ->
              SetConnected(side, TRUE) /\ arriving' = rest /\ UNCHANGED received
      [] message.kind = "Disconnected" ->
              SetConnected(side, FALSE) /\ arriving' = rest /\ UNCHANGED received
      [] message.kind = "data" ->
              /\ received' = [received EXCEPT ![side] = Append(@, message.msg)]
              /\ arriving' = rest
              /\ UNCHANGED <<connected, flushing>>

ext_on_wire_received(side) ==
    /\ arriving[side] # << >> /\ ~flushing[side] /\ life[side] = "bound"
    /\ Dispatch(side, Head(arriving[side]), [arriving EXCEPT ![side] = Tail(@)])
    /\ UNCHANGED <<life, sendQ, direct, sent>>

Drop(side) ==
    /\ arriving[side] # << >> /\ life[side] # "bound"
    /\ arriving' = [arriving EXCEPT ![side] = Tail(@)]
    /\ UNCHANGED <<life, connected, flushing, sendQ, direct, sent, received>>

ExtNext ==
    \E side \in Peers :
        \/ Bind(side) \/ EndLife(side)
        \/ send(side) \/ SendDirect(side)
        \/ Flush(side) \/ ext_on_wire_received(side) \/ Drop(side)

\* The threads are scheduled, and both sides create the extension.
ExtFairness ==
    \A side \in Peers :
        /\ WF_extVars(Bind(side)) /\ WF_extVars(SendDirect(side))
        /\ WF_extVars(Flush(side)) /\ WF_extVars(ext_on_wire_received(side))

ExtSpec == ExtInit /\ [][ExtNext]_extVars /\ ExtFairness

-----------------------------------------------------------------------------
(* Properties *)

ExtTypeOK ==
    /\ life \in [Peers -> {"unbound", "bound", "ended"}]
    /\ connected \in [Peers -> BOOLEAN] /\ flushing \in [Peers -> BOOLEAN]
    /\ sendQ \in [Peers -> Seq(Nat)]
    /\ direct \in [Peers -> Nat] /\ sent \in [Peers -> Nat]
    /\ arriving \in [Peers -> Seq([kind : States \cup {"data"}, msg : Nat])]
    /\ received \in [Peers -> Seq(Nat)]

\* ExtWire.cpp:10-26, 38-48.  Whenever the two sides come up, and whatever is queued
\* when they do, each gets what the other sends from the first message on, in
\* order, without a gap: nothing is sent to an extension that is not bound yet,
\* and nothing overtakes the queue.
HeardInOrder ==
    \A side \in Peers : received[side] = [k \in 1 .. Len(received[side]) |-> k]

\* RdExtBase.cpp:56-66.  While both sides live, what was given to send is received:
\* although the Ready of the side that comes up first may be dropped, no message
\* stays in the queue.
NothingIsStuck ==
    \A side \in Peers : \A msg \in 1 .. MaxSends :
        sent[side] >= msg
            ~> (\/ Len(received[Opposite(side)]) >= msg
                \/ \E any \in Peers : life[any] = "ended")
=============================================================================

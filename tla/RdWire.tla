-------------------------------- MODULE RdWire ---------------------------------
(****************************************************************************)
(* A SocketWire from end to end: the send buffer of one process and the     *)
(* peer that reads its packages, answers each with an acknowledgement and   *)
(* hands what it has not had before to its MessageBroker.  The other        *)
(* direction is another instance.  The sending process may end at any time  *)
(* and a new one connect to the same peer: this is why read_package takes   *)
(* every package numbered 1 for new.                                        *)
(*                                                                          *)
(* put makes one package of one message, so the peer reads whole messages   *)
(* until read_package returns something else than the length of the package *)
(* it has read.                                                             *)
(****************************************************************************)
EXTENDS RdSendBuffer, SequencesExt

VARIABLES
    late,               \* packages of broken connections that still reach the peer
    read,               \* how many packages of line the peer has read
    max_received_seqn,
    aligned,            \* whether the peer is about to read the first byte of a message
    dispatched,         \* the messages of this sender dispatched, in order
    overtaken,          \* whether the worker has sent ahead of reprocess (no state of the code)
    restarted

peer == <<late, read, max_received_seqn, aligned, dispatched>>
history == <<overtaken, restarted>>
wireVars == <<vars, peer, history>>

WireInit ==
    /\ Init
    /\ late = << >> /\ read = 0
    /\ max_received_seqn = 0
    /\ aligned = TRUE /\ dispatched = << >>
    /\ overtaken = FALSE /\ restarted = FALSE

Unread == SubSeq(line, read + 1, Len(line))

-----------------------------------------------------------------------------
(* The sender.  Of what the peer has not read when a connection breaks a    *)
(* part arrives; the peer reads it before it turns to the next connection.  *)

Breaks == \E n \in 0 .. Len(Unread) : late' = late \o SubSeq(Unread, 1, n)

PeerSees ==
    \/ /\ link' = link
       /\ UNCHANGED <<late, read>>
    \/ /\ link = "up" /\ link' = "down"
       /\ Breaks /\ UNCHANGED read
    \/ /\ link = "down" /\ link' = "up"
       /\ read' = 0 /\ UNCHANGED late

BeforeReplay == wire \in {"resume", "resuming"}

\* A step of the sender.  It reads acknowledgements of what was read only.
Sends(step) ==
    /\ step
    /\ acked' <= read
    /\ PeerSees
    /\ UNCHANGED <<max_received_seqn, aligned, dispatched, restarted>>
    /\ overtaken' = (overtaken \/ (worker = "sending" /\ worker' = "sent" /\ BeforeReplay))

\* The sending process ends and another one takes its place.  Message 0 is
\* whatever its predecessor still had under way.
Restart ==
    /\ ~restarted
    /\ restarted' = TRUE
    /\ state' = "AsyncProcessing"
    /\ data' = << >> /\ queue' = << >> /\ pending_queue' = << >>
    /\ max_sent_seqn' = 0 /\ current_seqn' = 1 /\ acknowledged_seqn' = 0
    /\ interrupt_balance' = 1
    /\ worker' = "loop" /\ wire' = "offline" /\ stopper' = "idle"
    /\ replayed' = 0
    /\ link' = "down" /\ line' = << >> /\ acked' = 0
    /\ puts' = 0 /\ connections' = 0
    /\ LET reaches == IF link = "up" THEN Unread ELSE << >>
       IN  \E n \in 0 .. Len(reaches) :
               late' = [k \in 1 .. Len(late) + n |->
                           [(late \o reaches)[k] EXCEPT !.msg = 0]]
    /\ read' = 0
    /\ dispatched' = << >>
    /\ overtaken' = FALSE
    /\ UNCHANGED <<max_received_seqn, aligned>>

-----------------------------------------------------------------------------
(* The peer *)

\* Variant: every number seen before is a duplicate.
SeenBefore(seqn) == seqn <= max_received_seqn

\* Variant: nothing is taken for a duplicate.
NeverDuplicate(seqn) == FALSE

IsDuplicate(seqn) == seqn <= max_received_seqn /\ seqn # 1

\* read_and_dispatch_message.  Out of step the peer takes bytes of several
\* messages for a length and waits for that many.
Dispatch(msg) ==
    dispatched' = IF aligned /\ msg # 0 THEN Append(dispatched, msg) ELSE dispatched

\* read_package, with the acknowledgement.  For a duplicate it returns true,
\* of which its caller makes a length of one: a byte of the duplicate is taken
\* for the first byte of the next message.
ReadPackage(package) ==
    IF IsDuplicate(package.seqn)
    THEN /\ aligned' = FALSE
         /\ UNCHANGED <<max_received_seqn, dispatched>>
    ELSE /\ max_received_seqn' = package.seqn
         /\ Dispatch(package.msg)
         /\ UNCHANGED aligned

Receive ==
    /\ IF late # << >>
       THEN ReadPackage(Head(late)) /\ late' = Tail(late) /\ UNCHANGED read
       ELSE /\ link = "up" /\ read < Len(line)
            /\ ReadPackage(line[read + 1]) /\ read' = read + 1 /\ UNCHANGED late
    /\ UNCHANGED <<vars, history>>

-----------------------------------------------------------------------------

WireNext == Sends(Next) \/ Receive \/ Restart

\* The threads of both processes are scheduled.
WireSpec ==
    /\ WireInit /\ [][WireNext]_wireVars
    /\ WF_wireVars(Sends(Worker)) /\ WF_wireVars(Sends(Wire)) /\ WF_wireVars(Sends(Stopper))
    /\ WF_wireVars(Receive)

-----------------------------------------------------------------------------
(* Properties *)

\* SocketWire.cpp:307-331, 333-367.  As long as the worker never sends ahead of
\* reprocess the broker gets the messages in the order they were put and without
\* a gap; it may get them again from the first one on, when the connection is lost
\* before the first acknowledgement counts, never from anywhere else.
NoGap ==
    ~overtaken =>
        \A k \in DOMAIN dispatched :
            dispatched[k] \in {1, IF k = 1 THEN 1 ELSE dispatched[k - 1] + 1}

\* ByteBufferAsyncProcessor.cpp:91-95.  What the sender forgets the peer has
\* dispatched: an acknowledgement that survives a connection, or is late,
\* never covers a message that does not.
ForgottenIsDispatched ==
    ~overtaken /\ aligned => 1 .. current_seqn - 1 \subseteq ToSet(dispatched)

\* SocketWire.cpp:324.  On the first connection of a process, the first
\* process or a new one, each package is dispatched as it is read, once and in
\* order: only what is sent again over a later connection can put the peer out
\* of step.
FirstConnectionIsExact ==
    [][connections = 1 /\ aligned /\ read' > read
         => aligned' /\ dispatched' = [k \in 1 .. read' |-> k]]_wireVars

\* IWire.h:36.  With a connection that lasts, what is put is dispatched by
\* the peer, unless the peer has fallen out of step.
PutArrives ==
    \A m \in 1 .. MaxPuts :
        (Online /\ \E i \in DOMAIN data : data[i] = m)
            ~> (~Online \/ ~aligned \/ m \in ToSet(dispatched))

\* IWire.h:36, "Sends a data block": what the send buffer needs not keep any
\* more has been dispatched by the peer.
SentIsDispatched == 1 .. current_seqn - 1 \subseteq ToSet(dispatched)
=============================================================================

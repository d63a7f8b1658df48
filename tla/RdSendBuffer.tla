---------------------------- MODULE RdSendBuffer -----------------------------
(****************************************************************************)
(* ByteBufferAsyncProcessor, the send buffer of a SocketWire, with the      *)
(* threads that use it: any thread puts, a worker sends, the thread of the  *)
(* wire connects, resends what was not acknowledged, reads acknowledgements *)
(* and pauses the buffer, and one thread ends the wire's lifetime.          *)
(*                                                                          *)
(* A message is the number of its put, so a package [seqn, msg] is numbered *)
(* as it was put iff its fields agree.  The three locks are not variables:  *)
(* who holds them follows from where the threads are.  notify_all wakes the *)
(* worker in the step that unlocks.                                         *)
(****************************************************************************)
EXTENDS Integers, Sequences

CONSTANTS
    MaxPuts,         \* bound on the messages put
    MaxConnections   \* bound on the connections made

ASSUME BoundAssumption == MaxPuts \in Nat /\ MaxConnections \in Nat

VARIABLES
    state,                                            \* StateKind
    data, queue, pending_queue,
    max_sent_seqn, current_seqn, acknowledged_seqn,
    interrupt_balance,
    worker,          \* where ThreadProc is
    wire,            \* where the wire's thread is
    replayed,        \* i of the loop in reprocess
    stopper,         \* how far the end of the lifetime is
    link,            \* whether the socket is open
    line, acked,     \* packages sent over this socket, acknowledgements read
    puts, connections

buffer == <<data, queue, pending_queue, max_sent_seqn, current_seqn, acknowledged_seqn>>
socket == <<link, line, acked>>
counts == <<puts, connections>>
vars == <<state, buffer, interrupt_balance, worker, wire, replayed, stopper, socket, counts>>

StateKinds == {"AsyncProcessing", "Stopping", "Terminated"}
WorkerPlaces == {"loop", "asleep", "process", "sending", "sent", "dead"}
WirePlaces == {"offline", "resume", "resuming", "replay", "resumed", "receiving",
               "pause", "pausing", "paused", "ended", "crashed"}
StopperPlaces == {"idle", "stop", "waiting", "close", "joining", "done"}

(* The wire's constructor pauses the buffer and starts it, then the threads *)
(* of the wire and of the worker run.                                       *)
Init ==
    /\ state = "AsyncProcessing"
    /\ data = << >> /\ queue = << >> /\ pending_queue = << >>
    /\ max_sent_seqn = 0 /\ current_seqn = 1 /\ acknowledged_seqn = 0
    /\ interrupt_balance = 1
    /\ worker = "loop" /\ wire = "offline" /\ stopper = "idle"
    /\ replayed = 0
    /\ link = "down" /\ line = << >> /\ acked = 0
    /\ puts = 0 /\ connections = 0

\* lock: the wire's thread keeps it through pause and resume, the other
\* sections are single steps.
LockIsFree == wire \notin {"resuming", "replay", "resumed", "pausing"}

\* Variant: released before the message is recorded.
WorkerSends == worker = "sending"

\* queue_lock and processing_lock.
WorkerProcesses == worker \in {"sending", "sent"}
WireReprocesses == wire = "replay"

Woken == IF worker = "asleep" THEN "loop" ELSE worker

lifetimeTerminated == stopper # "idle"

-----------------------------------------------------------------------------
(* Putting *)

put ==
    /\ LockIsFree
    /\ state = "AsyncProcessing"
    /\ puts < MaxPuts
    /\ puts' = puts + 1
    /\ data' = Append(data, puts + 1)
    /\ worker' = Woken
    /\ UNCHANGED <<state, queue, pending_queue, max_sent_seqn, current_seqn, acknowledged_seqn,
                   interrupt_balance, wire, replayed, stopper, socket, connections>>

-----------------------------------------------------------------------------
(* The worker *)

MayTake == data # << >> /\ interrupt_balance = 0

TakeData ==
    /\ worker = "loop" /\ LockIsFree
    /\ state # "Terminated"
    /\ MayTake
    /\ queue' = queue \o data
    /\ data' = << >>
    /\ worker' = "process"
    /\ UNCHANGED <<state, pending_queue, max_sent_seqn, current_seqn, acknowledged_seqn,
                   interrupt_balance, wire, replayed, stopper, socket, counts>>

\* Without data, or paused, the worker sleeps, or leaves once it is to stop.
NoData ==
    /\ worker = "loop" /\ LockIsFree
    /\ \/ /\ ~MayTake /\ state = "AsyncProcessing"
          /\ worker' = "asleep"
       \/ /\ state = "Terminated" \/ (~MayTake /\ state = "Stopping")
          /\ worker' = "dead"
    /\ UNCHANGED <<state, buffer, interrupt_balance, wire, replayed, stopper, socket, counts>>

BeginProcess ==
    /\ worker = "process" /\ ~WireReprocesses
    /\ worker' = "sending"
    /\ UNCHANGED <<state, buffer, interrupt_balance, wire, replayed, stopper, socket, counts>>

\* send0.  Once the connection is lost everything fails.
Transmit(msg, seqn) ==
    /\ link = "up"
    /\ line' = Append(line, [seqn |-> seqn, msg |-> msg])
    /\ UNCHANGED <<link, acked>>

TransmitFails == link = "down" /\ UNCHANGED socket

\* Variant: a message that could not be sent is taken off all the same.
SendFrontOnce ==
    /\ worker = "sending" /\ queue # << >>
    /\ \/ Transmit(Head(queue), max_sent_seqn + 1) /\ worker' = "sent" /\ UNCHANGED queue
       \/ TransmitFails /\ worker' = "loop" /\ queue' = Tail(queue)
    /\ UNCHANGED <<state, data, pending_queue, max_sent_seqn, current_seqn, acknowledged_seqn,
                   interrupt_balance, wire, replayed, stopper, counts>>

SendFront ==
    /\ worker = "sending" /\ queue # << >>
    /\ \/ Transmit(Head(queue), max_sent_seqn + 1) /\ worker' = "sent"
       \/ TransmitFails /\ worker' = "loop"
    /\ UNCHANGED <<state, buffer, interrupt_balance, wire, replayed, stopper, counts>>

\* The acknowledgement may have come before this.
RecordSent ==
    /\ worker = "sent"
    /\ max_sent_seqn' = max_sent_seqn + 1
    /\ pending_queue' = Append(pending_queue, Head(queue))
    /\ queue' = Tail(queue)
    /\ worker' = "sending"
    /\ UNCHANGED <<state, data, current_seqn, acknowledged_seqn,
                   interrupt_balance, wire, replayed, stopper, socket, counts>>

EndProcess ==
    /\ worker = "sending" /\ queue = << >>
    /\ worker' = "loop"
    /\ UNCHANGED <<state, buffer, interrupt_balance, wire, replayed, stopper, socket, counts>>

-----------------------------------------------------------------------------
(* The wire's thread *)

\* From here on the worker sends over the new socket.
Connect ==
    /\ wire = "offline" /\ ~lifetimeTerminated
    /\ connections < MaxConnections
    /\ connections' = connections + 1
    /\ link' = "up" /\ line' = << >> /\ acked' = 0
    /\ wire' = "resume"
    /\ UNCHANGED <<state, buffer, interrupt_balance, worker, replayed, stopper, puts>>

Resume ==
    /\ wire = "resume"
    /\ wire' = "resuming"
    /\ UNCHANGED <<state, buffer, interrupt_balance, worker, replayed, stopper, socket, counts>>

\* Variant: one more than are acknowledged.
AcknowledgedAndOne ==
    IF current_seqn <= acknowledged_seqn THEN acknowledged_seqn - current_seqn + 2 ELSE 0

\* How many pending messages the first loop of reprocess takes off.
Acknowledged == IF current_seqn <= acknowledged_seqn THEN acknowledged_seqn - current_seqn + 1 ELSE 0

\* pop_front of an empty deque is undefined behaviour.
DropAcknowledged ==
    /\ wire = "resuming" /\ ~WorkerProcesses
    /\ IF Acknowledged > Len(pending_queue)
       THEN wire' = "crashed" /\ UNCHANGED <<pending_queue, current_seqn, replayed>>
       ELSE /\ pending_queue' = SubSeq(pending_queue, Acknowledged + 1, Len(pending_queue))
            /\ current_seqn' = current_seqn + Acknowledged
            /\ replayed' = 0
            /\ wire' = "replay"
    /\ UNCHANGED <<state, data, queue, max_sent_seqn, acknowledged_seqn,
                   interrupt_balance, worker, stopper, socket, counts>>

Replay ==
    /\ wire = "replay" /\ replayed < Len(pending_queue)
    /\ \/ /\ Transmit(pending_queue[replayed + 1], current_seqn + replayed)
          /\ replayed' = replayed + 1
          /\ UNCHANGED wire
       \/ /\ TransmitFails
          /\ wire' = "resumed"
          /\ UNCHANGED replayed
    /\ UNCHANGED <<state, buffer, interrupt_balance, worker, stopper, counts>>

EndReplay ==
    /\ wire = "replay" /\ replayed = Len(pending_queue)
    /\ wire' = "resumed"
    /\ UNCHANGED <<state, buffer, interrupt_balance, worker, replayed, stopper, socket, counts>>

\* Variant: the pause is not taken back.
ResumedInPause ==
    /\ wire = "resumed"
    /\ worker' = Woken
    /\ replayed' = 0
    /\ wire' = "receiving"
    /\ UNCHANGED <<state, buffer, interrupt_balance, stopper, socket, counts>>

\* Variant: the worker is not notified.
ResumedQuietly ==
    /\ wire = "resumed"
    /\ interrupt_balance' = interrupt_balance - 1
    /\ replayed' = 0
    /\ wire' = "receiving"
    /\ UNCHANGED <<state, buffer, worker, stopper, socket, counts>>

\* The buffer goes on whether or not everything was sent again.
Resumed ==
    /\ wire = "resumed"
    /\ interrupt_balance' = interrupt_balance - 1
    /\ worker' = Woken
    /\ replayed' = 0
    /\ wire' = "receiving"
    /\ UNCHANGED <<state, buffer, stopper, socket, counts>>

\* The peer acknowledges every package in the order it reads them; what it
\* sent before the connection was lost may still be read.
acknowledge ==
    /\ wire = "receiving" /\ acked < Len(line)
    /\ LET seqn == line[acked + 1].seqn
       IN  acknowledged_seqn' = IF seqn > acknowledged_seqn THEN seqn ELSE acknowledged_seqn
    /\ acked' = acked + 1
    /\ UNCHANGED <<state, data, queue, pending_queue, max_sent_seqn, current_seqn,
                   interrupt_balance, worker, wire, replayed, stopper, link, line, counts>>

\* Nothing more can be read, or the receiver gives up.
EndReceiving ==
    /\ wire = "receiving"
    /\ wire' = "pause"
    /\ UNCHANGED <<state, buffer, interrupt_balance, worker, replayed, stopper, socket, counts>>

Pause ==
    /\ wire = "pause"
    /\ interrupt_balance' = interrupt_balance + 1
    /\ wire' = "pausing"
    /\ UNCHANGED <<state, buffer, worker, replayed, stopper, socket, counts>>

Paused ==
    /\ wire = "pausing" /\ ~WorkerProcesses
    /\ wire' = "paused"
    /\ UNCHANGED <<state, buffer, interrupt_balance, worker, replayed, stopper, socket, counts>>

Shutdown ==
    /\ wire = "paused"
    /\ link' = "down"
    /\ wire' = "offline"
    /\ UNCHANGED <<state, buffer, interrupt_balance, worker, replayed, stopper, line, acked, counts>>

EndWire ==
    /\ wire = "offline" /\ lifetimeTerminated
    /\ wire' = "ended"
    /\ UNCHANGED <<state, buffer, interrupt_balance, worker, replayed, stopper, socket, counts>>

LoseConnection ==
    /\ link = "up"
    /\ link' = "down"
    /\ UNCHANGED <<state, buffer, interrupt_balance, worker, wire, replayed, stopper, line, acked, counts>>

-----------------------------------------------------------------------------
(* The end of the lifetime *)

TerminateLifetime ==
    /\ stopper = "idle"
    /\ stopper' = "stop"
    /\ UNCHANGED <<state, buffer, interrupt_balance, worker, wire, replayed, socket, counts>>

stop ==
    /\ stopper = "stop" /\ LockIsFree
    /\ state' = "Stopping"
    /\ worker' = Woken
    /\ stopper' = "waiting"
    /\ UNCHANGED <<buffer, interrupt_balance, wire, replayed, socket, counts>>

\* The worker has ended or the time is up.
cleanup0 ==
    /\ stopper = "waiting" /\ LockIsFree
    /\ state' = "Terminated"
    /\ worker' = Woken
    /\ stopper' = "close"
    /\ UNCHANGED <<buffer, interrupt_balance, wire, replayed, socket, counts>>

\* Variant: closed only if the send buffer has stopped.
CloseSocketIfStopped ==
    /\ stopper = "close"
    /\ link' = IF worker = "dead" THEN "down" ELSE link
    /\ stopper' = "joining"
    /\ UNCHANGED <<state, buffer, interrupt_balance, worker, wire, replayed, line, acked, counts>>

CloseSocket ==
    /\ stopper = "close"
    /\ link' = "down"
    /\ stopper' = "joining"
    /\ UNCHANGED <<state, buffer, interrupt_balance, worker, wire, replayed, line, acked, counts>>

\* join, and the future of the worker in the destructor of the buffer.
Join ==
    /\ stopper = "joining" /\ wire = "ended" /\ worker = "dead"
    /\ stopper' = "done"
    /\ UNCHANGED <<state, buffer, interrupt_balance, worker, wire, replayed, socket, counts>>

-----------------------------------------------------------------------------

Worker == TakeData \/ NoData \/ BeginProcess \/ SendFront \/ RecordSent \/ EndProcess

\* What the wire's thread does by itself once it has a connection.
Wire ==
    \/ Resume \/ DropAcknowledged \/ Replay \/ EndReplay \/ Resumed
    \/ acknowledge
    \/ EndReceiving /\ link = "down"
    \/ Pause \/ Paused \/ Shutdown \/ EndWire

Stopper == stop \/ cleanup0 \/ CloseSocket \/ Join

Next ==
    \/ put \/ Worker
    \/ Connect \/ Wire \/ EndReceiving \/ LoseConnection
    \/ TerminateLifetime \/ Stopper

\* Threads are scheduled, and a send returns: the peer reads or the
\* connection is lost.  Nobody has to put, to connect or to terminate.
Spec == Init /\ [][Next]_vars /\ WF_vars(Worker) /\ WF_vars(Wire) /\ WF_vars(Stopper)

-----------------------------------------------------------------------------
(* Properties *)

TypeOK ==
    /\ state \in StateKinds
    /\ data \in Seq(Nat) /\ queue \in Seq(Nat) /\ pending_queue \in Seq(Nat)
    /\ max_sent_seqn \in Nat /\ current_seqn \in Nat /\ acknowledged_seqn \in Nat
    /\ interrupt_balance \in {0, 1}
    /\ worker \in WorkerPlaces /\ wire \in WirePlaces /\ stopper \in StopperPlaces
    /\ replayed \in Nat
    /\ link \in {"up", "down"}
    /\ line \in Seq([seqn : Nat, msg : Nat])
    /\ acked \in Nat
    /\ puts \in 0 .. MaxPuts /\ connections \in 0 .. MaxConnections

\* ByteBufferAsyncProcessor.cpp:70-127.  Whatever fails and however the
\* threads interleave, the three containers hold, in the order of the puts,
\* every message from current_seqn to the last one put, each once.
NothingLost ==
    pending_queue \o queue \o data =
        [i \in 1 .. (puts - current_seqn + 1) |-> current_seqn + i - 1]

\* :96-104 and :117-122.  A number stands for one message, whether it is sent
\* by the worker or again by reprocess, on every connection.
NumbersAgree == \A k \in DOMAIN line : line[k].seqn = line[k].msg

\* :91-95.  Reprocessing never takes a message off an empty deque, though an
\* acknowledgement may be read before its message is recorded as sent.
NeverCrashes == wire # "crashed"

Online == wire = "receiving" /\ link = "up" /\ state = "AsyncProcessing"

\* :135-165.  No wake-up is lost: with a connection that lasts, what is put is
\* sent, and with it all that was put before and had failed.
PutFlushes ==
    \A m \in 1 .. MaxPuts :
        (Online /\ \E i \in DOMAIN data : data[i] = m) ~> (~Online \/ max_sent_seqn >= m)

\* SocketWire.cpp:515-539, 613-641.  Ending the lifetime comes to an end,
\* wherever the worker and the wire's thread are, even when stop times out.
\* Only a new process, where there is one, has its lifetime ahead again.
StopEnds == lifetimeTerminated ~> (stopper \in {"done", "idle"})

\* IWire.h:36, "Sends a data block": with a connection that lasts, what was
\* put is sent at some time.
ConnectedSends ==
    <>[]Online => \A m \in 1 .. MaxPuts : (puts >= m) ~> (max_sent_seqn >= m)
=============================================================================

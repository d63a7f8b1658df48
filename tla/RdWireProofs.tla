----------------------------- MODULE RdWireProofs ------------------------------
(****************************************************************************)
(* Theorems about the send buffer and about the wire that it is one end of, *)
(* for any number of messages and of connections.                           *)
(****************************************************************************)
EXTENDS RdWire, SequenceTheorems, TLAPS

-----------------------------------------------------------------------------
(* Runs of consecutive numbers.                                             *)

Consecutive(s, first) == \A i \in 1 .. Len(s) : s[i] = first + i - 1

\* A put behind the last one.
LEMMA AppendConsecutive ==
    ASSUME NEW s \in Seq(Nat), NEW first \in Nat, Consecutive(s, first)
    PROVE  /\ Append(s, first + Len(s)) \in Seq(Nat)
           /\ Len(Append(s, first + Len(s))) = Len(s) + 1
           /\ Consecutive(Append(s, first + Len(s)), first)
<1> DEFINE longer == Append(s, first + Len(s))
<1>1. Len(s) \in Nat
  BY LenProperties
<1>2. longer \in Seq(Nat) /\ Len(longer) = Len(s) + 1
  BY <1>1
<1>3. ASSUME NEW i \in 1 .. Len(s) + 1 PROVE longer[i] = first + i - 1
  <2>1. CASE i = Len(s) + 1
    <3>1. longer[i] = first + Len(s)
      BY <2>1
    <3> QED
      BY <1>1, <2>1, <3>1
  <2>2. CASE i # Len(s) + 1
    <3>1. i \in 1 .. Len(s)
      BY <1>1, <2>2
    <3>2. longer[i] = s[i]
      BY <3>1
    <3> QED
      BY <3>1, <3>2 DEF Consecutive
  <2> QED
    BY <2>1, <2>2
<1> QED
  BY <1>2, <1>3 DEF Consecutive

\* One container emptied into another.
LEMMA ConcatConsecutive ==
    ASSUME NEW s \in Seq(Nat), NEW t \in Seq(Nat), NEW first \in Nat,
           Consecutive(s, first), Consecutive(t, first + Len(s))
    PROVE  /\ s \o t \in Seq(Nat)
           /\ Len(s \o t) = Len(s) + Len(t)
           /\ Consecutive(s \o t, first)
<1>1. Len(s) \in Nat /\ Len(t) \in Nat
  BY LenProperties
<1>2. /\ s \o t \in Seq(Nat)
      /\ Len(s \o t) = Len(s) + Len(t)
      /\ \A i \in 1 .. Len(s) + Len(t) :
           (s \o t)[i] = IF i <= Len(s) THEN s[i] ELSE t[i - Len(s)]
  BY ConcatProperties
<1>3. ASSUME NEW i \in 1 .. Len(s) + Len(t) PROVE (s \o t)[i] = first + i - 1
  <2>1. CASE i <= Len(s)
    BY <1>1, <1>2, <2>1 DEF Consecutive
  <2>2. CASE i > Len(s)
    <3>1. i - Len(s) \in 1 .. Len(t)
      BY <1>1, <2>2
    <3>2. t[i - Len(s)] = first + Len(s) + (i - Len(s)) - 1
      BY <3>1 DEF Consecutive
    <3> QED
      BY <1>1, <1>2, <2>2, <3>2
  <2> QED
    BY <1>1, <2>1, <2>2
<1> QED
  BY <1>2, <1>3 DEF Consecutive

\* The first n taken off.
LEMMA DropConsecutive ==
    ASSUME NEW s \in Seq(Nat), NEW first \in Nat, Consecutive(s, first),
           NEW n \in 0 .. Len(s)
    PROVE  /\ SubSeq(s, n + 1, Len(s)) \in Seq(Nat)
           /\ Len(SubSeq(s, n + 1, Len(s))) = Len(s) - n
           /\ Consecutive(SubSeq(s, n + 1, Len(s)), first + n)
<1> DEFINE rest == SubSeq(s, n + 1, Len(s))
<1>1. Len(s) \in Nat /\ \A i \in n + 1 .. Len(s) : s[i] \in Nat
  BY LenProperties, ElementOfSeq
<1>2. /\ rest \in Seq(Nat)
      /\ Len(rest) = IF n + 1 <= Len(s) THEN Len(s) - (n + 1) + 1 ELSE 0
      /\ \A i \in 1 .. Len(s) - (n + 1) + 1 : rest[i] = s[n + 1 + i - 1]
  BY <1>1, SubSeqProperties, n + 1 \in Int, Len(s) \in Int
<1>3. Len(rest) = Len(s) - n
  BY <1>1, <1>2
<1>4. ASSUME NEW i \in 1 .. Len(s) - n PROVE rest[i] = first + n + i - 1
  <2>1. rest[i] = s[n + i] /\ n + i \in 1 .. Len(s)
    BY <1>1, <1>2
  <2> QED
    BY <1>1, <2>1 DEF Consecutive
<1> QED
  BY <1>2, <1>3, <1>4 DEF Consecutive

\* The first one recorded as sent.
LEMMA TailConsecutive ==
    ASSUME NEW s \in Seq(Nat), NEW first \in Nat, Consecutive(s, first), s # << >>
    PROVE  /\ Head(s) = first
           /\ Tail(s) \in Seq(Nat)
           /\ Len(Tail(s)) = Len(s) - 1
           /\ Consecutive(Tail(s), first + 1)
<1>1. Len(s) \in Nat \ {0}
  BY EmptySeq
<1>2. /\ Tail(s) \in Seq(Nat)
      /\ Len(Tail(s)) = Len(s) - 1
      /\ \A i \in 1 .. Len(Tail(s)) : Tail(s)[i] = s[i + 1]
  BY HeadTailProperties
<1>3. Head(s) = first
  BY <1>1 DEF Consecutive
<1>4. ASSUME NEW i \in 1 .. Len(Tail(s)) PROVE Tail(s)[i] = first + 1 + i - 1
  <2>1. Tail(s)[i] = s[i + 1] /\ i + 1 \in 1 .. Len(s)
    BY <1>1, <1>2
  <2> QED
    BY <2>1 DEF Consecutive
<1> QED
  BY <1>2, <1>3, <1>4 DEF Consecutive

-----------------------------------------------------------------------------
(* The inductive invariant.                                                 *)

\* The buffer is paused except while the wire's thread receives.
Balanced == interrupt_balance = IF wire \in {"receiving", "pause"} THEN 0 ELSE 1

\* The three containers follow one another without a gap.
InOrder ==
    /\ current_seqn >= 1
    /\ Len(pending_queue) = max_sent_seqn + 1 - current_seqn
    /\ Len(queue) + Len(data) = puts - max_sent_seqn
    /\ Consecutive(pending_queue, current_seqn)
    /\ Consecutive(queue, max_sent_seqn + 1)
    /\ Consecutive(data, max_sent_seqn + 1 + Len(queue))
    /\ worker = "sent" => queue # << >>

\* The highest number sent; one may be sent and not yet recorded.
Highest == IF worker = "sent" THEN max_sent_seqn + 1 ELSE max_sent_seqn

NumbersSent ==
    /\ acknowledged_seqn <= Highest
    /\ \A k \in 1 .. Len(line) : line[k].seqn <= Highest /\ line[k].seqn = line[k].msg

IInv == TypeOK /\ Balanced /\ InOrder /\ NumbersSent /\ NeverCrashes

\* Everything is empty at first.
LEMMA InitIInv == Init => IInv
<1> SUFFICES ASSUME Init PROVE IInv
  OBVIOUS
<1>1. << >> \in Seq(Nat) /\ << >> \in Seq([seqn : Nat, msg : Nat]) /\ Len(<< >>) = 0
  BY EmptySeq
<1>2. Consecutive(<< >>, 1)
  BY <1>1 DEF Consecutive
<1> QED
  BY <1>1, <1>2, BoundAssumption
  DEF Init, IInv, TypeOK, Balanced, InOrder, NumbersSent, Highest, NeverCrashes,
      StateKinds, WorkerPlaces, WirePlaces, StopperPlaces

-----------------------------------------------------------------------------
(* One lemma per step that touches the buffer or the line.                  *)

\* Every other step moves threads, and opens or closes nothing in the buffer.
LEMMA OtherSteps ==
    ASSUME IInv, UNCHANGED <<buffer, line, puts>>,
           TypeOK', Balanced', NeverCrashes',
           (worker' = "sent") <=> (worker = "sent")
    PROVE  IInv'
<1>1. Highest' = Highest
  BY DEF Highest, buffer
<1> QED
  BY <1>1 DEF IInv, InOrder, NumbersSent, Consecutive, buffer

\* put numbers the message behind the last one.
LEMMA PutStep ==
    ASSUME IInv, put
    PROVE  IInv'
<1> DEFINE last == max_sent_seqn + 1 + Len(queue) + Len(data)
<1>1. Len(queue) \in Nat /\ Len(data) \in Nat /\ max_sent_seqn \in Nat /\ puts \in Nat
  BY LenProperties DEF IInv, TypeOK
<1>2. puts + 1 = last
  BY <1>1 DEF IInv, InOrder
<1>3. /\ data' \in Seq(Nat)
      /\ Len(data') = Len(data) + 1
      /\ Consecutive(data', max_sent_seqn + 1 + Len(queue))
  <2>1. Consecutive(data, max_sent_seqn + 1 + Len(queue))
    BY DEF IInv, InOrder
  <2>2. max_sent_seqn + 1 + Len(queue) \in Nat /\ data \in Seq(Nat)
    BY <1>1 DEF IInv, TypeOK
  <2>3. data' = Append(data, last)
    BY <1>2 DEF put
  <2> QED
    BY <2>1, <2>2, <2>3, AppendConsecutive
<1>4. (worker' = "sent") <=> (worker = "sent")
  BY DEF put, Woken
<1>5. worker' \in WorkerPlaces /\ puts' \in 0 .. MaxPuts
  BY BoundAssumption DEF put, Woken, IInv, TypeOK, WorkerPlaces
<1>6. TypeOK'
  BY <1>3, <1>5 DEF put, IInv, TypeOK, socket
<1>7. InOrder'
  <2>1. UNCHANGED <<queue, pending_queue, max_sent_seqn, current_seqn>> /\ puts' = puts + 1
    BY DEF put
  <2>2. Len(queue') + Len(data') = puts' - max_sent_seqn'
    <3>1. Len(queue) + Len(data) = puts - max_sent_seqn
      BY DEF IInv, InOrder
    <3>2. Len(queue') = Len(queue) /\ max_sent_seqn' = max_sent_seqn
      BY <2>1
    <3>3. Len(data') = Len(data) + 1 /\ puts' = puts + 1
      BY <1>3, <2>1
    <3> QED
      BY <1>1, <3>1, <3>2, <3>3
  <2>3. Consecutive(data', max_sent_seqn' + 1 + Len(queue'))
    BY <1>3, <2>1
  <2> QED
    BY <1>4, <2>1, <2>2, <2>3 DEF IInv, InOrder
<1>8. NumbersSent'
  BY <1>4 DEF put, IInv, NumbersSent, Highest, socket
<1> QED
  BY <1>6, <1>7, <1>8 DEF put, IInv, Balanced, NeverCrashes

\* add_data moves data behind the queue.
LEMMA TakeDataStep ==
    ASSUME IInv, TakeData
    PROVE  IInv'
<1>1. Len(queue) \in Nat /\ Len(data) \in Nat /\ max_sent_seqn \in Nat /\ puts \in Nat
  BY LenProperties DEF IInv, TypeOK
<1>2. /\ queue' \in Seq(Nat)
      /\ Len(queue') = Len(queue) + Len(data)
      /\ Consecutive(queue', max_sent_seqn + 1)
  <2>1. /\ Consecutive(queue, max_sent_seqn + 1)
        /\ Consecutive(data, max_sent_seqn + 1 + Len(queue))
        /\ queue \in Seq(Nat) /\ data \in Seq(Nat)
    BY DEF IInv, TypeOK, InOrder
  <2>2. queue' = queue \o data /\ max_sent_seqn + 1 \in Nat
    BY <1>1 DEF TakeData
  <2> QED
    BY <2>1, <2>2, ConcatConsecutive
<1>3. data' = << >> /\ data' \in Seq(Nat) /\ Len(data') = 0
  BY EmptySeq DEF TakeData
<1>4. TypeOK'
  BY <1>2, <1>3 DEF TakeData, IInv, TypeOK, WorkerPlaces, socket, counts
<1>5. InOrder'
  BY <1>1, <1>2, <1>3 DEF TakeData, IInv, InOrder, Consecutive, counts
<1>6. NumbersSent'
  BY DEF TakeData, IInv, NumbersSent, Highest, socket
<1> QED
  BY <1>4, <1>5, <1>6 DEF TakeData, IInv, Balanced, NeverCrashes

\* What both senders put on the line.
LEMMA TransmitNumbers ==
    ASSUME IInv, NEW n \in Nat, Transmit(n, n)
    PROVE  /\ line' \in Seq([seqn : Nat, msg : Nat])
           /\ link' = link /\ acked' = acked
           /\ \A k \in 1 .. Len(line') : \/ line'[k].seqn = n /\ line'[k].msg = n
                                         \/ k \in 1 .. Len(line) /\ line'[k] = line[k]
<1> DEFINE package == [seqn |-> n, msg |-> n]
<1>1. line \in Seq([seqn : Nat, msg : Nat]) /\ Len(line) \in Nat
  BY LenProperties DEF IInv, TypeOK
<1>2. line' = Append(line, package) /\ package \in [seqn : Nat, msg : Nat]
  BY DEF Transmit
<1> QED
  BY <1>1, <1>2 DEF Transmit

\* process sends the front under the next number, or fails and changes nothing.
LEMMA SendFrontStep ==
    ASSUME IInv, SendFront
    PROVE  IInv'
<1>1. CASE TransmitFails /\ worker' = "loop"
  <2>1. UNCHANGED <<buffer, line, puts>> /\ worker = "sending"
    BY <1>1 DEF SendFront, TransmitFails, socket, counts
  <2>2. TypeOK' /\ Balanced' /\ NeverCrashes'
    BY <1>1 DEF SendFront, TransmitFails, IInv, TypeOK, Balanced, NeverCrashes,
                WorkerPlaces, buffer, socket, counts
  <2> QED
    BY <1>1, <2>1, <2>2, OtherSteps
<1>2. CASE Transmit(Head(queue), max_sent_seqn + 1) /\ worker' = "sent"
  <2> DEFINE n == max_sent_seqn + 1
  <2>1. n \in Nat /\ Head(queue) = n /\ queue # << >>
    BY TailConsecutive DEF SendFront, IInv, TypeOK, InOrder
  <2>2. Transmit(n, n)
    BY <1>2, <2>1
  <2>3. /\ line' \in Seq([seqn : Nat, msg : Nat])
        /\ link' = link /\ acked' = acked
        /\ \A k \in 1 .. Len(line') : \/ line'[k].seqn = n /\ line'[k].msg = n
                                      \/ k \in 1 .. Len(line) /\ line'[k] = line[k]
    BY <2>1, <2>2, TransmitNumbers
  <2>4. Highest' = n /\ Highest = max_sent_seqn
    BY <1>2 DEF SendFront, Highest, buffer
  <2>5. \A k \in 1 .. Len(line) : line[k] \in [seqn : Nat, msg : Nat]
    BY ElementOfSeq DEF IInv, TypeOK
  <2>6. NumbersSent'
    <3>1. acknowledged_seqn' <= Highest'
      BY <2>4 DEF SendFront, IInv, TypeOK, NumbersSent, buffer
    <3>2. ASSUME NEW k \in 1 .. Len(line')
          PROVE  line'[k].seqn <= n /\ line'[k].seqn = line'[k].msg
      <4>1. CASE line'[k].seqn = n /\ line'[k].msg = n
        BY <2>1, <4>1
      <4>2. CASE k \in 1 .. Len(line) /\ line'[k] = line[k]
        <5>1. line[k].seqn <= max_sent_seqn /\ line[k].seqn = line[k].msg
          BY <2>4, <4>2 DEF IInv, NumbersSent
        <5>2. line[k].seqn \in Nat /\ max_sent_seqn \in Nat
          BY <2>5, <4>2 DEF IInv, TypeOK
        <5> QED
          BY <4>2, <5>1, <5>2
      <4> QED
        BY <2>3, <4>1, <4>2
    <3> QED
      BY <2>4, <3>1, <3>2 DEF NumbersSent
  <2>7. TypeOK'
    BY <1>2, <2>3 DEF SendFront, IInv, TypeOK, WorkerPlaces, buffer, counts
  <2>8. InOrder'
    BY <2>1 DEF SendFront, IInv, InOrder, Consecutive, buffer, counts
  <2> QED
    BY <2>6, <2>7, <2>8 DEF SendFront, IInv, Balanced, NeverCrashes
<1> QED
  BY <1>1, <1>2 DEF SendFront

\* process moves the front behind the pending messages.
LEMMA RecordSentStep ==
    ASSUME IInv, RecordSent
    PROVE  IInv'
<1> DEFINE n == max_sent_seqn + 1
<1>1. /\ Len(queue) \in Nat /\ Len(data) \in Nat /\ Len(pending_queue) \in Nat
      /\ n \in Nat /\ max_sent_seqn \in Nat /\ current_seqn \in Nat /\ puts \in Nat
      /\ queue # << >>
  BY LenProperties DEF RecordSent, IInv, TypeOK, InOrder
<1>2. /\ Head(queue) = n
      /\ queue' \in Seq(Nat)
      /\ Len(queue') = Len(queue) - 1
      /\ Consecutive(queue', n + 1)
  BY <1>1, TailConsecutive DEF RecordSent, IInv, TypeOK, InOrder
<1>3. /\ pending_queue' \in Seq(Nat)
      /\ Len(pending_queue') = Len(pending_queue) + 1
      /\ Consecutive(pending_queue', current_seqn)
  <2>1. Consecutive(pending_queue, current_seqn) /\ pending_queue \in Seq(Nat)
    BY DEF IInv, TypeOK, InOrder
  <2>2. n = current_seqn + Len(pending_queue)
    BY <1>1 DEF IInv, InOrder
  <2>3. pending_queue' = Append(pending_queue, current_seqn + Len(pending_queue))
    BY <1>2, <2>2 DEF RecordSent
  <2> QED
    BY <1>1, <2>1, <2>3, AppendConsecutive
<1>4. Consecutive(data', n + 1 + Len(queue'))
  <2>1. n + 1 + Len(queue') = n + Len(queue) /\ data' = data
    BY <1>1, <1>2 DEF RecordSent
  <2> QED
    BY <2>1 DEF IInv, InOrder
<1>5. max_sent_seqn' = n /\ worker' = "sending" /\ Highest' = n /\ Highest = n
  BY DEF RecordSent, Highest
<1>6. TypeOK'
  BY <1>1, <1>2, <1>3 DEF RecordSent, IInv, TypeOK, WorkerPlaces, socket, counts
<1>7. InOrder'
  BY <1>1, <1>2, <1>3, <1>4, <1>5 DEF RecordSent, IInv, InOrder, counts
<1>8. NumbersSent'
  BY <1>5 DEF RecordSent, IInv, NumbersSent, socket
<1> QED
  BY <1>6, <1>7, <1>8 DEF RecordSent, IInv, Balanced, NeverCrashes

\* A new connection begins with nothing on its line.
LEMMA ConnectStep ==
    ASSUME IInv, Connect
    PROVE  IInv'
<1>1. line' = << >> /\ line' \in Seq([seqn : Nat, msg : Nat]) /\ Len(line') = 0
  BY EmptySeq DEF Connect
<1>2. TypeOK'
  BY <1>1, BoundAssumption DEF Connect, IInv, TypeOK, WirePlaces, buffer
<1>3. InOrder'
  BY DEF Connect, IInv, InOrder, Consecutive, buffer
<1>4. NumbersSent'
  BY <1>1 DEF Connect, IInv, NumbersSent, Highest, buffer
<1> QED
  BY <1>2, <1>3, <1>4 DEF Connect, IInv, Balanced, NeverCrashes

\* The point of NeverCrashes: the worker is not between sending and recording,
\* so everything acknowledged is among the pending messages.
LEMMA DropAcknowledgedStep ==
    ASSUME IInv, DropAcknowledged
    PROVE  IInv'
<1>1. /\ Len(pending_queue) \in Nat /\ max_sent_seqn \in Nat
      /\ current_seqn \in Nat /\ acknowledged_seqn \in Nat
  BY LenProperties DEF IInv, TypeOK
<1>2. acknowledged_seqn <= max_sent_seqn
  BY DEF DropAcknowledged, WorkerProcesses, IInv, NumbersSent, Highest
<1>3. Acknowledged \in 0 .. Len(pending_queue)
  BY <1>1, <1>2 DEF Acknowledged, IInv, InOrder
<1>4. ~(Acknowledged > Len(pending_queue))
  BY <1>1, <1>3
<1>5. /\ pending_queue' = SubSeq(pending_queue, Acknowledged + 1, Len(pending_queue))
      /\ current_seqn' = current_seqn + Acknowledged
      /\ replayed' = 0
      /\ wire' = "replay"
  BY <1>4 DEF DropAcknowledged
<1>6. /\ pending_queue' \in Seq(Nat)
      /\ Len(pending_queue') = Len(pending_queue) - Acknowledged
      /\ Consecutive(pending_queue', current_seqn + Acknowledged)
  BY <1>1, <1>3, <1>5, DropConsecutive DEF IInv, TypeOK, InOrder
<1>7. TypeOK'
  BY <1>1, <1>3, <1>5, <1>6 DEF DropAcknowledged, IInv, TypeOK, WirePlaces, socket, counts
<1>8. InOrder'
  BY <1>1, <1>3, <1>5, <1>6 DEF DropAcknowledged, IInv, InOrder, Consecutive, counts
<1>9. NumbersSent'
  BY DEF DropAcknowledged, IInv, NumbersSent, Highest, socket
<1> QED
  BY <1>5, <1>7, <1>8, <1>9 DEF DropAcknowledged, IInv, Balanced, NeverCrashes

\* reprocess sends a pending message under its old number.
LEMMA ReplayStep ==
    ASSUME IInv, Replay
    PROVE  IInv'
<1>1. CASE TransmitFails /\ wire' = "resumed" /\ UNCHANGED replayed
  <2>1. UNCHANGED <<buffer, line, puts>> /\ UNCHANGED worker
    BY <1>1 DEF Replay, TransmitFails, socket, counts
  <2>2. TypeOK' /\ Balanced' /\ NeverCrashes'
    BY <1>1 DEF Replay, TransmitFails, IInv, TypeOK, Balanced, NeverCrashes,
                WirePlaces, buffer, socket, counts
  <2> QED
    BY <2>1, <2>2, OtherSteps
<1>2. CASE /\ Transmit(pending_queue[replayed + 1], current_seqn + replayed)
           /\ replayed' = replayed + 1
           /\ UNCHANGED wire
  <2> DEFINE n == current_seqn + replayed
  <2>1. /\ Len(pending_queue) \in Nat /\ replayed \in Nat /\ replayed < Len(pending_queue)
        /\ current_seqn \in Nat /\ max_sent_seqn \in Nat
    BY LenProperties DEF Replay, IInv, TypeOK
  <2>2. replayed + 1 \in 1 .. Len(pending_queue) /\ n \in Nat
    BY <2>1
  <2>3. pending_queue[replayed + 1] = n /\ n <= max_sent_seqn
    BY <2>1, <2>2 DEF IInv, InOrder, Consecutive
  <2>4. Transmit(n, n)
    BY <1>2, <2>3
  <2>5. /\ line' \in Seq([seqn : Nat, msg : Nat])
        /\ link' = link /\ acked' = acked
        /\ \A k \in 1 .. Len(line') : \/ line'[k].seqn = n /\ line'[k].msg = n
                                      \/ k \in 1 .. Len(line) /\ line'[k] = line[k]
    BY <2>2, <2>4, TransmitNumbers
  <2>6. Highest' = Highest /\ n <= Highest
    BY <2>1, <2>3 DEF Replay, Highest, buffer
  <2>7. NumbersSent'
    BY <2>5, <2>6 DEF Replay, IInv, NumbersSent, buffer
  <2>8. TypeOK'
    <3>1. /\ replayed' \in Nat /\ wire' \in WirePlaces /\ acked' \in Nat
          /\ line' \in Seq([seqn : Nat, msg : Nat]) /\ link' \in {"up", "down"}
      BY <1>2, <2>1, <2>5 DEF Replay, IInv, TypeOK
    <3>2. UNCHANGED <<state, data, queue, pending_queue, max_sent_seqn, current_seqn,
                      acknowledged_seqn, interrupt_balance, worker, stopper, puts, connections>>
      BY DEF Replay, buffer, counts
    <3> QED
      BY <3>1, <3>2 DEF IInv, TypeOK
  <2>9. InOrder'
    BY DEF Replay, IInv, InOrder, Consecutive, buffer, counts
  <2> QED
    BY <1>2, <2>7, <2>8, <2>9 DEF Replay, IInv, Balanced, NeverCrashes
<1> QED
  BY <1>1, <1>2 DEF Replay

\* acknowledge keeps the highest number read.
LEMMA AcknowledgeStep ==
    ASSUME IInv, acknowledge
    PROVE  IInv'
<1> DEFINE seqn == line[acked + 1].seqn
<1>1. acked + 1 \in 1 .. Len(line) /\ acked \in Nat
  BY LenProperties DEF acknowledge, IInv, TypeOK
<1>2. line[acked + 1] \in [seqn : Nat, msg : Nat]
  BY <1>1, ElementOfSeq DEF IInv, TypeOK
<1>3. seqn \in Nat /\ seqn <= Highest
  BY <1>1, <1>2 DEF IInv, NumbersSent
<1>4. acknowledged_seqn' \in Nat /\ acknowledged_seqn' <= Highest
  BY <1>3 DEF acknowledge, IInv, TypeOK, NumbersSent
<1>5. TypeOK'
  BY <1>1, <1>4 DEF acknowledge, IInv, TypeOK, counts
<1>6. InOrder'
  BY DEF acknowledge, IInv, InOrder, Consecutive, counts
<1>7. NumbersSent'
  BY <1>4 DEF acknowledge, IInv, NumbersSent, Highest
<1> QED
  BY <1>5, <1>6, <1>7 DEF acknowledge, IInv, Balanced, NeverCrashes

-----------------------------------------------------------------------------
(* The steps of the threads that leave buffer and line alone.               *)

\* ThreadProc sleeps, leaves, begins and ends processing.
LEMMA WorkerMoves ==
    ASSUME IInv, NoData \/ BeginProcess \/ EndProcess
    PROVE  IInv'
<1>1. UNCHANGED <<buffer, line, puts>> /\ worker # "sent" /\ worker' # "sent"
  BY DEF NoData, BeginProcess, EndProcess, socket, counts
<1>2. TypeOK' /\ Balanced' /\ NeverCrashes'
  BY DEF NoData, BeginProcess, EndProcess, IInv, TypeOK, Balanced, NeverCrashes,
         WorkerPlaces, buffer, socket, counts
<1> QED
  BY <1>1, <1>2, OtherSteps

\* pause, resume and the connection loop.
LEMMA WireMoves ==
    ASSUME IInv, \/ Resume \/ EndReplay \/ Resumed \/ EndReceiving \/ Pause
                 \/ Paused \/ Shutdown \/ EndWire
    PROVE  IInv'
<1>1. UNCHANGED <<buffer, line, puts>> /\ (worker' = "sent" <=> worker = "sent")
  BY DEF Resume, EndReplay, Resumed, EndReceiving, Pause, Paused, Shutdown, EndWire,
         Woken, socket, counts
<1>2. Balanced' /\ NeverCrashes'
  BY DEF Resume, EndReplay, Resumed, EndReceiving, Pause, Paused, Shutdown, EndWire,
         IInv, TypeOK, Balanced, NeverCrashes
<1>3. /\ wire' \in WirePlaces /\ worker' \in WorkerPlaces
      /\ interrupt_balance' \in {0, 1}
      /\ link' \in {"up", "down"} /\ replayed' \in Nat
      /\ UNCHANGED <<state, buffer, stopper, line, acked, counts>>
  BY <1>2 DEF Resume, EndReplay, Resumed, EndReceiving, Pause, Paused, Shutdown, EndWire,
         IInv, TypeOK, Balanced, Woken, WirePlaces, WorkerPlaces, socket
<1>4. TypeOK'
  BY <1>3 DEF IInv, TypeOK, buffer, counts
<1> QED
  BY <1>1, <1>2, <1>4, OtherSteps

\* Connections lost, and the end of the lifetime.
LEMMA LifetimeMoves ==
    ASSUME IInv, LoseConnection \/ TerminateLifetime \/ Stopper
    PROVE  IInv'
<1>1. UNCHANGED <<buffer, line, puts>> /\ (worker' = "sent" <=> worker = "sent")
  BY DEF LoseConnection, TerminateLifetime, Stopper, stop, cleanup0, CloseSocket, Join,
         Woken, socket, counts
<1>2. Balanced' /\ NeverCrashes'
  BY DEF LoseConnection, TerminateLifetime, Stopper, stop, cleanup0, CloseSocket, Join,
         IInv, Balanced, NeverCrashes
<1>3. /\ state' \in StateKinds /\ worker' \in WorkerPlaces /\ stopper' \in StopperPlaces
      /\ link' \in {"up", "down"}
      /\ UNCHANGED <<buffer, interrupt_balance, wire, replayed, line, acked, counts>>
  BY DEF LoseConnection, TerminateLifetime, Stopper, stop, cleanup0, CloseSocket, Join,
         IInv, TypeOK, Woken, StateKinds, WorkerPlaces, StopperPlaces, socket
<1>4. TypeOK'
  BY <1>3 DEF IInv, TypeOK, buffer, counts
<1> QED
  BY <1>1, <1>2, <1>4, OtherSteps

-----------------------------------------------------------------------------

\* Every step keeps the invariant.
LEMMA NextIInv == IInv /\ [Next]_vars => IInv'
<1> SUFFICES ASSUME IInv, [Next]_vars PROVE IInv'
  OBVIOUS
<1>1. CASE put
  BY <1>1, PutStep
<1>2. CASE Worker
  BY <1>2, TakeDataStep, WorkerMoves, SendFrontStep, RecordSentStep DEF Worker
<1>3. CASE Connect
  BY <1>3, ConnectStep
<1>4. CASE Wire \/ EndReceiving
  BY <1>4, WireMoves, DropAcknowledgedStep, ReplayStep, AcknowledgeStep DEF Wire
<1>5. CASE LoseConnection \/ TerminateLifetime \/ Stopper
  BY <1>5, LifetimeMoves
<1>6. CASE UNCHANGED vars
  BY <1>6, OtherSteps
  DEF vars, IInv, TypeOK, Balanced, NeverCrashes, buffer, socket, counts
<1> QED
  BY <1>1, <1>2, <1>3, <1>4, <1>5, <1>6 DEF Next

\* The argument of the theorems below.
THEOREM Inductive == Spec => []IInv
BY InitIInv, NextIInv, PTL DEF Spec

\* Every variable keeps its type; in particular the buffer is paused at most once.
THEOREM TypeCorrect == Spec => []TypeOK
<1>1. IInv => TypeOK
  BY DEF IInv
<1> QED
  BY <1>1, Inductive, PTL

\* reprocess never takes a message off an empty deque.
THEOREM NoCrash == Spec => []NeverCrashes
<1>1. IInv => NeverCrashes
  BY DEF IInv
<1> QED
  BY <1>1, Inductive, PTL

\* One number, one message, on every connection.
THEOREM Numbering == Spec => []NumbersAgree
<1>1. IInv => NumbersAgree
  <2> SUFFICES ASSUME IInv PROVE NumbersAgree
    OBVIOUS
  <2>1. DOMAIN line = 1 .. Len(line)
    BY LenProperties DEF IInv, TypeOK
  <2> QED
    BY <2>1 DEF IInv, NumbersSent, NumbersAgree
<1> QED
  BY <1>1, Inductive, PTL

\* No message is lost, duplicated or put out of order in the buffer.
THEOREM Complete == Spec => []NothingLost
<1>1. IInv => NothingLost
  <2> SUFFICES ASSUME IInv PROVE NothingLost
    OBVIOUS
  <2> DEFINE all == pending_queue \o queue \o data
             n == puts - current_seqn + 1
  <2>1. /\ pending_queue \in Seq(Nat) /\ queue \in Seq(Nat) /\ data \in Seq(Nat)
        /\ current_seqn \in Nat /\ max_sent_seqn \in Nat /\ puts \in Nat
        /\ Len(pending_queue) \in Nat /\ Len(queue) \in Nat /\ Len(data) \in Nat
    BY LenProperties DEF IInv, TypeOK
  <2>2. /\ pending_queue \o queue \in Seq(Nat)
        /\ Len(pending_queue \o queue) = Len(pending_queue) + Len(queue)
        /\ Consecutive(pending_queue \o queue, current_seqn)
    <3>1. max_sent_seqn + 1 = current_seqn + Len(pending_queue)
      BY <2>1 DEF IInv, InOrder
    <3>2. Consecutive(pending_queue, current_seqn)
      BY DEF IInv, InOrder
    <3>3. Consecutive(queue, current_seqn + Len(pending_queue))
      BY <3>1 DEF IInv, InOrder
    <3> QED
      BY <2>1, <3>2, <3>3, ConcatConsecutive
  <2>3. /\ all \in Seq(Nat)
        /\ Len(all) = Len(pending_queue) + Len(queue) + Len(data)
        /\ Consecutive(all, current_seqn)
    <3>1. max_sent_seqn + 1 + Len(queue) = current_seqn + Len(pending_queue \o queue)
      BY <2>1, <2>2 DEF IInv, InOrder
    <3>2. Consecutive(data, current_seqn + Len(pending_queue \o queue))
      BY <3>1 DEF IInv, InOrder
    <3> QED
      BY <2>1, <2>2, <3>2, ConcatConsecutive
  <2>4. Len(all) = n
    BY <2>1, <2>3 DEF IInv, InOrder
  <2>5. all \in [1 .. n -> Nat]
    BY <2>3, <2>4, LenProperties
  <2> QED
    BY <2>3, <2>4, <2>5 DEF NothingLost, Consecutive
<1> QED
  BY <1>1, Inductive, PTL

-----------------------------------------------------------------------------
(* The wire.  The invariants say what the peer is still to read and how far *)
(* it has come, as long as the worker has not sent ahead of reprocess.      *)

\* Where the threads can be, and when the worker can have something to send.
Places ==
    /\ wire \in {"offline", "ended"} => link = "down"
    /\ wire = "replay" => ~WorkerProcesses
    /\ connections = 0 => wire \in {"offline", "ended"}
    /\ connections = 0 \/ (connections = 1 /\ wire \in {"resume", "resuming", "replay", "resumed"})
           => worker \in {"loop", "asleep", "dead"}

PeerTypeOK ==
    /\ late \in Seq([seqn : Nat, msg : Nat])
    /\ read \in 0 .. Len(line) /\ acked \in 0 .. read
    /\ max_received_seqn \in Nat
    /\ aligned \in BOOLEAN /\ overtaken \in BOOLEAN /\ restarted \in BOOLEAN
    /\ dispatched \in Seq(Nat \ {0})

\* A connection carries the pending messages and then the new ones, from
\* current_seqn without a gap.
LineInOrder ==
    /\ \A k \in 1 .. Len(line) : line[k].msg = current_seqn + k - 1
    /\ BeforeReplay => line = << >>
    /\ wire = "replay" => replayed = Len(line)
    /\ link = "up" /\ wire \notin {"resume", "resuming", "replay"}
           => current_seqn + Len(line) = Highest + 1

\* The sender counts the acknowledgements of its connection one by one.
AcksCounted ==
    IF BeforeReplay THEN current_seqn <= acknowledged_seqn + 1
    ELSE acknowledged_seqn = current_seqn - 1 + acked

\* The last message dispatched, and the last one late.
Latest == IF dispatched = << >> THEN 0 ELSE dispatched[Len(dispatched)]
LastLate == IF late = << >> THEN Latest ELSE late[Len(late)].msg

\* What is late comes before what is on the line, and what a predecessor has
\* sent before what this sender has; and no package is more than one ahead of
\* the one before it.
LateInOrder ==
    /\ link = "up" /\ read > 0 => late = << >>
    /\ \A k \in 1 .. Len(late) :
          /\ late[k].msg = 0 \/ late[k].seqn = late[k].msg
          /\ late[k].msg <= (IF k = 1 THEN Latest ELSE late[k - 1].msg) + 1
          /\ late[k].msg = 0 => dispatched = << >> /\ \A j \in 1 .. k : late[j].msg = 0

\* What the sender may take for received.
Received == IF BeforeReplay THEN acknowledged_seqn ELSE current_seqn - 1 + read

PeerFollows ==
    /\ Received <= LastLate
    /\ 1 .. Latest \subseteq ToSet(dispatched)
    /\ 1 .. Received \subseteq ToSet(dispatched)
    /\ dispatched # << >> => max_received_seqn = Latest

\* On its first connection a process sends from 1, and the peer reads nothing else.
FirstConnection ==
    /\ connections <= 1 =>
          /\ ~overtaken
          /\ current_seqn = 1
          /\ BeforeReplay => acknowledged_seqn = 0
    /\ connections = 0 => acknowledged_seqn = 0 /\ read = 0
    /\ connections = 0 \/ (connections = 1 /\ link = "up") =>
          /\ \A k \in 1 .. Len(late) : late[k].msg = 0
          /\ aligned => dispatched = [k \in 1 .. read |-> k]

WireInv ==
    /\ IInv /\ Places /\ PeerTypeOK /\ FirstConnection
    /\ NoGap
    /\ ~overtaken => LineInOrder /\ AcksCounted
    /\ ~overtaken /\ aligned => LateInOrder /\ PeerFollows

\* Of nothing, nothing is late and everything is received.
LEMMA InitWireInv == WireInit => WireInv
<1> SUFFICES ASSUME WireInit PROVE WireInv
  OBVIOUS
<1>1. /\ << >> \in Seq([seqn : Nat, msg : Nat]) /\ << >> \in Seq(Nat \ {0}) /\ Len(<< >>) = 0
      /\ << >> = [k \in 1 .. 0 |-> k]
  BY EmptySeq
<1>2. IInv
  BY InitIInv DEF WireInit
<1>3. Places
  BY DEF WireInit, Init, Places, WorkerProcesses
<1>7. PeerTypeOK
  <2>1. late \in Seq([seqn : Nat, msg : Nat]) /\ dispatched \in Seq(Nat \ {0})
    BY <1>1 DEF WireInit
  <2>2. read \in 0 .. Len(line) /\ acked \in 0 .. read /\ max_received_seqn \in Nat
    BY <1>1 DEF WireInit, Init
  <2>3. aligned \in BOOLEAN /\ overtaken \in BOOLEAN /\ restarted \in BOOLEAN
    BY DEF WireInit
  <2> QED
    BY <2>1, <2>2, <2>3 DEF PeerTypeOK
<1>4. FirstConnection /\ NoGap
  BY <1>1 DEF WireInit, Init, FirstConnection, NoGap
<1>5. LineInOrder /\ AcksCounted
  BY <1>1 DEF WireInit, Init, LineInOrder, AcksCounted, BeforeReplay, Highest
<1>6. LateInOrder /\ PeerFollows
  BY <1>1 DEF WireInit, Init, LateInOrder, PeerFollows, BeforeReplay, Received, LastLate, Latest
<1> QED
  BY <1>2, <1>3, <1>4, <1>5, <1>6, <1>7 DEF WireInv

\* What the number of connections says of the threads.
LEMMA PlacesStep ==
    ASSUME IInv, Places, Next
    PROVE  Places'
<1> USE DEF IInv, TypeOK, Places, WorkerProcesses, WirePlaces, WorkerPlaces, counts
<1>1. CASE put
  BY <1>1 DEF put, Woken, socket
<1>2. CASE Worker
  <2>1. CASE TakeData
    BY <2>1 DEF TakeData, MayTake, Balanced, socket
  <2>2. CASE NoData \/ EndProcess
    BY <2>2 DEF NoData, EndProcess, socket
  <2>3. CASE BeginProcess
    BY <2>3 DEF BeginProcess, WireReprocesses, socket
  <2>4. CASE SendFront
    BY <2>4 DEF SendFront, Transmit, TransmitFails, socket
  <2>5. CASE RecordSent
    BY <2>5 DEF RecordSent, socket
  <2> QED
    BY <1>2, <2>1, <2>2, <2>3, <2>4, <2>5 DEF Worker
<1>3. CASE Connect
  BY <1>3 DEF Connect
<1>4. CASE Wire \/ EndReceiving
  <2>1. CASE Replay
    BY <2>1 DEF Replay, Transmit, TransmitFails, socket
  <2>2. CASE DropAcknowledged
    BY <2>2 DEF DropAcknowledged, socket
  <2>3. CASE Resumed
    BY <2>3 DEF Resumed, Woken, socket
  <2>4. CASE Resume \/ EndReplay \/ acknowledge \/ EndReceiving \/ Pause \/ Paused \/ Shutdown \/ EndWire
    BY <2>4 DEF Resume, EndReplay, acknowledge, EndReceiving, Pause, Paused, Shutdown, EndWire, socket
  <2> QED
    BY <1>4, <2>1, <2>2, <2>3, <2>4 DEF Wire
<1>5. CASE LoseConnection \/ TerminateLifetime \/ Stopper
  BY <1>5 DEF LoseConnection, TerminateLifetime, Stopper, stop, cleanup0, CloseSocket, Join,
              Woken, socket
<1> QED
  BY <1>1, <1>2, <1>3, <1>4, <1>5 DEF Next

\* A step of the sender leaves its line alone, sends a package, or is one of three.
Still ==
    /\ UNCHANGED <<line, acked, current_seqn, acknowledged_seqn, connections>>
    /\ BeforeReplay' = BeforeReplay
    /\ link' = link \/ (link = "up" /\ link' = "down")

Sent ==
    /\ \E n \in Nat : line' = Append(line, [seqn |-> n, msg |-> n])
    /\ UNCHANGED <<link, acked, current_seqn, acknowledged_seqn, connections>>
    /\ BeforeReplay' = BeforeReplay
    /\ link = "up"

LEMMA Kinds ==
    ASSUME IInv, Places, Next
    PROVE  Still \/ Sent \/ Connect \/ DropAcknowledged \/ acknowledge
<1> USE DEF buffer, counts
<1>1. CASE put
  BY <1>1 DEF put, Still, BeforeReplay, socket
<1>2. CASE SendFront
  <2>1. CASE TransmitFails
    BY <1>2, <2>1 DEF SendFront, TransmitFails, Still, BeforeReplay, socket
  <2>2. CASE Transmit(Head(queue), max_sent_seqn + 1)
    <3>1. max_sent_seqn + 1 \in Nat /\ Head(queue) = max_sent_seqn + 1
      BY <1>2, TailConsecutive DEF SendFront, IInv, TypeOK, InOrder
    <3> QED
      BY <1>2, <2>2, <3>1 DEF SendFront, Transmit, Sent, BeforeReplay
  <2> QED
    BY <1>2, <2>1, <2>2 DEF SendFront
<1>3. CASE Worker /\ ~SendFront
  BY <1>3 DEF Worker, TakeData, NoData, BeginProcess, RecordSent, EndProcess, Still,
              BeforeReplay, socket
<1>4. CASE Replay
  <2>1. CASE TransmitFails
    BY <1>4, <2>1 DEF Replay, TransmitFails, Still, BeforeReplay, socket
  <2>2. CASE Transmit(pending_queue[replayed + 1], current_seqn + replayed)
    <3>1. /\ replayed + 1 \in 1 .. Len(pending_queue) /\ current_seqn + replayed \in Nat
          /\ current_seqn \in Nat /\ replayed \in Nat
      BY <1>4, LenProperties DEF Replay, IInv, TypeOK
    <3>2. pending_queue[replayed + 1] = current_seqn + replayed
      BY <3>1 DEF IInv, InOrder, Consecutive
    <3> QED
      BY <1>4, <2>2, <3>1, <3>2 DEF Replay, Transmit, Sent, BeforeReplay
  <2> QED
    BY <1>4, <2>1, <2>2 DEF Replay
<1>5. CASE \/ Resume \/ EndReplay \/ Resumed \/ EndReceiving \/ Pause \/ Paused \/ EndWire
  BY <1>5 DEF Resume, EndReplay, Resumed, EndReceiving, Pause, Paused, EndWire, Still,
              BeforeReplay, socket
<1>6. CASE Shutdown \/ LoseConnection \/ TerminateLifetime \/ Stopper
  BY <1>6 DEF Shutdown, LoseConnection, TerminateLifetime, Stopper, stop, cleanup0, CloseSocket,
              Join, Still, BeforeReplay, socket, IInv, TypeOK
<1> QED
  BY <1>1, <1>2, <1>3, <1>4, <1>5, <1>6 DEF Next, Wire

\* What the peer sees of it.
LEMMA LinkChanges ==
    ASSUME IInv, Places, Sends(Next)
    PROVE  \/ link' = link /\ UNCHANGED <<late, read>> /\ ~Connect
           \/ Still /\ link = "up" /\ link' = "down" /\ Breaks /\ UNCHANGED read
           \/ Connect /\ link = "down" /\ link' = "up" /\ read' = 0 /\ UNCHANGED late
<1>1. Next /\ PeerSees
  BY DEF Sends
<1>2. Still \/ Sent \/ Connect \/ DropAcknowledged \/ acknowledge
  BY <1>1, Kinds
<1>3. link \in {"up", "down"}
  BY DEF IInv, TypeOK
<1>4. CASE Connect
  BY <1>1, <1>4 DEF Connect, Places, PeerSees
<1>5. CASE Still /\ ~Connect
  BY <1>1, <1>3, <1>5 DEF Still, PeerSees
<1>6. CASE (Sent \/ DropAcknowledged \/ acknowledge) /\ ~Connect
  BY <1>1, <1>3, <1>6 DEF Sent, DropAcknowledged, acknowledge, PeerSees, socket
<1> QED
  BY <1>2, <1>4, <1>5, <1>6

\* A part of what comes after the first r, behind another sequence.
LEMMA Behind ==
    ASSUME NEW T, NEW s \in Seq(T), NEW t \in Seq(T), NEW r \in 0 .. Len(t),
           NEW n \in 0 .. Len(SubSeq(t, r + 1, Len(t)))
    PROVE  LET all == s \o SubSeq(SubSeq(t, r + 1, Len(t)), 1, n)
           IN  /\ all \in Seq(T)
               /\ r + n \in r .. Len(t)
               /\ Len(all) = Len(s) + n
               /\ \A k \in 1 .. Len(s) : all[k] = s[k]
               /\ \A k \in 1 .. n : all[Len(s) + k] = t[r + k]
<1> DEFINE rest == SubSeq(t, r + 1, Len(t))
           part == SubSeq(rest, 1, n)
           all == s \o part
<1>1. Len(t) \in Nat /\ Len(s) \in Nat /\ \A k \in 1 .. Len(t) : t[k] \in T
  BY LenProperties, ElementOfSeq
<1>2. /\ rest \in Seq(T) /\ Len(rest) = Len(t) - r
      /\ \A k \in 1 .. Len(t) - r : rest[k] = t[r + k]
  <2>1. \A k \in r + 1 .. Len(t) : t[k] \in T
    BY <1>1
  <2>2. /\ rest \in Seq(T)
        /\ Len(rest) = IF r + 1 <= Len(t) THEN Len(t) - (r + 1) + 1 ELSE 0
        /\ \A k \in 1 .. Len(t) - (r + 1) + 1 : rest[k] = t[r + 1 + k - 1]
    BY <1>1, <2>1, SubSeqProperties, r + 1 \in Int, Len(t) \in Int
  <2> QED
    BY <1>1, <2>2
<1>3. n \in 0 .. Len(rest) /\ r + n \in r .. Len(t)
  BY <1>1, <1>2
<1> HIDE DEF rest
<1>4. /\ part \in Seq(T) /\ Len(part) = n /\ \A k \in 1 .. n : part[k] = rest[k]
  <2>1. \A k \in 1 .. n : rest[k] \in T
    BY <1>1, <1>2, <1>3, ElementOfSeq
  <2>2. /\ part \in Seq(T)
        /\ Len(part) = IF 1 <= n THEN n - 1 + 1 ELSE 0
        /\ \A k \in 1 .. n - 1 + 1 : part[k] = rest[1 + k - 1]
    BY <1>2, <1>3, <2>1, SubSeqProperties, n \in Int, 1 \in Int
  <2> QED
    BY <1>1, <1>2, <1>3, <2>2
<1> HIDE DEF part
<1>5. /\ all \in Seq(T) /\ Len(all) = Len(s) + n
      /\ \A k \in 1 .. Len(s) + n : all[k] = IF k <= Len(s) THEN s[k] ELSE part[k - Len(s)]
  BY <1>1, <1>4, ConcatProperties
<1> HIDE DEF all
<1>6. ASSUME NEW k \in 1 .. n PROVE all[Len(s) + k] = t[r + k]
  <2>1. Len(s) + k \in 1 .. Len(s) + n /\ ~(Len(s) + k <= Len(s)) /\ Len(s) + k - Len(s) = k
    BY <1>1, <1>3
  <2>2. all[Len(s) + k] = part[k]
    BY <1>5, <2>1
  <2>3. part[k] = rest[k] /\ rest[k] = t[r + k]
    BY <1>1, <1>2, <1>3, <1>4
  <2> QED
    BY <2>2, <2>3
<1>7. \A k \in 1 .. Len(s) : all[k] = s[k]
  BY <1>1, <1>3, <1>5
<1> QED
  BY <1>3, <1>5, <1>6, <1>7 DEF all, part, rest

LEMMA PeerTypeStep ==
    ASSUME IInv, Places, PeerTypeOK, Sends(Next)
    PROVE  PeerTypeOK'
<1>1. line \in Seq([seqn : Nat, msg : Nat]) /\ Len(line) \in Nat
  BY LenProperties DEF IInv, TypeOK
<1>2. /\ acked' <= read
      /\ UNCHANGED <<max_received_seqn, aligned, dispatched, restarted>>
      /\ Still \/ Sent \/ Connect \/ DropAcknowledged \/ acknowledge
  BY Kinds DEF Sends
<1>3. overtaken' \in BOOLEAN
  BY ZenonT(20) DEF Sends, PeerTypeOK
<1>4. late' \in Seq([seqn : Nat, msg : Nat])
  <2>1. CASE Breaks
    <3>1. PICK n \in 0 .. Len(Unread) : late' = late \o SubSeq(Unread, 1, n)
      BY <2>1 DEF Breaks
    <3> QED
      BY <1>1, <3>1, Behind DEF PeerTypeOK, Unread
  <2> QED
    BY <2>1, LinkChanges DEF PeerTypeOK
<1>5. read' \in 0 .. Len(line') /\ acked' \in 0 .. read'
  <2>1. CASE Connect
    <3>1. read' = 0 /\ acked' = 0 /\ line' = << >>
      BY <2>1, LinkChanges DEF Connect, Still
    <3> QED
      BY <3>1, EmptySeq
  <2>2. CASE Sent
    <3>1. read' = read /\ acked' = acked
      BY <2>2, LinkChanges DEF Connect, Still, Sent
    <3>2. Len(line') = Len(line) + 1
      BY <1>1, <2>2 DEF Sent
    <3> QED
      BY <1>1, <3>1, <3>2 DEF PeerTypeOK
  <2>3. CASE Still \/ DropAcknowledged
    <3>1. read' = read /\ acked' = acked /\ line' = line
      BY <2>3, LinkChanges DEF Connect, Still, Sent, DropAcknowledged, socket
    <3> QED
      BY <3>1 DEF PeerTypeOK
  <2>4. CASE acknowledge
    <3>1. read' = read /\ acked' = acked + 1 /\ line' = line
      BY <2>4, LinkChanges DEF Connect, Still, acknowledge
    <3> QED
      BY <1>1, <1>2, <3>1 DEF PeerTypeOK
  <2> QED
    BY <1>2, <2>1, <2>2, <2>3, <2>4
<1> QED
  BY <1>2, <1>3, <1>4, <1>5 DEF PeerTypeOK

\* What a sender appends carries the number that is next on its line.
LEMMA AppendLine ==
    ASSUME IInv, NEW n \in Nat, line' = Append(line, [seqn |-> n, msg |-> n]),
           \A k \in 1 .. Len(line) : line[k].msg = current_seqn + k - 1,
           n = current_seqn + Len(line), UNCHANGED current_seqn
    PROVE  /\ Len(line') = Len(line) + 1
           /\ \A k \in 1 .. Len(line') : line'[k].msg = current_seqn' + k - 1
<1> DEFINE package == [seqn |-> n, msg |-> n]
<1>1. line \in Seq([seqn : Nat, msg : Nat]) /\ Len(line) \in Nat /\ current_seqn \in Nat
  BY LenProperties DEF IInv, TypeOK
<1>2. package \in [seqn : Nat, msg : Nat] /\ package.msg = n
  OBVIOUS
<1>3. Len(line') = Len(line) + 1
      /\ \A k \in 1 .. Len(line') : line'[k] = IF k <= Len(line) THEN line[k] ELSE package
  BY <1>1, <1>2
<1>4. ASSUME NEW k \in 1 .. Len(line) + 1 PROVE line'[k].msg = current_seqn + k - 1
  <2>1. CASE k <= Len(line)
    <3>1. k \in 1 .. Len(line) /\ line'[k] = line[k]
      BY <1>1, <1>3, <2>1
    <3> QED
      BY <3>1
  <2>2. CASE ~(k <= Len(line))
    <3>1. k = Len(line) + 1
      BY <1>1, <2>2
    <3>2. line'[k].msg = n
      BY <1>2, <1>3, <2>2
    <3> QED
      BY <1>1, <3>1, <3>2
  <2> QED
    BY <2>1, <2>2
<1> QED
  BY <1>3, <1>4

\* The order on the line, and the count of the acknowledgements.
LEMMA LineStep ==
    ASSUME IInv, Places, PeerTypeOK, LineInOrder, AcksCounted, Sends(Next), ~overtaken'
    PROVE  LineInOrder' /\ AcksCounted'
<1>1. /\ max_sent_seqn \in Nat /\ current_seqn \in Nat /\ acknowledged_seqn \in Nat
      /\ Len(line) \in Nat /\ acked \in Nat /\ replayed \in Nat /\ Len(pending_queue) \in Nat
      /\ Len(pending_queue) = max_sent_seqn + 1 - current_seqn
      /\ line \in Seq([seqn : Nat, msg : Nat])
  BY LenProperties DEF IInv, TypeOK, InOrder
<1>2. ~(worker = "sending" /\ worker' = "sent" /\ BeforeReplay) /\ ~overtaken /\ Next
  BY DEF Sends
<1>3. CASE put
  BY <1>3 DEF put, Woken, LineInOrder, AcksCounted, BeforeReplay, Highest, socket
<1>4. CASE TakeData \/ NoData \/ BeginProcess \/ EndProcess
  BY <1>4 DEF TakeData, NoData, BeginProcess, EndProcess, LineInOrder, AcksCounted, BeforeReplay,
              Highest, buffer, socket
<1>5. CASE SendFront
  <2>1. CASE TransmitFails
    BY <1>5, <2>1 DEF SendFront, TransmitFails, LineInOrder, AcksCounted, BeforeReplay, Highest,
                      buffer, socket
  <2>2. CASE Transmit(Head(queue), max_sent_seqn + 1) /\ worker' = "sent"
    <3> DEFINE n == max_sent_seqn + 1
    <3>1. Head(queue) = n /\ n \in Nat
      <4>1. queue \in Seq(Nat) /\ queue # << >> /\ Consecutive(queue, n) /\ n \in Nat
        BY <1>5, <1>1 DEF SendFront, IInv, TypeOK, InOrder
      <4> QED
        BY <4>1, TailConsecutive
    <3>2. ~BeforeReplay /\ wire # "replay" /\ worker = "sending"
      BY <1>5, <1>2, <2>2 DEF SendFront, Places, WorkerProcesses
    <3>3. /\ link = "up" /\ UNCHANGED <<link, acked, wire, current_seqn, acknowledged_seqn, max_sent_seqn>>
          /\ line' = Append(line, [seqn |-> n, msg |-> n])
      BY <1>5, <2>2, <3>1 DEF SendFront, Transmit, buffer
    <3>4. n = current_seqn + Len(line)
      BY <1>1, <3>2, <3>3 DEF LineInOrder, Highest, BeforeReplay
    <3>5. /\ Len(line') = Len(line) + 1
          /\ \A k \in 1 .. Len(line') : line'[k].msg = current_seqn' + k - 1
      BY <3>1, <3>3, <3>4, AppendLine DEF LineInOrder
    <3> QED
      BY <1>1, <2>2, <3>2, <3>3, <3>4, <3>5 DEF LineInOrder, AcksCounted, BeforeReplay, Highest
  <2> QED
    BY <1>5, <2>1, <2>2 DEF SendFront
<1>6. CASE RecordSent
  BY <1>6, <1>1 DEF RecordSent, LineInOrder, AcksCounted, BeforeReplay, Highest, socket
<1>7. CASE Connect
  <2>1. line' = << >> /\ Len(line') = 0 /\ BeforeReplay' /\ ~BeforeReplay
    BY <1>7, EmptySeq DEF Connect, BeforeReplay
  <2> QED
    BY <1>7, <1>1, <2>1 DEF Connect, LineInOrder, AcksCounted, BeforeReplay, buffer
<1>8. CASE DropAcknowledged
  <2>1. /\ current_seqn <= acknowledged_seqn + 1 /\ line = << >> /\ Len(line) = 0
    BY <1>8, EmptySeq DEF DropAcknowledged, LineInOrder, AcksCounted, BeforeReplay
  <2>2. acked = 0
    BY <1>1, <2>1 DEF PeerTypeOK
  <2>3. IInv' /\ wire' = "replay" /\ replayed' = 0 /\ UNCHANGED <<line, acked, acknowledged_seqn>>
    BY <1>8, DropAcknowledgedStep DEF DropAcknowledged, socket, IInv, NeverCrashes
  <2>4. current_seqn' = acknowledged_seqn + 1
    BY <1>8, <1>1, <2>1, <2>3 DEF DropAcknowledged, Acknowledged
  <2> QED
    BY <1>1, <2>1, <2>2, <2>3, <2>4 DEF LineInOrder, AcksCounted, BeforeReplay
<1>9. CASE Replay
  <2>1. CASE TransmitFails /\ wire' = "resumed"
    BY <1>9, <2>1 DEF Replay, TransmitFails, LineInOrder, AcksCounted, BeforeReplay, buffer, socket
  <2>2. CASE Transmit(pending_queue[replayed + 1], current_seqn + replayed)
             /\ replayed' = replayed + 1 /\ UNCHANGED wire
    <3> DEFINE n == current_seqn + replayed
    <3>1. n \in Nat /\ pending_queue[replayed + 1] = n /\ replayed = Len(line)
      <4>1. replayed + 1 \in 1 .. Len(pending_queue)
        BY <1>9, <1>1 DEF Replay
      <4> QED
        BY <1>9, <1>1, <4>1 DEF Replay, IInv, InOrder, Consecutive, LineInOrder
    <3>2. /\ UNCHANGED <<link, acked, wire, current_seqn, acknowledged_seqn>> /\ wire = "replay"
          /\ line' = Append(line, [seqn |-> n, msg |-> n])
      BY <1>9, <2>2, <3>1 DEF Replay, Transmit, buffer
    <3>3. /\ Len(line') = Len(line) + 1
          /\ \A k \in 1 .. Len(line') : line'[k].msg = current_seqn' + k - 1
      BY <3>1, <3>2, AppendLine DEF LineInOrder
    <3> QED
      BY <1>1, <2>2, <3>1, <3>2, <3>3 DEF LineInOrder, AcksCounted, BeforeReplay
  <2> QED
    BY <1>9, <2>1, <2>2 DEF Replay
<1>10. CASE EndReplay
  <2>1. worker # "sent" /\ Len(line) = Len(pending_queue)
    BY <1>10 DEF EndReplay, Places, WorkerProcesses, LineInOrder
  <2> QED
    BY <1>10, <1>1, <2>1 DEF EndReplay, LineInOrder, AcksCounted, BeforeReplay, Highest, buffer, socket
<1>11. CASE acknowledge
  <2>1. acked + 1 \in 1 .. Len(line)
    <3>1. acked < Len(line) /\ Len(line) \in Nat /\ acked \in Nat
      BY <1>11, <1>1 DEF acknowledge
    <3> QED
      BY <3>1
  <2>2. line[acked + 1].seqn = current_seqn + acked
    BY <1>1, <2>1 DEF LineInOrder, IInv, NumbersSent
  <2>3. acknowledged_seqn = current_seqn - 1 + acked
    BY <1>11 DEF acknowledge, AcksCounted, BeforeReplay
  <2>4. acknowledged_seqn' = current_seqn + acked
    BY <1>11, <1>1, <2>2, <2>3 DEF acknowledge
  <2> QED
    BY <1>11, <1>1, <2>4 DEF acknowledge, LineInOrder, AcksCounted, BeforeReplay, Highest
<1>12. CASE Resume \/ Resumed \/ EndReceiving \/ Pause \/ Paused \/ Shutdown \/ EndWire
  BY <1>12 DEF Resume, Resumed, EndReceiving, Pause, Paused, Shutdown, EndWire, Woken, Places,
               LineInOrder, AcksCounted, BeforeReplay, Highest, buffer, socket
<1>13. CASE LoseConnection \/ TerminateLifetime \/ Stopper
  BY <1>13 DEF LoseConnection, TerminateLifetime, Stopper, stop, cleanup0, CloseSocket, Join, Woken,
               LineInOrder, AcksCounted, BeforeReplay, Highest, buffer, socket
<1> QED
  BY <1>2, <1>3, <1>4, <1>5, <1>6, <1>7, <1>8, <1>9, <1>10, <1>11, <1>12, <1>13
  DEF Next, Worker, Wire

\* The sender never takes more for received than before.
LEMMA ReceivedStep ==
    ASSUME IInv, Places, PeerTypeOK, LineInOrder, AcksCounted, Sends(Next), AcksCounted'
    PROVE  Received \in Nat /\ Received' \in Nat /\ Received' <= Received
<1>1. /\ current_seqn \in Nat /\ acknowledged_seqn \in Nat /\ acked \in 0 .. read /\ read \in Nat
      /\ current_seqn >= 1
  BY LenProperties DEF IInv, TypeOK, InOrder, PeerTypeOK
<1>2. Still \/ Sent \/ Connect \/ DropAcknowledged \/ acknowledge
  BY Kinds DEF Sends
<1>3. CASE Still \/ Sent
  <2>1. UNCHANGED <<read, current_seqn, acknowledged_seqn>> /\ BeforeReplay' = BeforeReplay
    BY <1>3, LinkChanges DEF Still, Sent, Connect
  <2> QED
    BY <1>1, <2>1 DEF Received
<1>4. CASE Connect
  <2>1. ~BeforeReplay /\ BeforeReplay' /\ acknowledged_seqn' = acknowledged_seqn
    BY <1>4 DEF Connect, BeforeReplay, buffer
  <2>2. acknowledged_seqn <= current_seqn - 1 + read
    BY <1>1, <2>1 DEF AcksCounted
  <2> QED
    BY <1>1, <2>1, <2>2 DEF Received
<1>5. CASE DropAcknowledged
  <2>1. /\ read = 0 /\ read' = read /\ acked' = acked
    BY <1>5, EmptySeq, LinkChanges
    DEF DropAcknowledged, LineInOrder, BeforeReplay, PeerTypeOK, Connect, Still, socket
  <2>2. BeforeReplay /\ acknowledged_seqn' = acknowledged_seqn /\ wire' = "replay"
    BY <1>5, DropAcknowledgedStep DEF DropAcknowledged, BeforeReplay, IInv, NeverCrashes
  <2>3. ~BeforeReplay'
    BY <2>2 DEF BeforeReplay
  <2>4. acknowledged_seqn = current_seqn' - 1
    <3>1. current_seqn' \in Nat
      BY <1>5, DropAcknowledgedStep DEF IInv, TypeOK
    <3> QED
      BY <1>1, <2>1, <2>2, <2>3, <3>1 DEF AcksCounted
  <2> QED
    BY <1>1, <2>1, <2>2, <2>3, <2>4 DEF Received
<1>6. CASE acknowledge
  <2>1. ~BeforeReplay /\ ~BeforeReplay' /\ UNCHANGED <<read, current_seqn>>
    BY <1>6, LinkChanges DEF acknowledge, BeforeReplay, Connect, Still
  <2> QED
    BY <1>1, <2>1 DEF Received
<1> QED
  BY <1>2, <1>3, <1>4, <1>5, <1>6

LEMMA LastIsNat ==
    ASSUME NEW s \in Seq(Nat \ {0}), NEW t \in Seq([seqn : Nat, msg : Nat])
    PROVE  /\ (IF s = << >> THEN 0 ELSE s[Len(s)]) \in Nat
           /\ (IF t = << >> THEN IF s = << >> THEN 0 ELSE s[Len(s)] ELSE t[Len(t)].msg) \in Nat
<1>1. (IF s = << >> THEN 0 ELSE s[Len(s)]) \in Nat
  BY ElementOfSeq, EmptySeq, LenProperties
<1>2. ASSUME t # << >> PROVE t[Len(t)].msg \in Nat
  <2>1. Len(t) \in 1 .. Len(t)
    BY <1>2, EmptySeq, LenProperties
  <2>2. t[Len(t)] \in [seqn : Nat, msg : Nat]
    BY <2>1, ElementOfSeq
  <2> QED
    BY <2>2
<1> QED
  BY <1>1, <1>2

\* A part of the line becomes late, in its place.
LEMMA BreakStep ==
    ASSUME IInv, PeerTypeOK, LineInOrder, LateInOrder, PeerFollows, ~BeforeReplay,
           link = "up", link' = "down", Breaks,
           UNCHANGED <<line, read, dispatched, current_seqn>>
    PROVE  LateInOrder' /\ Received <= LastLate'
<1> DEFINE T == [seqn : Nat, msg : Nat]
<1>1. PICK n \in 0 .. Len(Unread) : late' = late \o SubSeq(Unread, 1, n)
  BY DEF Breaks
<1>2. /\ line \in Seq(T) /\ late \in Seq(T) /\ Len(line) \in Nat /\ Len(late) \in Nat
      /\ read \in 0 .. Len(line) /\ current_seqn \in Nat /\ current_seqn >= 1
      /\ dispatched \in Seq(Nat \ {0}) /\ Len(dispatched) \in Nat
  BY LenProperties DEF IInv, TypeOK, InOrder, PeerTypeOK
<1> HIDE DEF T
<1>3. /\ late' \in Seq(T) /\ read + n \in read .. Len(line)
      /\ Len(late') = Len(late) + n
      /\ \A k \in 1 .. Len(late) : late'[k] = late[k]
      /\ \A k \in 1 .. n : late'[Len(late) + k] = line[read + k]
  <2> DEFINE all == late \o SubSeq(SubSeq(line, read + 1, Len(line)), 1, n)
  <2>1. late' = all /\ n \in 0 .. Len(SubSeq(line, read + 1, Len(line)))
    BY <1>1 DEF Unread
  <2>2. line \in Seq(T) /\ late \in Seq(T) /\ read \in 0 .. Len(line)
    BY <1>2
  <2>3. /\ all \in Seq(T) /\ read + n \in read .. Len(line) /\ Len(all) = Len(late) + n
        /\ \A k \in 1 .. Len(late) : all[k] = late[k]
        /\ \A k \in 1 .. n : all[Len(late) + k] = line[read + k]
    BY <2>1, <2>2, Behind
  <2> HIDE DEF all
  <2> QED
    BY <2>1, <2>3
<1>4. /\ n \in Nat /\ Len(line) \in Nat /\ Len(late) \in Nat /\ read \in Nat
      /\ read + n <= Len(line) /\ Len(late') = Len(late) + n /\ current_seqn \in Nat
  BY <1>2, <1>3
<1>5. Latest' = Latest /\ Latest \in Nat
  BY <1>2, ElementOfSeq, EmptySeq DEF Latest
<1>6. Received = current_seqn - 1 + read
  BY DEF Received
<1>7. ASSUME NEW k \in Len(late) + 1 .. Len(late')
      PROVE  /\ late'[k].msg = current_seqn + read + (k - Len(late)) - 1
             /\ late'[k].seqn = late'[k].msg
  <2> DEFINE i == k - Len(late)
  <2>1. i \in 1 .. n /\ read + i \in 1 .. Len(line) /\ Len(late) + i = k
    BY <1>4
  <2>2. late'[k] = line[read + i]
    BY <1>3, <2>1
  <2>3. line[read + i].msg = current_seqn + (read + i) - 1 /\ line[read + i].seqn = line[read + i].msg
    BY <2>1 DEF LineInOrder, IInv, NumbersSent
  <2>4. current_seqn + (read + i) - 1 = current_seqn + read + i - 1
    BY <1>4, <2>1
  <2> QED
    BY <2>2, <2>3, <2>4
<1>8. ASSUME NEW k \in 1 .. Len(late')
      PROVE  /\ late'[k].msg = 0 \/ late'[k].seqn = late'[k].msg
             /\ late'[k].msg <= (IF k = 1 THEN Latest' ELSE late'[k - 1].msg) + 1
             /\ late'[k].msg = 0 => dispatched' = << >> /\ \A j \in 1 .. k : late'[j].msg = 0
  <2>1. CASE k <= Len(late)
    <3>1. k \in 1 .. Len(late) /\ \A j \in 1 .. k : late'[j] = late[j]
      BY <1>2, <1>3, <2>1
    <3>2. k # 1 => late'[k - 1] = late[k - 1]
      BY <1>2, <3>1
    <3>3. late'[k] = late[k]
      BY <1>2, <3>1
    <3>4. /\ late[k].msg = 0 \/ late[k].seqn = late[k].msg
          /\ late[k].msg <= (IF k = 1 THEN Latest ELSE late[k - 1].msg) + 1
          /\ late[k].msg = 0 => dispatched = << >> /\ \A j \in 1 .. k : late[j].msg = 0
      BY <3>1 DEF LateInOrder
    <3>5. late'[k].msg <= (IF k = 1 THEN Latest' ELSE late'[k - 1].msg) + 1
      <4>1. CASE k = 1
        BY <1>5, <3>3, <3>4, <4>1
      <4>2. CASE k # 1
        BY <3>2, <3>3, <3>4, <4>2
      <4> QED
        BY <4>1, <4>2
    <3>6. late'[k].msg = 0 => dispatched' = << >> /\ \A j \in 1 .. k : late'[j].msg = 0
      BY <3>1, <3>3, <3>4
    <3> QED
      BY <3>3, <3>4, <3>5, <3>6
  <2>2. CASE k > Len(late) + 1
    <3>1. k \in Len(late) + 1 .. Len(late') /\ k - 1 \in Len(late) + 1 .. Len(late') /\ k # 1
      BY <1>4, <2>2
    <3>2. /\ late'[k].msg = current_seqn + read + (k - Len(late)) - 1
          /\ late'[k - 1].msg = current_seqn + read + (k - 1 - Len(late)) - 1
          /\ late'[k].seqn = late'[k].msg
      BY <1>7, <3>1
    <3> QED
      BY <1>4, <3>1, <3>2
  <2>3. CASE k = Len(late) + 1
    <3>1. k \in Len(late) + 1 .. Len(late')
      BY <1>4, <2>3
    <3>2. late'[k].msg = current_seqn + read /\ late'[k].seqn = late'[k].msg
      <4>1. /\ late'[k].msg = current_seqn + read + (k - Len(late)) - 1
            /\ late'[k].seqn = late'[k].msg
        BY <1>7, <3>1
      <4> QED
        BY <1>4, <2>3, <4>1
    <3>3. current_seqn - 1 + read <= LastLate
      BY <1>6 DEF PeerFollows
    <3>4. LastLate = IF k = 1 THEN Latest' ELSE late'[k - 1].msg
      <4>1. CASE late = << >>
        BY <1>5, <2>3, <4>1, EmptySeq DEF LastLate
      <4>2. CASE late # << >>
        <5>1. Len(late) \in 1 .. Len(late) /\ k # 1 /\ k - 1 = Len(late)
          BY <1>2, <2>3, <4>2, EmptySeq
        <5> QED
          BY <1>3, <4>2, <5>1 DEF LastLate
      <4> QED
        BY <4>1, <4>2
    <3>5. current_seqn >= 1 /\ LastLate \in Nat
      BY LastIsNat DEF IInv, InOrder, PeerTypeOK, LastLate, Latest
    <3> QED
      BY <1>4, <3>2, <3>3, <3>4, <3>5
  <2> QED
    BY <1>4, <2>1, <2>2, <2>3
<1>9. LateInOrder'
  BY <1>8 DEF LateInOrder
<1>10. Received <= LastLate'
  <2>1. CASE n = 0
    <3>1. Len(late') = Len(late) /\ \A k \in 1 .. Len(late) : late'[k] = late[k]
      BY <1>3, <1>4, <2>1
    <3>2. LastLate' = LastLate
      <4>1. (late' = << >>) <=> (late = << >>)
        BY <1>2, <1>3, <3>1, EmptySeq
      <4>2. late # << >> => late'[Len(late')] = late[Len(late)]
        <5>1. late # << >> => Len(late) \in 1 .. Len(late)
          BY <1>2, EmptySeq
        <5> QED
          BY <3>1, <5>1
      <4> QED
        BY <1>5, <4>1, <4>2 DEF LastLate
    <3> QED
      BY <3>2 DEF PeerFollows
  <2>2. CASE n > 0
    <3>1. Len(late') \in Len(late) + 1 .. Len(late') /\ late' # << >>
      BY <1>3, <1>4, <2>2, EmptySeq
    <3>2. LastLate' = current_seqn + read + n - 1
      <4>1. late'[Len(late')].msg = current_seqn + read + (Len(late') - Len(late)) - 1
        BY <1>7, <3>1
      <4> QED
        BY <1>4, <3>1, <4>1 DEF LastLate
    <3> QED
      BY <1>4, <1>6, <2>2, <3>2
  <2> QED
    BY <1>4, <2>1, <2>2
<1> QED
  BY <1>9, <1>10

\* What the sender does leaves the peer where it is.
LEMMA FollowsStep ==
    ASSUME WireInv, Sends(Next), ~overtaken', aligned', AcksCounted'
    PROVE  LateInOrder' /\ PeerFollows'
<1>1. /\ IInv /\ Places /\ PeerTypeOK /\ LineInOrder /\ AcksCounted /\ LateInOrder /\ PeerFollows
      /\ UNCHANGED <<max_received_seqn, aligned, dispatched>>
  BY DEF WireInv, Sends
<1>2. Received \in Nat /\ Received' \in Nat /\ Received' <= Received
  BY <1>1, ReceivedStep
<1>3. LateInOrder' /\ Received <= LastLate'
  <2>1. CASE link' = link /\ UNCHANGED <<late, read>>
    BY <1>1, <2>1 DEF LateInOrder, PeerFollows, Latest, LastLate
  <2>2. CASE Connect /\ link' = "up" /\ read' = 0 /\ UNCHANGED late
    BY <1>1, <2>2 DEF LateInOrder, PeerFollows, Latest, LastLate
  <2>3. CASE Still /\ link = "up" /\ link' = "down" /\ Breaks /\ UNCHANGED read
    <3>1. CASE ~BeforeReplay
      BY <1>1, <2>3, <3>1, BreakStep DEF Still
    <3>2. CASE BeforeReplay
      <4>1. line = << >>
        BY <1>1, <3>2 DEF LineInOrder
      <4>2. Len(Unread) = 0
        BY <1>1, <4>1, EmptySeq DEF PeerTypeOK, Unread
      <4>3. late' = late
        <5>1. PICK n \in 0 .. Len(Unread) : late' = late \o SubSeq(Unread, 1, n)
          BY <2>3 DEF Breaks
        <5>2. n = 0 /\ SubSeq(Unread, 1, n) = << >>
          BY <4>2, <5>1
        <5> QED
          BY <1>1, <5>1, <5>2 DEF PeerTypeOK
      <4> QED
        BY <1>1, <2>3, <4>3 DEF LateInOrder, PeerFollows, Latest, LastLate
    <3> QED
      BY <3>1, <3>2
  <2> QED
    BY <1>1, <2>1, <2>2, <2>3, LinkChanges
<1>4. LastLate' \in Nat
  <2>1. PeerTypeOK'
    BY <1>1, PeerTypeStep
  <2> QED
    BY <2>1, LastIsNat DEF PeerTypeOK, LastLate, Latest
<1>5. Received' <= LastLate'
  BY <1>2, <1>3, <1>4
<1>6. 1 .. Received' \subseteq 1 .. Received
  BY <1>2
<1> QED
  BY <1>1, <1>3, <1>5, <1>6 DEF PeerFollows, Latest

\* The first connection, as far as the sender goes.
LEMMA FirstSendStep ==
    ASSUME WireInv, Sends(Next)
    PROVE  FirstConnection'
<1>1. /\ IInv /\ Places /\ PeerTypeOK /\ FirstConnection /\ Next
      /\ UNCHANGED <<max_received_seqn, aligned, dispatched>>
      /\ connections \in Nat /\ acknowledged_seqn \in Nat
  BY BoundAssumption DEF WireInv, Sends, IInv, TypeOK
<1>2. connections' = IF Connect THEN connections + 1 ELSE connections
  BY <1>1, Kinds DEF Still, Sent, Connect, DropAcknowledged, acknowledge, counts
<1>3. connections <= 1 => ~overtaken'
  <2>1. connections <= 1 => ~(worker = "sending" /\ BeforeReplay)
    BY <1>1 DEF Places, BeforeReplay
  <2> QED
    BY <1>1, <2>1 DEF Sends, FirstConnection
<1>4. CASE connections = 0 /\ ~Connect
  <2>1. wire \in {"offline", "ended"} /\ link = "down" /\ connections' = 0
    BY <1>1, <1>2, <1>4 DEF Places
  <2>2. Still \/ Sent
    BY <1>1, <2>1, <1>4, Kinds DEF DropAcknowledged, acknowledge
  <2>3. UNCHANGED <<current_seqn, acknowledged_seqn>> /\ BeforeReplay' = BeforeReplay
    BY <2>2 DEF Still, Sent
  <2>4. link' = link /\ UNCHANGED <<late, read>>
    BY <1>1, <1>4, <2>1, LinkChanges
  <2> QED
    BY <1>1, <1>3, <1>4, <2>1, <2>3, <2>4 DEF FirstConnection
<1>5. CASE Connect /\ connections = 0
  <2>1. /\ UNCHANGED <<current_seqn, acknowledged_seqn, late>> /\ read' = 0 /\ connections' = 1
    BY <1>1, <1>5, LinkChanges DEF Connect, Still, buffer
  <2> QED
    BY <1>1, <1>3, <1>5, <2>1 DEF FirstConnection
<1>6. CASE connections = 1 /\ ~Connect
  <2>1. connections' = 1
    BY <1>2, <1>6
  <2>2. current_seqn' = 1 /\ (BeforeReplay' => acknowledged_seqn' = 0)
    <3>1. CASE Still \/ Sent
      BY <1>1, <1>6, <3>1 DEF Still, Sent, FirstConnection
    <3>2. CASE DropAcknowledged
      <4>1. acknowledged_seqn = 0 /\ current_seqn = 1
        BY <1>1, <1>6, <3>2 DEF DropAcknowledged, BeforeReplay, FirstConnection
      <4>2. ~BeforeReplay' /\ current_seqn' = 1
        BY <1>1, <3>2, <4>1, DropAcknowledgedStep
        DEF DropAcknowledged, Acknowledged, BeforeReplay, IInv, NeverCrashes
      <4> QED
        BY <4>2
    <3>3. CASE acknowledge
      BY <1>1, <1>6, <3>3 DEF acknowledge, BeforeReplay, FirstConnection
    <3> QED
      BY <1>1, <1>6, <3>1, <3>2, <3>3, Kinds
  <2>3. link' = "up" => link = "up" /\ UNCHANGED <<late, read>>
    BY <1>1, <1>6, LinkChanges
  <2> QED
    BY <1>1, <1>3, <1>6, <2>1, <2>2, <2>3 DEF FirstConnection
<1>7. connections' \in Nat
  BY <1>1, <1>2
<1>8. CASE connections' > 1
  <2>1. ~(connections' <= 1) /\ connections' # 0 /\ connections' # 1
    BY <1>7, <1>8
  <2> QED
    BY <2>1 DEF FirstConnection
<1>9. \/ connections = 0 /\ ~Connect
      \/ Connect /\ connections = 0
      \/ connections = 1 /\ ~Connect
      \/ connections' > 1
  BY <1>1, <1>2
<1> QED
  BY <1>4, <1>5, <1>6, <1>8, <1>9

LEMMA SendStep == WireInv /\ Sends(Next) => WireInv'
<1> SUFFICES ASSUME WireInv, Sends(Next) PROVE WireInv'
  OBVIOUS
<1>1. IInv /\ Places /\ PeerTypeOK /\ Next
  BY DEF WireInv, Sends
<1>2. IInv' /\ Places' /\ PeerTypeOK' /\ FirstConnection'
  BY <1>1, NextIInv, PlacesStep, PeerTypeStep, FirstSendStep
<1>3. ~overtaken' => ~overtaken
  BY DEF Sends
<1>4. NoGap'
  BY <1>3 DEF WireInv, NoGap, Sends
<1>5. ~overtaken' => LineInOrder' /\ AcksCounted'
  BY <1>1, <1>3, LineStep DEF WireInv
<1>6. ~overtaken' /\ aligned' => LateInOrder' /\ PeerFollows'
  BY <1>5, FollowsStep
<1> QED
  BY <1>2, <1>4, <1>5, <1>6 DEF WireInv

-----------------------------------------------------------------------------
(* The steps of the peer, and of a new process.                             *)

\* The package the peer reads next, if it is aligned and has been so far: it is
\* the one after the last, or the first one again.
LEMMA NextPackage ==
    ASSUME WireInv, ~overtaken, aligned, NEW package, package \in [seqn : Nat, msg : Nat],
           package.msg = 0 => dispatched = << >>,
           package.msg # 0 => package.seqn = package.msg,
           package.msg <= Latest + 1,
           ReadPackage(package), aligned'
    PROVE  /\ IF package.msg = 0 THEN UNCHANGED dispatched
              ELSE /\ dispatched' = Append(dispatched, package.msg)
                   /\ package.msg = 1 \/ package.msg = Latest + 1
           /\ Latest' = (IF package.msg = 0 THEN Latest ELSE package.msg)
           /\ max_received_seqn' = package.seqn
<1>1. ~IsDuplicate(package.seqn)
  BY DEF ReadPackage
<1>2. max_received_seqn' = package.seqn /\ Dispatch(package.msg)
  BY <1>1 DEF ReadPackage
<1>3. CASE package.msg = 0
  BY <1>2, <1>3 DEF Dispatch, Latest
<1>4. CASE package.msg # 0
  <2>1. dispatched' = Append(dispatched, package.msg) /\ package.seqn = package.msg
    BY <1>2, <1>4 DEF Dispatch
  <2>2. dispatched \in Seq(Nat \ {0}) /\ package.msg \in Nat \ {0} /\ Latest \in Nat
        /\ max_received_seqn \in Nat
    BY <1>4, LastIsNat DEF WireInv, PeerTypeOK, Latest, LastLate
  <2>3. Len(dispatched') = Len(dispatched) + 1 /\ dispatched'[Len(dispatched')] = package.msg
        /\ dispatched' # << >>
    BY <2>1, <2>2, EmptySeq
  <2>4. package.msg = 1 \/ package.msg = Latest + 1
    <3>1. CASE dispatched = << >>
      BY <2>2, <3>1 DEF Latest
    <3>2. CASE dispatched # << >>
      <4>1. max_received_seqn = Latest
        BY <3>2 DEF WireInv, PeerFollows
      <4> QED
        BY <1>1, <2>1, <2>2, <4>1 DEF IsDuplicate
    <3> QED
      BY <3>1, <3>2
  <2> QED
    BY <1>2, <1>4, <2>1, <2>3, <2>4 DEF Latest
<1> QED
  BY <1>3, <1>4

\* What has been dispatched stays so, and what is dispatched now comes last.
LEMMA DispatchedGrows ==
    ASSUME dispatched \in Seq(Nat \ {0}), NEW m \in Nat \ {0}, dispatched' = Append(dispatched, m)
    PROVE  /\ dispatched' \in Seq(Nat \ {0})
           /\ Len(dispatched') = Len(dispatched) + 1 /\ DOMAIN dispatched' = 1 .. Len(dispatched) + 1
           /\ \A k \in 1 .. Len(dispatched) : dispatched'[k] = dispatched[k]
           /\ dispatched'[Len(dispatched) + 1] = m
           /\ ToSet(dispatched') = ToSet(dispatched) \cup {m}
<1>1. /\ dispatched' \in Seq(Nat \ {0}) /\ Len(dispatched) \in Nat
      /\ DOMAIN dispatched = 1 .. Len(dispatched)
      /\ Len(dispatched') = Len(dispatched) + 1 /\ DOMAIN dispatched' = 1 .. Len(dispatched) + 1
      /\ \A k \in 1 .. Len(dispatched) : dispatched'[k] = dispatched[k]
      /\ dispatched'[Len(dispatched) + 1] = m
  BY LenProperties
<1>2. ToSet(dispatched') = ToSet(dispatched) \cup {m}
  <2>1. Len(dispatched) + 1 \in DOMAIN dispatched'
    BY <1>1
  <2>2. \A k \in DOMAIN dispatched' : k \in DOMAIN dispatched \/ k = Len(dispatched) + 1
    BY <1>1
  <2>3. DOMAIN dispatched \subseteq DOMAIN dispatched'
    BY <1>1
  <2> QED
    BY <1>1, <2>1, <2>2, <2>3 DEF ToSet
<1> QED
  BY <1>1, <1>2

LEMMA DispatchStep ==
    ASSUME WireInv, ~overtaken, aligned, NEW package, package \in [seqn : Nat, msg : Nat],
           package.msg = 0 => dispatched = << >>,
           package.msg # 0 => package.seqn = package.msg,
           package.msg <= Latest + 1,
           ReadPackage(package), aligned'
    PROVE  /\ NoGap'
           /\ 1 .. Latest' \subseteq ToSet(dispatched')
           /\ ToSet(dispatched) \subseteq ToSet(dispatched')
           /\ dispatched' # << >> => max_received_seqn' = Latest'
<1>1. NoGap /\ 1 .. Latest \subseteq ToSet(dispatched) /\ dispatched \in Seq(Nat \ {0})
      /\ Latest \in Nat
  BY LastIsNat DEF WireInv, PeerFollows, PeerTypeOK, Latest, LastLate
<1>2. CASE package.msg = 0
  <2>1. dispatched' = dispatched /\ Latest' = Latest /\ dispatched = << >>
    BY <1>2, NextPackage
  <2>2. \A k \in DOMAIN << >> : FALSE
    BY EmptySeq
  <2>3. NoGap'
    BY <2>1, <2>2 DEF NoGap
  <2> QED
    BY <1>1, <2>1, <2>3
<1>3. CASE package.msg # 0
  <2> DEFINE m == package.msg
  <2>1. /\ m \in Nat \ {0} /\ dispatched' = Append(dispatched, m)
        /\ m = 1 \/ m = Latest + 1
        /\ Latest' = m /\ max_received_seqn' = m
    BY <1>3, NextPackage
  <2>2. /\ DOMAIN dispatched' = 1 .. Len(dispatched) + 1
        /\ \A k \in 1 .. Len(dispatched) : dispatched'[k] = dispatched[k]
        /\ dispatched'[Len(dispatched) + 1] = m
        /\ ToSet(dispatched') = ToSet(dispatched) \cup {m}
        /\ Len(dispatched) \in Nat /\ DOMAIN dispatched = 1 .. Len(dispatched)
    BY <1>1, <2>1, DispatchedGrows, LenProperties
  <2>3. 1 .. m \subseteq 1 .. Latest \cup {m}
    BY <1>1, <2>1
  <2>4. ASSUME NEW k \in DOMAIN dispatched'
        PROVE  dispatched'[k] \in {1, IF k = 1 THEN 1 ELSE dispatched'[k - 1] + 1}
    <3>1. CASE k <= Len(dispatched)
      <4>1. k \in DOMAIN dispatched /\ dispatched'[k] = dispatched[k]
        BY <2>2, <3>1
      <4>2. k # 1 => dispatched'[k - 1] = dispatched[k - 1]
        BY <2>2, <3>1
      <4>3. dispatched[k] \in {1, IF k = 1 THEN 1 ELSE dispatched[k - 1] + 1}
        BY <1>1, <4>1 DEF NoGap
      <4>4. k = 1 => dispatched'[k] \in {1, 1}
        BY <4>1, <4>3
      <4>5. k # 1 => dispatched'[k] \in {1, dispatched'[k - 1] + 1}
        BY <4>1, <4>2, <4>3
      <4> QED
        BY <4>4, <4>5
    <3>2. CASE k = Len(dispatched) + 1
      <4>1. CASE dispatched = << >>
        <5>1. k = 1 /\ Latest = 0
          BY <3>2, <4>1, EmptySeq DEF Latest
        <5>2. m = 1 /\ dispatched'[k] = m
          BY <2>1, <2>2, <3>2, <5>1
        <5> QED
          BY <5>1, <5>2
      <4>2. CASE dispatched # << >>
        <5>1. Len(dispatched) \in 1 .. Len(dispatched) /\ k - 1 = Len(dispatched) /\ k # 1
          BY <1>1, <2>2, <3>2, <4>2, EmptySeq
        <5>2. dispatched'[k - 1] = Latest
          BY <2>2, <4>2, <5>1 DEF Latest
        <5> QED
          BY <2>1, <2>2, <3>2, <5>1, <5>2
      <4> QED
        BY <4>1, <4>2
    <3> QED
      BY <2>2, <3>1, <3>2
  <2>5. NoGap'
    BY <2>4 DEF NoGap
  <2> QED
    BY <1>1, <2>1, <2>2, <2>3, <2>5
<1> QED
  BY <1>2, <1>3

\* A package that was sent over an earlier connection.
LEMMA ReceiveLate ==
    ASSUME WireInv, ~overtaken, aligned, late # << >>, ReadPackage(late[1]), aligned',
           late' = Tail(late), UNCHANGED <<vars, history, read>>
    PROVE  NoGap' /\ LateInOrder' /\ PeerFollows'
<1>1. /\ late \in Seq([seqn : Nat, msg : Nat]) /\ dispatched \in Seq(Nat \ {0})
      /\ Latest \in Nat /\ LateInOrder /\ PeerFollows
  BY LastIsNat DEF WireInv, PeerTypeOK, Latest, LastLate
<1>2. Len(late) \in Nat /\ 1 \in 1 .. Len(late) /\ Len(late) \in 1 .. Len(late)
  BY <1>1, EmptySeq, LenProperties
<1>3. late[1] \in [seqn : Nat, msg : Nat]
  BY <1>1, <1>2, ElementOfSeq
<1>4. /\ late[1].msg = 0 => dispatched = << >>
      /\ late[1].msg # 0 => late[1].seqn = late[1].msg
      /\ late[1].msg <= Latest + 1
  BY <1>1, <1>2 DEF LateInOrder
<1>5. /\ NoGap'
      /\ 1 .. Latest' \subseteq ToSet(dispatched')
      /\ ToSet(dispatched) \subseteq ToSet(dispatched')
      /\ dispatched' # << >> => max_received_seqn' = Latest'
  BY <1>3, <1>4, DispatchStep
<1>6. /\ Latest' = (IF late[1].msg = 0 THEN Latest ELSE late[1].msg)
      /\ late[1].msg = 0 => dispatched' = dispatched
  BY <1>3, <1>4, NextPackage
<1>7. /\ Len(late') = Len(late) - 1
      /\ \A k \in 1 .. Len(late') : late'[k] = late[k + 1]
      /\ late' \in Seq([seqn : Nat, msg : Nat])
  BY <1>1, HeadTailProperties
<1>8. Latest = 0 \/ late[1].msg # 0
  BY <1>4 DEF Latest
<1>9. Latest' = late[1].msg
  BY <1>6, <1>8
<1>10. ASSUME NEW k \in 1 .. Len(late')
       PROVE  /\ late'[k].msg = 0 \/ late'[k].seqn = late'[k].msg
              /\ late'[k].msg <= (IF k = 1 THEN Latest' ELSE late'[k - 1].msg) + 1
              /\ late'[k].msg = 0 => dispatched' = << >> /\ \A j \in 1 .. k : late'[j].msg = 0
  <2>1. k + 1 \in 1 .. Len(late) /\ k + 1 # 1 /\ k + 1 - 1 = k
    BY <1>2, <1>7
  <2>2. /\ late[k + 1].msg = 0 \/ late[k + 1].seqn = late[k + 1].msg
        /\ late[k + 1].msg <= late[k].msg + 1
        /\ late[k + 1].msg = 0 => dispatched = << >> /\ \A j \in 1 .. k + 1 : late[j].msg = 0
    BY <1>1, <2>1 DEF LateInOrder
  <2>3. late'[k] = late[k + 1] /\ (k # 1 => late'[k - 1] = late[k])
    BY <1>2, <1>7, <2>1
  <2>4. late[k].msg = IF k = 1 THEN Latest' ELSE late'[k - 1].msg
    BY <1>9, <2>3
  <2>5. ASSUME late[k + 1].msg = 0 PROVE dispatched' = << >> /\ \A j \in 1 .. k : late'[j].msg = 0
    <3>1. dispatched = << >> /\ \A j \in 1 .. k + 1 : late[j].msg = 0
      BY <2>2, <2>5
    <3>2. late[1].msg = 0
      BY <1>2, <2>1, <3>1
    <3>3. ASSUME NEW j \in 1 .. k PROVE late'[j].msg = 0
      <4>1. j \in 1 .. Len(late') /\ j + 1 \in 1 .. k + 1
        BY <1>2, <1>7
      <4> QED
        BY <1>7, <3>1, <4>1
    <3> QED
      BY <1>6, <3>1, <3>2, <3>3
  <2> QED
    BY <2>2, <2>3, <2>4, <2>5
<1>11. LastLate' = LastLate
  <2>1. LastLate = late[Len(late)].msg
    BY DEF LastLate
  <2>2. CASE Len(late) = 1
    <3>1. late' = << >>
      <4>1. Len(late') = 0
        BY <1>7, <2>2
      <4> QED
        BY <1>7, <4>1, EmptySeq
    <3> QED
      BY <1>9, <2>1, <2>2, <3>1 DEF LastLate
  <2>3. CASE Len(late) # 1
    <3>1. Len(late') \in 1 .. Len(late') /\ Len(late') + 1 = Len(late) /\ Len(late') # 0
      BY <1>2, <1>7, <2>3
    <3>2. late'[Len(late')] = late[Len(late)]
      BY <1>7, <3>1
    <3> QED
      BY <2>1, <3>1, <3>2, EmptySeq DEF LastLate
  <2> QED
    BY <2>2, <2>3
<1>12. Received' = Received
  BY DEF Received, BeforeReplay, vars, buffer
<1>13. LateInOrder'
  <2>1. ~(link = "up" /\ read > 0)
    BY <1>1 DEF LateInOrder
  <2> QED
    BY <1>10, <2>1 DEF LateInOrder, vars, socket
<1>14. PeerFollows'
  BY <1>1, <1>5, <1>11, <1>12 DEF PeerFollows
<1> QED
  BY <1>5, <1>13, <1>14

\* A package of the present connection.
LEMMA ReceiveOnLine ==
    ASSUME WireInv, ~overtaken, aligned, late = << >>, link = "up", read < Len(line),
           ReadPackage(line[read + 1]), aligned',
           read' = read + 1, UNCHANGED <<vars, history, late>>
    PROVE  NoGap' /\ LateInOrder' /\ PeerFollows'
<1> DEFINE package == line[read + 1]
<1>1. /\ IInv /\ PeerTypeOK /\ LineInOrder /\ LateInOrder /\ PeerFollows
      /\ Latest \in Nat /\ LastLate = Latest
  BY LastIsNat DEF WireInv, PeerTypeOK, Latest, LastLate
<1>2. /\ read \in Nat /\ Len(line) \in Nat /\ read + 1 \in 1 .. Len(line) /\ line # << >>
      /\ current_seqn \in Nat /\ current_seqn >= 1
  BY <1>1, LenProperties, EmptySeq DEF PeerTypeOK, IInv, TypeOK, InOrder
<1>3. package \in [seqn : Nat, msg : Nat]
  BY <1>1, <1>2, ElementOfSeq DEF IInv, TypeOK
<1>4. package.msg = current_seqn + read /\ package.seqn = package.msg
  <2>1. package.msg = current_seqn + (read + 1) - 1
    BY <1>1, <1>2 DEF LineInOrder
  <2>2. package.seqn = package.msg
    BY <1>1, <1>2 DEF IInv, NumbersSent
  <2> QED
    BY <1>2, <2>1, <2>2
<1>5. ~BeforeReplay /\ Received = current_seqn - 1 + read /\ Received <= Latest
  BY <1>1, <1>2 DEF LineInOrder, Received, PeerFollows
<1>6. package.msg # 0 /\ package.msg <= Latest + 1
  BY <1>1, <1>2, <1>4, <1>5
<1> HIDE DEF package
<1>7. /\ NoGap'
      /\ 1 .. Latest' \subseteq ToSet(dispatched')
      /\ ToSet(dispatched) \subseteq ToSet(dispatched')
      /\ dispatched' # << >> => max_received_seqn' = Latest'
  BY <1>3, <1>4, <1>6, DispatchStep DEF package
<1>8. Latest' = current_seqn + read
  BY <1>3, <1>4, <1>6, NextPackage DEF package
<1>9. Received' = current_seqn - 1 + (read + 1) /\ Received' = Latest'
  <2>1. Received' = current_seqn' - 1 + read'
    BY <1>5 DEF Received, BeforeReplay, vars
  <2> QED
    BY <1>2, <1>8, <2>1 DEF vars, buffer
<1>10. LastLate' = Latest' /\ Latest' \in Nat
  BY <1>2, <1>8 DEF LastLate
<1>11. LateInOrder'
  BY EmptySeq DEF LateInOrder
<1>12. PeerFollows'
  BY <1>7, <1>9, <1>10 DEF PeerFollows
<1> QED
  BY <1>7, <1>11, <1>12

LEMMA ReceiveStep == WireInv /\ Receive => WireInv'
<1> SUFFICES ASSUME WireInv, Receive PROVE WireInv'
  OBVIOUS
<1>1. UNCHANGED <<vars, history, overtaken>>
  BY DEF Receive, history
<1>2. PICK package \in [seqn : Nat, msg : Nat] :
        /\ ReadPackage(package)
        /\ \/ late # << >> /\ package = late[1] /\ late' = Tail(late) /\ UNCHANGED read
           \/ /\ late = << >> /\ link = "up" /\ read < Len(line)
              /\ package = line[read + 1] /\ read' = read + 1 /\ UNCHANGED late
  <2>1. CASE late # << >>
    <3>1. late \in Seq([seqn : Nat, msg : Nat]) /\ 1 \in 1 .. Len(late)
      BY <2>1, EmptySeq, LenProperties DEF WireInv, PeerTypeOK
    <3>2. late[1] \in [seqn : Nat, msg : Nat]
      BY <3>1, ElementOfSeq
    <3>3. Head(late) = late[1]
      OBVIOUS
    <3> QED
      BY <2>1, <3>2, <3>3 DEF Receive
  <2>2. CASE late = << >>
    <3>1. line \in Seq([seqn : Nat, msg : Nat]) /\ read + 1 \in 1 .. Len(line)
      BY <2>2, LenProperties DEF Receive, WireInv, IInv, TypeOK, PeerTypeOK
    <3>2. line[read + 1] \in [seqn : Nat, msg : Nat]
      BY <3>1, ElementOfSeq
    <3> QED
      BY <2>2, <3>2 DEF Receive
  <2> QED
    BY <2>1, <2>2
<1>3. IInv' /\ Places'
  BY <1>1 DEF WireInv, IInv, TypeOK, Balanced, InOrder, Consecutive, NumbersSent, Highest,
     NeverCrashes, Places, WorkerProcesses, vars, buffer, socket, counts
<1>4. PeerTypeOK'
  <2>1. late' \in Seq([seqn : Nat, msg : Nat])
    <3>1. late \in Seq([seqn : Nat, msg : Nat])
      BY DEF WireInv, PeerTypeOK
    <3>2. late' = late \/ (late # << >> /\ late' = Tail(late))
      BY <1>2
    <3> QED
      BY <3>1, <3>2, HeadTailProperties
  <2>2. read' \in 0 .. Len(line') /\ acked' \in 0 .. read'
    <3>1. Len(line) \in Nat /\ read \in 0 .. Len(line) /\ acked \in 0 .. read
      BY LenProperties DEF WireInv, IInv, TypeOK, PeerTypeOK
    <3>2. line' = line /\ acked' = acked
      BY <1>1 DEF vars, socket
    <3>3. read' = read \/ (read' = read + 1 /\ read < Len(line))
      BY <1>2
    <3> QED
      BY <3>1, <3>2, <3>3
  <2>3. max_received_seqn' \in Nat
    BY <1>2 DEF WireInv, PeerTypeOK, ReadPackage
  <2>4. aligned' \in BOOLEAN
    BY <1>2, ZenonT(20) DEF WireInv, PeerTypeOK, ReadPackage
  <2>5. overtaken' \in BOOLEAN /\ restarted' \in BOOLEAN
    BY <1>1, ZenonT(20) DEF WireInv, PeerTypeOK, history
  <2>6. dispatched' \in Seq(Nat \ {0})
    <3>1. dispatched' = dispatched \/ (package.msg \in Nat \ {0} /\ dispatched' = Append(dispatched, package.msg))
      BY <1>2 DEF ReadPackage, Dispatch
    <3> QED
      BY <3>1, DispatchedGrows DEF WireInv, PeerTypeOK
  <2> QED
    BY <2>1, <2>2, <2>3, <2>4, <2>5, <2>6 DEF PeerTypeOK
<1>5. aligned' => aligned
  BY <1>2 DEF ReadPackage
<1>6. ~aligned' => dispatched' = dispatched
  BY <1>2 DEF ReadPackage, Dispatch
<1>7. ~overtaken' => LineInOrder' /\ AcksCounted'
  BY <1>1 DEF WireInv, LineInOrder, AcksCounted, BeforeReplay, Highest, vars, buffer, socket
<1>8. ~overtaken' /\ aligned' => NoGap' /\ LateInOrder' /\ PeerFollows'
  <2> SUFFICES ASSUME ~overtaken', aligned' PROVE NoGap' /\ LateInOrder' /\ PeerFollows'
    OBVIOUS
  <2>1. ~overtaken /\ aligned
    BY <1>1, <1>5
  <2> QED
    BY <1>1, <1>2, <2>1, ReceiveLate, ReceiveOnLine
<1>9. NoGap'
  BY <1>1, <1>6, <1>8 DEF WireInv, NoGap
<1>10. FirstConnection'
  <2>1. UNCHANGED <<connections, current_seqn, acknowledged_seqn, link>> /\ BeforeReplay' = BeforeReplay
    BY <1>1 DEF vars, counts, buffer, socket, BeforeReplay
  <2>2. connections = 0 => link = "down"
    BY DEF WireInv, Places
  <2>3. ASSUME connections = 0 \/ (connections = 1 /\ link = "up")
        PROVE  /\ \A k \in 1 .. Len(late') : late'[k].msg = 0
               /\ aligned' => dispatched' = [k \in 1 .. read' |-> k]
               /\ connections = 0 => read' = read
    <3>1. /\ \A k \in 1 .. Len(late) : late[k].msg = 0
          /\ aligned => dispatched = [k \in 1 .. read |-> k]
      BY <2>3 DEF WireInv, FirstConnection
    <3>2. CASE late # << >> /\ package = late[1] /\ late' = Tail(late) /\ UNCHANGED read
      <4>1. /\ Len(late) \in Nat \ {0} /\ Len(late') = Len(late) - 1
            /\ \A k \in 1 .. Len(late') : late'[k] = late[k + 1]
        BY <3>2, EmptySeq, HeadTailProperties, LenProperties DEF WireInv, PeerTypeOK
      <4>2. \A k \in 1 .. Len(late') : late'[k].msg = 0
        BY <3>1, <4>1
      <4>3. package.msg = 0
        BY <3>1, <3>2, <4>1
      <4>4. dispatched' = dispatched
        BY <1>2, <4>3 DEF ReadPackage, Dispatch
      <4> QED
        BY <1>5, <3>1, <3>2, <4>2, <4>4
    <3>3. CASE /\ late = << >> /\ link = "up" /\ read < Len(line)
               /\ package = line[read + 1] /\ read' = read + 1 /\ UNCHANGED late
      <4>1. connections = 1 /\ ~overtaken /\ current_seqn = 1
        BY <2>2, <2>3, <3>3 DEF WireInv, FirstConnection
      <4>2. read \in Nat /\ read + 1 \in 1 .. Len(line)
        BY <3>3, LenProperties DEF WireInv, PeerTypeOK, IInv, TypeOK
      <4>3. package.msg = read + 1
        <5>1. line[read + 1].msg = current_seqn + (read + 1) - 1
          BY <4>1, <4>2 DEF WireInv, LineInOrder
        <5> QED
          BY <3>3, <4>1, <4>2, <5>1
      <4>4. ASSUME aligned' PROVE dispatched' = [k \in 1 .. read' |-> k]
        <5>1. dispatched' = Append(dispatched, read + 1)
          BY <1>2, <1>5, <4>2, <4>3, <4>4 DEF ReadPackage, Dispatch
        <5>2. dispatched = [k \in 1 .. read |-> k] /\ dispatched \in Seq(Nat \ {0})
          BY <1>5, <3>1, <4>4 DEF WireInv, PeerTypeOK
        <5>3. Len(dispatched) = read
          BY <4>2, <5>2
        <5>4. /\ DOMAIN dispatched' = 1 .. read + 1 /\ dispatched' \in Seq(Nat \ {0})
              /\ Len(dispatched') = read + 1
              /\ \A k \in 1 .. read : dispatched'[k] = k
              /\ dispatched'[read + 1] = read + 1
          BY <4>2, <5>1, <5>2, <5>3, DispatchedGrows
        <5>5. dispatched' = [k \in 1 .. read + 1 |-> dispatched'[k]]
          BY <5>4, LenProperties
        <5>6. \A k \in 1 .. read + 1 : dispatched'[k] = k
          BY <4>2, <5>4
        <5> QED
          BY <3>3, <5>5, <5>6
      <4> QED
        BY <3>1, <3>3, <4>1, <4>4
    <3> QED
      BY <1>2, <3>2, <3>3
  <2>4. connections = 0 => read' = 0
    BY <2>3 DEF WireInv, FirstConnection
  <2> QED
    BY <1>1, <2>1, <2>3, <2>4 DEF WireInv, FirstConnection
<1> QED
  BY <1>3, <1>4, <1>7, <1>8, <1>9, <1>10 DEF WireInv

\* A new process begins with nothing; what its predecessor sent is message 0.
LEMMA RestartStep == WireInv /\ Restart => WireInv'
<1> SUFFICES ASSUME WireInv, Restart PROVE WireInv'
  OBVIOUS
<1> DEFINE T == [seqn : Nat, msg : Nat]
           reaches == IF link = "up" THEN Unread ELSE << >>
<1>1. /\ << >> \in Seq(Nat) /\ << >> \in Seq(T) /\ << >> \in Seq(Nat \ {0}) /\ Len(<< >>) = 0
      /\ << >> = [k \in 1 .. 0 |-> k]
  BY EmptySeq
<1>2. IInv'
  BY <1>1, BoundAssumption
  DEF Restart, IInv, TypeOK, Balanced, InOrder, Consecutive, NumbersSent, Highest, NeverCrashes,
      StateKinds, WorkerPlaces, WirePlaces, StopperPlaces
<1>3. Places'
  BY DEF Restart, Places, WorkerProcesses
<1>4. /\ late' \in Seq(T)
      /\ \A k \in 1 .. Len(late') : late'[k].msg = 0
  <2>1. PICK n \in 0 .. Len(reaches) :
          late' = [k \in 1 .. Len(late) + n |-> [(late \o reaches)[k] EXCEPT !.msg = 0]]
    BY DEF Restart
  <2>2. late \in Seq(T) /\ line \in Seq(T) /\ read \in 0 .. Len(line)
    BY DEF WireInv, PeerTypeOK, IInv, TypeOK
  <2>3. reaches \in Seq(T)
    <3> HIDE DEF T
    <3>1. Len(line) \in Nat /\ \A k \in 1 .. Len(line) : line[k] \in T
      BY <2>2, LenProperties, ElementOfSeq
    <3>4. \A k \in read + 1 .. Len(line) : line[k] \in T
      BY <2>2, <3>1
    <3>2. Unread \in Seq(T)
      BY <2>2, <3>1, <3>4, SubSeqProperties, read + 1 \in Int, Len(line) \in Int DEF Unread
    <3> QED
      BY <1>1, <3>2
  <2> HIDE DEF reaches
  <2>4. /\ late \o reaches \in Seq(T) /\ Len(late \o reaches) = Len(late) + Len(reaches)
        /\ Len(late) \in Nat /\ Len(reaches) \in Nat /\ n \in Nat /\ n <= Len(reaches)
    BY <2>1, <2>2, <2>3, ConcatProperties, LenProperties
  <2>5. ASSUME NEW k \in 1 .. Len(late) + n PROVE (late \o reaches)[k] \in T
    <3>1. k \in 1 .. Len(late \o reaches)
      BY <2>4
    <3> QED
      BY <2>4, <3>1, ElementOfSeq
  <2>6. ASSUME NEW k \in 1 .. Len(late) + n
        PROVE  late'[k] \in T /\ late'[k].msg = 0
    BY <2>1, <2>5
  <2>7. Len(late) + n \in Nat /\ DOMAIN late' = 1 .. Len(late) + n
    BY <2>1, <2>4
  <2>8. late' \in [1 .. Len(late) + n -> T]
    BY <2>1, <2>5
  <2>9. late' \in Seq(T) /\ Len(late') = Len(late) + n
    <3> HIDE DEF T
    <3> QED
      BY <2>7, <2>8, SeqDef
  <2> QED
    BY <2>6, <2>9
<1>5. PeerTypeOK'
  <2>1. read' \in 0 .. Len(line') /\ acked' \in 0 .. read' /\ max_received_seqn' \in Nat
    BY <1>1 DEF Restart, WireInv, PeerTypeOK
  <2>2. dispatched' \in Seq(Nat \ {0})
    BY <1>1 DEF Restart
  <2>3. aligned' \in BOOLEAN /\ overtaken' \in BOOLEAN /\ restarted' \in BOOLEAN
    BY ZenonT(20) DEF Restart, WireInv, PeerTypeOK
  <2> QED
    BY <1>4, <2>1, <2>2, <2>3 DEF PeerTypeOK
<1>6. FirstConnection'
  BY <1>1, <1>4 DEF Restart, FirstConnection, BeforeReplay
<1>7. NoGap'
  BY <1>1 DEF Restart, NoGap
<1>8. LineInOrder' /\ AcksCounted'
  BY <1>1 DEF Restart, LineInOrder, AcksCounted, BeforeReplay, Highest
<1>9. Latest' = 0 /\ LastLate' = 0
  <2>1. Latest' = 0
    BY DEF Restart, Latest
  <2>2. late' # << >> => Len(late') \in 1 .. Len(late')
    BY <1>4, EmptySeq, LenProperties
  <2> QED
    BY <1>4, <2>1, <2>2 DEF LastLate
<1>10. LateInOrder'
  <2>1. link' = "down" /\ dispatched' = << >>
    BY DEF Restart
  <2>2. ASSUME NEW k \in 1 .. Len(late')
        PROVE  late'[k].msg <= (IF k = 1 THEN Latest' ELSE late'[k - 1].msg) + 1
    <3>1. k # 1 => k - 1 \in 1 .. Len(late')
      BY <1>4, LenProperties
    <3>2. late'[k].msg = 0 /\ (k # 1 => late'[k - 1].msg = 0)
      BY <1>4, <3>1
    <3> QED
      BY <1>9, <3>2
  <2>3. \A k \in 1 .. Len(late') : \A j \in 1 .. k : late'[j].msg = 0
    BY <1>4, LenProperties
  <2> QED
    BY <1>4, <2>1, <2>2, <2>3 DEF LateInOrder
<1>11. PeerFollows'
  <2>1. Received' = 0
    BY DEF Restart, Received, BeforeReplay
  <2> QED
    BY <1>9, <2>1 DEF PeerFollows, Restart
<1> QED
  BY <1>2, <1>3, <1>5, <1>6, <1>7, <1>8, <1>10, <1>11 DEF WireInv

LEMMA WireStutters == WireInv /\ UNCHANGED wireVars => WireInv'
<1> SUFFICES ASSUME WireInv, UNCHANGED wireVars PROVE WireInv'
  OBVIOUS
<1> USE DEF wireVars, peer, history, vars, buffer, socket, counts
<1>1. IInv' /\ Places'
  BY DEF WireInv, IInv, TypeOK, Balanced, InOrder, Consecutive, NumbersSent, Highest, NeverCrashes,
         Places, WorkerProcesses
<1>2. PeerTypeOK' /\ NoGap' /\ FirstConnection'
  BY DEF WireInv, PeerTypeOK, NoGap, FirstConnection, BeforeReplay
<1>3. ~overtaken' => LineInOrder' /\ AcksCounted'
  BY DEF WireInv, LineInOrder, AcksCounted, BeforeReplay, Highest
<1>4. Latest' = Latest /\ LastLate' = LastLate /\ Received' = Received
  BY DEF Latest, LastLate, Received, BeforeReplay
<1>5. ~overtaken' /\ aligned' => LateInOrder' /\ PeerFollows'
  BY <1>4 DEF WireInv, LateInOrder, PeerFollows
<1> QED
  BY <1>1, <1>2, <1>3, <1>5 DEF WireInv

\* The argument of the theorems below.
THEOREM WireInductive == WireSpec => []WireInv
<1>1. WireInv /\ [WireNext]_wireVars => WireInv'
  BY SendStep, ReceiveStep, RestartStep, WireStutters DEF WireNext
<1> QED
  BY <1>1, InitWireInv, PTL DEF WireSpec

\* SocketWire.cpp:307-367.  As long as the worker does not send ahead of reprocess,
\* the broker gets the messages in the order of the puts and without a gap, or again
\* from the first one.
THEOREM InOrderWithoutGap == WireSpec => []NoGap
<1>1. WireInv => NoGap
  BY DEF WireInv
<1> QED
  BY <1>1, WireInductive, PTL

\* ByteBufferAsyncProcessor.cpp:91-95.  Nothing is forgotten that the peer has not
\* dispatched, whatever connections are lost and whichever process is replaced.
THEOREM NothingForgotten == WireSpec => []ForgottenIsDispatched
<1>1. WireInv => ForgottenIsDispatched
  <2> SUFFICES ASSUME WireInv, ~overtaken, aligned
               PROVE  1 .. current_seqn - 1 \subseteq ToSet(dispatched)
    BY DEF ForgottenIsDispatched
  <2>1. /\ current_seqn \in Nat /\ acknowledged_seqn \in Nat /\ read \in Nat
        /\ AcksCounted /\ 1 .. Received \subseteq ToSet(dispatched)
    BY LenProperties DEF WireInv, IInv, TypeOK, PeerTypeOK, PeerFollows
  <2>2. current_seqn - 1 <= Received /\ Received \in Int
    BY <2>1 DEF AcksCounted, Received
  <2>3. 1 .. current_seqn - 1 \subseteq 1 .. Received
    BY <2>1, <2>2
  <2> QED
    BY <2>1, <2>3
<1> QED
  BY <1>1, WireInductive, PTL

\* SocketWire.cpp:324.  On its first connection a process's packages are dispatched
\* as they are read, once and in order, and the peer stays in step.
THEOREM FirstConnectionExact == WireSpec => FirstConnectionIsExact
<1> DEFINE Exact == connections = 1 /\ aligned /\ read' > read
                       => aligned' /\ dispatched' = [k \in 1 .. read' |-> k]
<1>1. WireInv /\ WireInv' /\ [WireNext]_wireVars => [Exact]_wireVars
  <2> SUFFICES ASSUME WireInv, WireInv', WireNext, connections = 1, aligned, read' > read
               PROVE  aligned' /\ dispatched' = [k \in 1 .. read' |-> k]
    OBVIOUS
  <2>1. read \in Nat /\ ~overtaken /\ current_seqn = 1
    BY LenProperties DEF WireInv, PeerTypeOK, FirstConnection, IInv, TypeOK
  <2>2. Receive /\ late = << >> /\ link = "up" /\ read < Len(line)
        /\ ReadPackage(line[read + 1]) /\ UNCHANGED vars
    <3>1. Sends(Next) \/ Restart => read' \in {read, 0}
      BY DEF Sends, PeerSees, Restart
    <3>2. ~(read' \in {read, 0})
      BY <2>1
    <3>3. Receive
      BY <3>1, <3>2 DEF WireNext
    <3> QED
      BY <2>1, <3>3 DEF Receive
  <2>3. connections' = 1 /\ link' = "up"
    BY <2>2 DEF vars, counts, socket
  <2>4. read + 1 \in 1 .. Len(line) /\ line[read + 1].msg = read + 1
        /\ line[read + 1].seqn = read + 1
    <3>1. read + 1 \in 1 .. Len(line)
      BY <2>1, <2>2, LenProperties DEF WireInv, IInv, TypeOK
    <3>2. line[read + 1].msg = current_seqn + (read + 1) - 1
          /\ line[read + 1].seqn = line[read + 1].msg
      BY <2>1, <3>1 DEF WireInv, LineInOrder, IInv, NumbersSent
    <3> QED
      BY <2>1, <3>1, <3>2
  <2>5. ~IsDuplicate(read + 1)
    <3>1. CASE read = 0
      BY <3>1 DEF IsDuplicate
    <3>2. CASE read # 0
      <4>1. dispatched = [k \in 1 .. read |-> k] /\ Len(dispatched) = read /\ dispatched # << >>
        BY <2>1, <2>2, <3>2, EmptySeq DEF WireInv, FirstConnection
      <4>2. max_received_seqn = read
        BY <2>1, <3>2, <4>1 DEF WireInv, PeerFollows, Latest
      <4> QED
        BY <2>1, <4>2 DEF IsDuplicate
    <3> QED
      BY <3>1, <3>2
  <2>6. aligned'
    BY <2>2, <2>4, <2>5 DEF ReadPackage
  <2> QED
    BY <2>3, <2>6 DEF WireInv, FirstConnection
<1> QED
  BY <1>1, WireInductive, PTL DEF WireSpec, FirstConnectionIsExact
=============================================================================

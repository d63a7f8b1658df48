---------------------------- MODULE FGPawnProofs -----------------------------
(****************************************************************************)
(* Theorems about the pawn, for every set of assets, every stick range,     *)
(* threshold, expiration time and tick length.                              *)
(****************************************************************************)
EXTENDS FGPawnBuffer, SequenceTheorems, FiniteSetTheorems, TLAPS

-----------------------------------------------------------------------------
(* Lemmas about the sequences of the buffer.                                *)

\* RemoveAt(0, n) within the array keeps the elements behind the first n.
LEMMA RemoveFirstProperties ==
    ASSUME NEW S, NEW s \in Seq(S), NEW n \in Nat, n <= Len(s)
    PROVE  /\ RemoveFirst(s, n) \in Seq(S)
           /\ Len(RemoveFirst(s, n)) = Len(s) - n
           /\ \A i \in 1 .. Len(s) - n : RemoveFirst(s, n)[i] = s[i + n]
<1>1. Len(s) \in Nat /\ \A i \in n + 1 .. Len(s) : s[i] \in S
  BY LenProperties, ElementOfSeq
<1>2. /\ SubSeq(s, n + 1, Len(s)) \in Seq(S)
      /\ Len(SubSeq(s, n + 1, Len(s))) =
           IF n + 1 <= Len(s) THEN Len(s) - (n + 1) + 1 ELSE 0
      /\ \A i \in 1 .. Len(s) - (n + 1) + 1 :
           SubSeq(s, n + 1, Len(s))[i] = s[n + 1 + i - 1]
  BY <1>1, SubSeqProperties, n + 1 \in Int, Len(s) \in Int
<1> QED
  BY <1>1, <1>2 DEF RemoveFirst

\* Time passing changes no age's place in the buffer.
LEMMA AgedProperties ==
    ASSUME InputAges \in Seq(Nat), NEW delta \in Nat
    PROVE  /\ Aged(delta) \in Seq(Nat)
           /\ Len(Aged(delta)) = Len(InputAges)
           /\ \A i \in 1 .. Len(InputAges) : Aged(delta)[i] = InputAges[i] + delta
<1> DEFINE n == Len(InputAges)
<1>1. /\ n \in Nat
      /\ DOMAIN InputAges = 1 .. n
      /\ \A i \in 1 .. n : InputAges[i] \in Nat
  BY LenProperties, ElementOfSeq
<1>2. Aged(delta) \in [1 .. n -> Nat]
  BY <1>1 DEF Aged
<1>3. Aged(delta) \in Seq(Nat)
  BY <1>1, <1>2, SeqDef
<1> QED
  BY <1>1, <1>2, <1>3 DEF Aged

\* One frame more, of three atoms.
LEMMA FrameProperties ==
    ASSUME InputStream \in Seq(Atoms)
    PROVE  LET frame == <<StickAtom, ButtonAtom("LeftFace"), ButtonAtom("TopFace")>>
               longer == InputStream \o frame
           IN  /\ longer \in Seq(Atoms)
               /\ Len(longer) = Len(InputStream) + 3
               /\ \A i \in 1 .. Len(InputStream) : longer[i] = InputStream[i]
               /\ longer[Len(InputStream) + 1] = StickAtom
               /\ longer[Len(InputStream) + 2] = ButtonAtom("LeftFace")
               /\ longer[Len(InputStream) + 3] = ButtonAtom("TopFace")
<1> DEFINE frame == <<StickAtom, ButtonAtom("LeftFace"), ButtonAtom("TopFace")>>
<1>1. StickAtom \in Atoms
  BY DEF StickAtom, Zone, Zones, Atoms, DirectionAtoms
<1>2. ButtonAtom("LeftFace") \in Atoms /\ ButtonAtom("TopFace") \in Atoms
  BY DEF ButtonAtom, Atoms, ButtonAtoms
<1>3. frame \in Seq(Atoms) /\ Len(frame) = 3
  BY <1>1, <1>2
<1>4. Len(InputStream) \in Nat
  BY LenProperties
<1> QED
  BY <1>3, <1>4, ConcatProperties

-----------------------------------------------------------------------------
(* Type correctness.                                                        *)

\* TypeOK is not inductive alone: entering a move needs to know that the link
\* followed is there and has a destination.
TypeInv == TypeOK /\ RunsOpenLink

LEMMA LinkedMovesType ==
    ASSUME TypeOK
    PROVE  /\ LinkedMoves \in Seq(Links \cup {NULL})
           /\ Len(LinkedMoves) \in Nat
           /\ \A i \in 1 .. Len(LinkedMoves) : LinkedMoves[i] \in Links \cup {NULL}
<1>1. LinkedMoves \in Seq(Links \cup {NULL})
  BY ContentAssumption DEF TypeOK, IsMove, LinkedMoves
<1> QED
  BY <1>1, LenProperties, ElementOfSeq

\* A link whose machine runs leads to a move.
LEMMA FollowedType ==
    ASSUME TypeInv, pc = "run"
    PROVE  Followed.Move \in Moves
<1>1. LinkedMoves[link] \in Links
  BY LinkedMovesType DEF TypeInv, TypeOK, RunsOpenLink
<1>2. LinkAsset[LinkedMoves[link]].Move \in Moves \cup {NULL}
  BY <1>1, ContentAssumption DEF IsLink
<1> QED
  BY <1>2 DEF TypeInv, RunsOpenLink, IsOpen, Followed

LEMMA CrashType ==
    ASSUME TypeInv, Crash
    PROVE  TypeInv'
BY DEF TypeInv, TypeOK, RunsOpenLink, Crash, inputVars, bufferVars, moveVars, runVars

LEMMA EndTickType ==
    ASSUME TypeInv, NEW m \in Moves, NEW t \in 0 .. TimeCap, EndTick(m, t),
           InputStream' \in Seq(Atoms), InputAges' \in Seq(Nat)
    PROVE  TypeInv'
BY DEF TypeInv, TypeOK, RunsOpenLink, EndTick, inputVars, SM!Completions, SM!EditableCompletions

LEMMA NextLinkType ==
    ASSUME TypeInv, NextLink
    PROVE  TypeInv'
BY DEF TypeInv, TypeOK, RunsOpenLink, NextLink, inputVars, bufferVars, moveVars,
       SM!Completions, SM!EditableCompletions

LEMMA CallbackType ==
    ASSUME TypeInv, Callback
    PROVE  TypeInv'
<1> USE DEF TypeInv, TypeOK, RunsOpenLink, bufferVars, moveVars, runVars
<1>1. ASSUME NEW b \in EFGInputButtons, ButtonPressed(b) PROVE TypeInv'
  BY <1>1 DEF ButtonPressed
<1>2. ASSUME NEW b \in EFGInputButtons, ButtonReleased(b) PROVE TypeInv'
  BY <1>2 DEF ButtonReleased
<1>3. ASSUME NEW x \in XValues, ReadXAxis(x) PROVE TypeInv'
  BY <1>3 DEF ReadXAxis
<1>4. ASSUME NEW y \in YValues, ReadYAxis(y) PROVE TypeInv'
  BY <1>4 DEF ReadYAxis
<1> QED
  BY <1>1, <1>2, <1>3, <1>4 DEF Callback

LEMMA SampleType ==
    ASSUME TypeInv, NEW delta \in Deltas, Sample(delta)
    PROVE  TypeInv'
<1>1. delta \in Nat
  BY NumberAssumption
<1>2. InputStream' \in Seq(Atoms)
  BY FrameProperties DEF TypeInv, TypeOK, Sample
<1>3. InputAges' \in Seq(Nat)
  BY <1>1, AgedProperties, AppendProperties DEF TypeInv, TypeOK, Sample
<1> QED
  BY <1>2, <1>3 DEF TypeInv, TypeOK, RunsOpenLink, Sample, moveVars, runVars

\* How many frames are pruned: never more than there are.
LEMMA PruneCount ==
    ASSUME TypeOK, NEW i \in 0 .. Len(InputAges) - 1
    PROVE  /\ Len(InputAges) \in Nat /\ Len(InputStream) \in Nat
           /\ Expired(i) \in Nat /\ Expired(i) <= i /\ Expired(i) < Len(InputAges)
           /\ FrameLen * Expired(i) \in Nat
<1>1. Len(InputAges) \in Nat /\ Len(InputStream) \in Nat
  BY LenProperties DEF TypeOK
<1> QED
  BY <1>1 DEF Expired, FrameLen

LEMMA PruneType ==
    ASSUME TypeInv, Prune
    PROVE  TypeInv'
<1>1. PICK i \in 0 .. Len(InputAges) - 1 :
        IF FrameLen * Expired(i) > Len(InputStream) THEN Crash
        ELSE /\ InputAges' = RemoveFirst(InputAges, Expired(i))
             /\ InputStream' = RemoveFirst(InputStream, FrameLen * Expired(i))
             /\ pc' = "links"
             /\ link' = 1
             /\ UNCHANGED <<inputVars, moveVars, DeltaSeconds, runVars>>
  BY DEF Prune
<1>2. CASE Crash
  BY <1>2, CrashType
<1>3. CASE ~Crash
  <2>1. ~(FrameLen * Expired(i) > Len(InputStream))
    BY <1>1, <1>3
  <2>2. /\ InputAges' = RemoveFirst(InputAges, Expired(i))
        /\ InputStream' = RemoveFirst(InputStream, FrameLen * Expired(i))
        /\ pc' = "links"
        /\ link' = 1
        /\ UNCHANGED <<inputVars, moveVars, DeltaSeconds, runVars>>
    BY <1>1, <2>1
  <2>3. InputAges' \in Seq(Nat)
    BY <2>2, PruneCount, RemoveFirstProperties DEF TypeInv, TypeOK
  <2>4. InputStream' \in Seq(Atoms)
    BY <2>1, <2>2, PruneCount, RemoveFirstProperties DEF TypeInv, TypeOK
  <2> QED
    BY <2>2, <2>3, <2>4
    DEF TypeInv, TypeOK, RunsOpenLink, inputVars, moveVars, runVars
<1> QED
  BY <1>2, <1>3

LEMMA TryLinkType ==
    ASSUME TypeInv, TryLink
    PROVE  TypeInv'
<1> DEFINE l == LinkedMoves[link]
<1>1. link \in 1 .. Len(LinkedMoves) /\ l \in Links \cup {NULL}
  BY LinkedMovesType DEF TypeInv, TypeOK, TryLink
<1>2. CASE ~Dereferenced(l)
  BY <1>2, CrashType DEF TryLink
<1>3. CASE Dereferenced(l) /\ ~IsOpen(l)
  BY <1>3, NextLinkType DEF TryLink
<1>4. CASE Dereferenced(l) /\ IsOpen(l)
  <2>1. l \in Links /\ l # NULL
    BY <1>1, <1>4 DEF Dereferenced
  <2>2. LinkAsset[l].InputStateMachine \in SM!States
    BY <1>4, <2>1, ContentAssumption DEF IsLink, IsOpen, SM!States
  <2>3. /\ SM!RunState(LinkAsset[l].InputStateMachine, 0, -1)
        /\ pc' = "run"
        /\ UNCHANGED <<inputVars, bufferVars, moveVars, DeltaSeconds, link>>
    BY <1>4 DEF TryLink
  <2>4. LinkAsset[l].InputStateMachine # NULL
    BY <1>4 DEF IsOpen
  <2>5. TypeOK'
    BY <2>2, <2>3 DEF TypeInv, TypeOK, SM!RunState, inputVars, bufferVars, moveVars
  <2>6. IsOpen(l)' /\ LinkedMoves' = LinkedMoves
    BY <1>4, <2>3 DEF IsOpen, InWindow, LinkedMoves, moveVars
  <2>7. RunsOpenLink'
    BY <1>1, <2>1, <2>3, <2>4, <2>6 DEF RunsOpenLink, SM!RunState
  <2> QED
    BY <2>5, <2>7 DEF TypeInv
<1> QED
  BY <1>2, <1>3, <1>4

LEMMA RunStateType ==
    ASSUME TypeInv, RunState
    PROVE  TypeInv'
<1>1. SM!RunTypeOK
  BY DEF TypeInv, TypeOK, RunsOpenLink, RunState, SM!RunTypeOK
<1>2. SM!RunTypeOK'
  BY <1>1, ContentAssumption, SM!RunStepType DEF RunState
<1>3. InputStream' = InputStream
  BY DEF RunState, SM!RunStep, SM!EndNow, SM!RunOutOfSteps, SM!TakeTransition,
         SM!LoopState, SM!EndOnState
<1>4. TypeOK'
  BY <1>2, <1>3 DEF TypeInv, TypeOK, RunState, SM!RunTypeOK, inputVars, moveVars
<1>5. smState' # NULL
  BY <1>2, ContentAssumption DEF SM!RunTypeOK, SM!StateAssetOK
<1>6. RunsOpenLink'
  BY <1>5 DEF TypeInv, RunsOpenLink, RunState, IsOpen, InWindow, LinkedMoves, moveVars
<1> QED
  BY <1>4, <1>6 DEF TypeInv

LEMMA FollowType ==
    ASSUME TypeInv, FollowAndClear \/ FollowAndConsume
    PROVE  TypeInv'
<1>1. Followed.Move \in Moves /\ 0 \in 0 .. TimeCap
  BY FollowedType, NumberAssumption DEF FollowAndClear, FollowAndConsume, Accepted
<1>2. CASE FollowAndClear
  <2>1. InputStream' \in Seq(Atoms) /\ InputAges' \in Seq(Nat)
    BY <1>2 DEF FollowAndClear
  <2> QED
    BY <1>1, <1>2, <2>1, EndTickType DEF FollowAndClear
<1>3. CASE FollowAndConsume /\ ~CanConsume
  BY <1>3, CrashType DEF FollowAndConsume
<1>4. CASE FollowAndConsume /\ CanConsume
  <2>1. DataIndex \in Nat /\ DataIndex \div FrameLen \in Nat
    BY DEF TypeInv, TypeOK, FrameLen
  <2>2. InputStream' \in Seq(Atoms)
    BY <1>4, <2>1, RemoveFirstProperties
    DEF TypeInv, TypeOK, FollowAndConsume, CanConsume
  <2>3. InputAges' \in Seq(Nat)
    BY <1>4, <2>1, RemoveFirstProperties
    DEF TypeInv, TypeOK, FollowAndConsume, CanConsume
  <2> QED
    BY <1>1, <1>4, <2>2, <2>3, EndTickType DEF FollowAndConsume
<1> QED
  BY <1>2, <1>3, <1>4

LEMMA KeepMoveType ==
    ASSUME TypeInv, KeepMove
    PROVE  TypeInv'
<1>1. Capped(TimeInCurrentMove + DeltaSeconds) \in 0 .. TimeCap
  BY NumberAssumption DEF TypeInv, TypeOK, Capped
<1>2. CurrentMove \in Moves /\ InputStream' \in Seq(Atoms) /\ InputAges' \in Seq(Nat)
  BY DEF TypeInv, TypeOK, KeepMove, bufferVars
<1> QED
  BY <1>1, <1>2, EndTickType DEF KeepMove

LEMMA TypeStep ==
    ASSUME TypeInv, [Next]_vars
    PROVE  TypeInv'
<1>1. CASE Callback
  BY <1>1, CallbackType
<1>2. ASSUME NEW delta \in Deltas, Sample(delta) PROVE TypeInv'
  BY <1>2, SampleType
<1>3. CASE Prune
  BY <1>3, PruneType
<1>4. CASE TryLink
  BY <1>4, TryLinkType
<1>5. CASE RunState
  BY <1>5, RunStateType
<1>6. CASE LinkFails
  BY <1>6, NextLinkType DEF LinkFails
<1>7. CASE FollowAndClear \/ FollowAndConsume
  BY <1>7, FollowType
<1>8. CASE KeepMove
  BY <1>8, KeepMoveType
<1>9. CASE UNCHANGED vars
  BY <1>9 DEF TypeInv, TypeOK, RunsOpenLink, IsOpen, InWindow, LinkedMoves, vars,
              inputVars, bufferVars, moveVars, runVars
<1> QED
  BY <1>1, <1>2, <1>3, <1>4, <1>5, <1>6, <1>7, <1>8, <1>9 DEF Next, Tick

LEMMA TypeInvariant == Spec => []TypeInv
<1>1. Init => TypeInv
  BY ContentAssumption, NumberAssumption
  DEF Init, TypeInv, TypeOK, RunsOpenLink, SM!Completions, SM!EditableCompletions
<1> QED
  BY <1>1, TypeStep, PTL DEF Spec

\* The variables have their types in every reachable state, for any content.
THEOREM TypeCorrect == Spec => []TypeOK
BY TypeInvariant, PTL DEF TypeInv

\* Links are followed only inside one of their windows and lead to a move.
THEOREM OpenLinks == Spec => []RunsOpenLink
BY TypeInvariant, PTL DEF TypeInv

-----------------------------------------------------------------------------
(* InputStream and InputTimeStamps stay together.                           *)

\* The actions that leave both arrays alone.
LEMMA BufferUnchanged ==
    ASSUME \/ Callback \/ TryLink \/ RunState \/ LinkFails \/ KeepMove
           \/ Crash \/ UNCHANGED vars
    PROVE  UNCHANGED bufferVars
<1>1. CASE Callback
  BY <1>1 DEF Callback, ButtonPressed, ButtonReleased, ReadXAxis, ReadYAxis
<1>2. CASE TryLink
  BY <1>2 DEF TryLink, Crash, NextLink
<1>3. CASE RunState
  BY <1>3 DEF RunState, bufferVars, SM!RunStep, SM!EndNow, SM!RunOutOfSteps,
              SM!TakeTransition, SM!LoopState, SM!EndOnState
<1>4. CASE LinkFails
  BY <1>4 DEF LinkFails, NextLink
<1>5. CASE KeepMove
  BY <1>5 DEF KeepMove
<1>6. CASE Crash \/ UNCHANGED vars
  BY <1>6 DEF Crash, vars
<1> QED
  BY <1>1, <1>2, <1>3, <1>4, <1>5, <1>6

\* A frame is three atoms and one age.
LEMMA SampleGrows ==
    ASSUME TypeOK, NEW delta \in Deltas, Sample(delta)
    PROVE  /\ Len(InputStream') = Len(InputStream) + 3
           /\ Len(InputAges') = Len(InputAges) + 1
           /\ Len(InputStream) \in Nat /\ Len(InputAges) \in Nat
<1>1. delta \in Nat
  BY NumberAssumption
<1>2. Len(InputStream') = Len(InputStream) + 3
  BY FrameProperties DEF TypeOK, Sample
<1>3. Aged(delta) \in Seq(Nat) /\ Len(Aged(delta)) = Len(InputAges)
  BY <1>1, AgedProperties DEF TypeOK
<1>4. Len(InputAges') = Len(InputAges) + 1
  BY <1>3, AppendProperties, 0 \in Nat DEF Sample
<1>5. Len(InputStream) \in Nat /\ Len(InputAges) \in Nat
  BY LenProperties DEF TypeOK
<1> QED
  BY <1>2, <1>4, <1>5

\* In lockstep the pruning loop stops inside both arrays and cuts both alike.
LEMMA PruneInLockstep ==
    ASSUME TypeOK, StreamsInLockstep, Prune
    PROVE  /\ pc' = "links"
           /\ \E k \in Nat :
                /\ IsFirstFresh(k)
                /\ k < Len(InputAges)
                /\ InputAges' = RemoveFirst(InputAges, k)
                /\ InputStream' = RemoveFirst(InputStream, FrameLen * k)
                /\ Len(InputAges') = Len(InputAges) - k
                /\ Len(InputStream') = Len(InputStream) - FrameLen * k
<1>1. PICK i \in 0 .. Len(InputAges) - 1 :
        /\ IsFirstFresh(i)
        /\ IF FrameLen * Expired(i) > Len(InputStream) THEN Crash
           ELSE /\ InputAges' = RemoveFirst(InputAges, Expired(i))
                /\ InputStream' = RemoveFirst(InputStream, FrameLen * Expired(i))
                /\ pc' = "links"
  BY DEF Prune
<1>2. /\ Len(InputAges) \in Nat /\ Len(InputStream) \in Nat
      /\ Len(InputStream) = 3 * Len(InputAges)
  BY LenProperties DEF TypeOK, StreamsInLockstep, Prune, FrameLen
<1>3. Expired(i) = i /\ FrameLen * i <= Len(InputStream) /\ FrameLen * i \in Nat
  BY <1>2 DEF Expired, FrameLen
<1>4. /\ InputAges' = RemoveFirst(InputAges, i)
      /\ InputStream' = RemoveFirst(InputStream, FrameLen * i)
      /\ pc' = "links"
  BY <1>1, <1>2, <1>3
<1>5. i \in Nat /\ i < Len(InputAges) /\ i <= Len(InputAges)
  BY <1>2
<1>6. Len(InputAges') = Len(InputAges) - i
  BY <1>4, <1>5, RemoveFirstProperties DEF TypeOK
<1>7. Len(InputStream') = Len(InputStream) - FrameLen * i
  BY <1>3, <1>4, RemoveFirstProperties DEF TypeOK
<1> QED
  BY <1>1, <1>4, <1>5, <1>6, <1>7

\* Consuming removes whole frames if the accepted index is at a frame's start.
LEMMA ConsumeInLockstep ==
    ASSUME TypeOK, StreamsInLockstep, FollowAndConsume, CanConsume,
           DataIndex % 3 = 0
    PROVE  \E k \in Nat :
              /\ k <= Len(InputAges)
              /\ InputAges' = RemoveFirst(InputAges, k)
              /\ InputStream' = RemoveFirst(InputStream, FrameLen * k)
              /\ Len(InputAges') = Len(InputAges) - k
              /\ Len(InputStream') = Len(InputStream) - FrameLen * k
<1> DEFINE k == DataIndex \div FrameLen
<1>1. /\ Len(InputAges) \in Nat /\ Len(InputStream) \in Nat /\ DataIndex \in Nat
      /\ Len(InputStream) = 3 * Len(InputAges)
  BY LenProperties DEF TypeOK, StreamsInLockstep, FollowAndConsume, Accepted, FrameLen
<1>2. k \in Nat /\ DataIndex = FrameLen * k
  BY <1>1 DEF FrameLen
<1>3. /\ InputAges' = RemoveFirst(InputAges, k)
      /\ InputStream' = RemoveFirst(InputStream, DataIndex)
  BY DEF FollowAndConsume
<1>4. k <= Len(InputAges) /\ DataIndex <= Len(InputStream)
  BY DEF CanConsume
<1> HIDE DEF k
<1>5. Len(InputAges') = Len(InputAges) - k
  BY <1>2, <1>3, <1>4, RemoveFirstProperties DEF TypeOK
<1>6. Len(InputStream') = Len(InputStream) - DataIndex
  BY <1>1, <1>3, <1>4, RemoveFirstProperties DEF TypeOK
<1> QED
  BY <1>2, <1>3, <1>4, <1>5, <1>6

\* One step keeps the arrays in lockstep, provided a run that is accepted in a
\* build without checks was accepted at the start of a frame.
LEMMA LockstepStep ==
    ASSUME TypeOK, StreamsInLockstep, [Next]_vars,
           Accepted /\ Shipping => DataIndex % 3 = 0
    PROVE  StreamsInLockstep'
<1>1. CASE UNCHANGED bufferVars /\ (pc = "crashed" => pc' = "crashed")
  BY <1>1 DEF StreamsInLockstep, bufferVars
<1>2. pc = "crashed" => pc' = "crashed"
  BY DEF Next, Callback, Tick, ButtonPressed, ButtonReleased, ReadXAxis, ReadYAxis,
         Sample, Prune, TryLink, RunState, LinkFails, FollowAndClear,
         FollowAndConsume, Accepted, KeepMove, vars
<1>3. CASE Callback \/ TryLink \/ RunState \/ LinkFails \/ KeepMove \/ UNCHANGED vars
  BY <1>1, <1>2, <1>3, BufferUnchanged
<1>4. ASSUME NEW delta \in Deltas, Sample(delta) PROVE StreamsInLockstep'
  BY <1>4, SampleGrows DEF StreamsInLockstep, Sample, FrameLen
<1>5. CASE Prune
  <2>1. Len(InputAges) \in Nat /\ Len(InputStream) = 3 * Len(InputAges)
    BY <1>5, LenProperties DEF TypeOK, StreamsInLockstep, Prune, FrameLen
  <2> QED
    BY <1>5, <2>1, PruneInLockstep DEF StreamsInLockstep, FrameLen
<1>6. CASE FollowAndClear
  BY <1>6 DEF FollowAndClear, StreamsInLockstep, FrameLen
<1>7. CASE FollowAndConsume
  <2>1. CASE ~CanConsume
    BY <1>7, <2>1 DEF FollowAndConsume, Crash, StreamsInLockstep
  <2>2. CASE CanConsume
    <3>1. DataIndex % 3 = 0
      BY <1>7, <2>2 DEF FollowAndConsume, CanConsume, FrameLen
    <3>2. Len(InputAges) \in Nat /\ Len(InputStream) = 3 * Len(InputAges)
      BY <1>7, LenProperties
      DEF TypeOK, StreamsInLockstep, FollowAndConsume, Accepted, FrameLen
    <3>3. PICK k \in Nat : /\ Len(InputAges') = Len(InputAges) - k
                           /\ Len(InputStream') = Len(InputStream) - FrameLen * k
      BY <1>7, <2>2, <3>1, ConsumeInLockstep
    <3> QED
      BY <3>2, <3>3 DEF StreamsInLockstep, FrameLen
  <2> QED
    BY <2>1, <2>2
<1> QED
  BY <1>3, <1>4, <1>5, <1>6, <1>7 DEF Next, Tick

\* FGDefaultPawn.h:84 holds for every content in a build with checks: the
\* arrays never get out of step, because the check of FGDefaultPawn.cpp:189
\* stops the pawn before it consumes part of a frame.
THEOREM Lockstep ==
    ASSUME ~Shipping
    PROVE  Spec => []StreamsInLockstep
<1>1. Init => StreamsInLockstep
  BY DEF Init, StreamsInLockstep, FrameLen
<1>2. TypeOK /\ StreamsInLockstep /\ [Next]_vars => StreamsInLockstep'
  BY LockstepStep
<1> QED
  BY <1>1, <1>2, TypeCorrect, PTL DEF Spec

-----------------------------------------------------------------------------
(* Aligned content.                                                         *)

\* While a machine runs, the index is where its state belongs in a frame and at
\* most two past the end; an accepting result comes from an accepting state.
InPhase(Phase) ==
    pc = "run" =>
        /\ DataIndex % 3 = Phase[smState]
        /\ DataIndex <= Len(InputStream) + 2
        /\ CompletionType = "Accepted" =>
              StateAsset[smState].CompletionType = "Accepted"

\* A call of RunState keeps an aligned machine in phase.
LEMMA RunInPhase ==
    ASSUME NEW Phase, AlignedBy(Phase), TypeInv, InPhase(Phase), RunState
    PROVE  InPhase(Phase)'
<1>1. SM!RunTypeOK /\ SM!StateAssetOK /\ pc = "run" /\ smState \in SM!States
  BY ContentAssumption
  DEF TypeInv, TypeOK, RunsOpenLink, RunState, SM!RunTypeOK
<1>2. SM!RunStep /\ InputStream' = InputStream /\ Len(InputStream) \in Nat
  BY BufferUnchanged, LenProperties DEF RunState, bufferVars, TypeInv, TypeOK
<1>3. DataIndex \in Nat /\ DataIndex % 3 = Phase[smState] /\ Phase[smState] \in 0 .. 2
  BY <1>1 DEF InPhase, AlignedBy, SM!RunTypeOK
<1>4. CASE SM!IsValidIndex(DataIndex) /\ SM!Follows(smState)
             /\ CompletionType' = SM!RUNNING
  <2>1. PICK i \in DOMAIN SM!Transitions(smState) :
          /\ SM!Transitions(smState)[i] # NULL
          /\ SM!Transitions(smState)[i].class = "SM_Transition"
          /\ SM!Transitions(smState)[i].DestinationState \in SM!States
          /\ smState' = SM!Transitions(smState)[i].DestinationState
    BY <1>4 DEF SM!Follows
  <2>2. SM!Transitions(smState)[i].DestinationState # NULL
    BY <1>1, <2>1 DEF SM!StateAssetOK
  <2>3. Phase[smState'] = (Phase[smState] + 1) % 3
    BY <1>1, <2>1, <2>2 DEF AlignedBy
  <2>4. DataIndex' = DataIndex + 1 /\ DataIndex < Len(InputStream)
    BY <1>2, <1>4 DEF SM!Follows, SM!IsValidIndex
  <2>5. DataIndex' % 3 = Phase[smState']
    BY <1>3, <2>3, <2>4
  <2> QED
    BY <1>2, <1>4, <1>3, <2>4, <2>5 DEF InPhase, SM!RUNNING
<1>5. CASE SM!IsValidIndex(DataIndex) /\ SM!Loops(smState)
             /\ CompletionType' = SM!RUNNING
  <2>1. StateAsset[smState].class = "FGState"
    <3>1. StateAsset[smState].class \in {"SM_State", "FGState"}
      BY <1>1 DEF SM!StateAssetOK, SM!IsState
    <3> QED
      BY <1>1, <1>5, <3>1 DEF AlignedBy, SM!Loops
  <2>2. DataIndex' = DataIndex + 3 /\ smState' = smState /\ DataIndex < Len(InputStream)
    BY <1>2, <1>5, <2>1 DEF SM!Loops, SM!LoopStride, SM!IsValidIndex
  <2>3. DataIndex' % 3 = Phase[smState]
    BY <1>3, <2>2
  <2> QED
    BY <1>2, <1>3, <1>5, <2>2, <2>3 DEF InPhase, SM!RUNNING
<1>6. CASE UNCHANGED <<smState, DataIndex, RemainingSteps>>
             /\ \/ CompletionType' = StateAsset[smState].CompletionType
                \/ CompletionType' = "OutOfSteps"
  BY <1>1, <1>2, <1>6 DEF InPhase
<1> QED
  BY <1>1, <1>2, <1>4, <1>5, <1>6, SM!StepOfRun

\* A machine starts at the beginning of the buffer, in phase.
LEMMA StartInPhase ==
    ASSUME NEW Phase, AlignedBy(Phase), TypeInv, TryLink
    PROVE  InPhase(Phase)'
<1> DEFINE l == LinkedMoves[link]
<1>1. CASE pc' # "run"
  BY <1>1 DEF InPhase
<1>2. CASE pc' = "run"
  <2>1. Dereferenced(l) /\ IsOpen(l)
    BY <1>2 DEF TryLink, Crash, NextLink
  <2>2. SM!RunState(LinkAsset[l].InputStateMachine, 0, -1)
        /\ UNCHANGED InputStream
    BY <2>1 DEF TryLink, bufferVars
  <2>3. l \in Links
    BY <2>1, LinkedMovesType DEF TypeInv, TypeOK, TryLink, Dereferenced
  <2>4. Phase[LinkAsset[l].InputStateMachine] = 0
    BY <2>1, <2>3 DEF AlignedBy, IsOpen
  <2>5. Len(InputStream) \in Nat
    BY LenProperties DEF TypeInv, TypeOK
  <2>6. smState' = LinkAsset[l].InputStateMachine /\ DataIndex' = 0
        /\ CompletionType' = "Running" /\ InputStream' = InputStream
    BY <2>2 DEF SM!RunState, SM!RUNNING
  <2> QED
    BY <2>4, <2>5, <2>6 DEF InPhase
<1> QED
  BY <1>1, <1>2

LEMMA PhaseStep ==
    ASSUME NEW Phase, AlignedBy(Phase), TypeInv, InPhase(Phase), [Next]_vars
    PROVE  InPhase(Phase)'
<1>1. CASE RunState
  BY <1>1, RunInPhase
<1>2. CASE TryLink
  BY <1>2, StartInPhase
<1>3. CASE UNCHANGED vars
  BY <1>3 DEF InPhase, vars, runVars, bufferVars
<1>4. CASE Callback
  BY <1>4 DEF InPhase, Callback, ButtonPressed, ButtonReleased, ReadXAxis, ReadYAxis
<1>5. CASE (\E delta \in Deltas : Sample(delta)) \/ Prune
  BY <1>5 DEF InPhase, Sample, Prune, Crash
<1>6. CASE LinkFails \/ FollowAndClear \/ FollowAndConsume \/ KeepMove
  BY <1>6 DEF InPhase, LinkFails, NextLink, FollowAndClear, FollowAndConsume,
              KeepMove, EndTick, Crash
<1> QED
  BY <1>1, <1>2, <1>3, <1>4, <1>5, <1>6 DEF Next, Tick

\* In phase, an accepted run ends at a frame's start inside the buffer.
LEMMA AcceptedInPhase ==
    ASSUME NEW Phase, AlignedBy(Phase), TypeInv, StreamsInLockstep,
           InPhase(Phase), Accepted
    PROVE  DataIndex % 3 = 0 /\ CanConsume
<1>1. smState \in SM!States /\ StateAsset[smState].CompletionType = "Accepted"
  BY DEF TypeInv, TypeOK, RunsOpenLink, InPhase, Accepted
<1>2. DataIndex % 3 = 0
  BY <1>1 DEF AlignedBy, InPhase, Accepted
<1>3. /\ DataIndex \in Nat /\ Len(InputAges) \in Nat
      /\ Len(InputStream) = 3 * Len(InputAges)
      /\ DataIndex <= Len(InputStream) + 2
  BY LenProperties DEF TypeInv, TypeOK, StreamsInLockstep, InPhase, Accepted, FrameLen
<1>4. DataIndex <= Len(InputStream) /\ DataIndex \div 3 <= Len(InputAges)
  BY <1>2, <1>3
<1> QED
  BY <1>2, <1>4 DEF CanConsume, FrameLen

LEMMA CrashStep ==
    ASSUME NEW Phase, AlignedBy(Phase), LinksComplete, TypeInv, StreamsInLockstep,
           InPhase(Phase), NeverCrashes, [Next]_vars
    PROVE  NeverCrashes'
<1>1. CASE Prune
  BY <1>1, PruneInLockstep DEF TypeInv, NeverCrashes
<1>2. CASE TryLink
  <2>1. link \in DOMAIN LinkedMoves /\ CurrentMove \in Moves
    BY <1>2, LinkedMovesType, LenProperties DEF TypeInv, TypeOK, TryLink
  <2>2. Dereferenced(LinkedMoves[link])
    BY <2>1 DEF LinksComplete, Dereferenced, LinkedMoves
  <2> QED
    BY <1>2, <2>2 DEF TryLink, NextLink, NeverCrashes
<1>3. CASE FollowAndConsume
  <2>1. CanConsume
    BY <1>3, AcceptedInPhase DEF FollowAndConsume
  <2> QED
    BY <1>3, <2>1 DEF FollowAndConsume, EndTick, NeverCrashes
<1>4. CASE Callback \/ (\E delta \in Deltas : Sample(delta)) \/ RunState
           \/ LinkFails \/ FollowAndClear \/ KeepMove \/ UNCHANGED vars
  BY <1>4 DEF NeverCrashes, Callback, ButtonPressed, ButtonReleased, ReadXAxis,
              ReadYAxis, Sample, RunState, LinkFails, NextLink, FollowAndClear,
              KeepMove, EndTick, vars
<1> QED
  BY <1>1, <1>2, <1>3, <1>4 DEF Next, Tick

\* With aligned content and complete links no check fails, no null pointer is
\* read and no array is cut past its end, in builds with checks and without;
\* and in both the arrays stay in lockstep.
THEOREM NoCrash ==
    ASSUME NEW CONSTANT Phase, AlignedBy(Phase), LinksComplete
    PROVE  Spec => [](NeverCrashes /\ StreamsInLockstep)
<1> DEFINE Inv == NeverCrashes /\ StreamsInLockstep /\ InPhase(Phase)
<1>1. Init => Inv
  BY DEF Init, NeverCrashes, StreamsInLockstep, InPhase, FrameLen
<1>2. TypeInv /\ Inv /\ [Next]_vars => Inv'
  <2>1. SUFFICES ASSUME TypeInv, Inv, [Next]_vars PROVE Inv'
    OBVIOUS
  <2>2. NeverCrashes'
    BY <2>1, CrashStep
  <2>3. Accepted => DataIndex % 3 = 0
    BY <2>1, AcceptedInPhase
  <2>4. StreamsInLockstep'
    BY <2>1, <2>3, LockstepStep DEF TypeInv
  <2>5. InPhase(Phase)'
    BY <2>1, PhaseStep
  <2> QED
    BY <2>2, <2>4, <2>5
<1> QED
  BY <1>1, <1>2, TypeInvariant, PTL DEF Spec

-----------------------------------------------------------------------------
(* The age of the buffer.                                                   *)

\* InputIsFresh speaks of the moment the links are tried; between ticks the
\* frames are still in the order they were sampled, and the frame of the tick
\* in progress is the last.
AgesInv ==
    /\ \A i, j \in 1 .. Len(InputAges) : i < j => InputAges[i] > InputAges[j]
    /\ pc \in {"prune", "links", "run"} =>
          Len(InputAges) > 0 /\ InputAges[Len(InputAges)] = 0
    /\ pc \in {"input", "links", "run"} =>
          \A i \in 1 .. Len(InputAges) : InputAges[i] <= InputExpirationTime

LEMMA AgesType ==
    ASSUME TypeOK
    PROVE  /\ Len(InputAges) \in Nat
           /\ DOMAIN InputAges = 1 .. Len(InputAges)
           /\ \A i \in 1 .. Len(InputAges) : InputAges[i] \in Nat
BY LenProperties, ElementOfSeq DEF TypeOK

\* What is left of an ordered buffer is ordered.
LEMMA SuffixOrdered ==
    ASSUME TypeOK, AgesInv, NEW k \in Nat, k <= Len(InputAges),
           InputAges' = RemoveFirst(InputAges, k)
    PROVE  /\ Len(InputAges') = Len(InputAges) - k
           /\ \A i \in 1 .. Len(InputAges') : InputAges'[i] = InputAges[i + k]
           /\ \A i, j \in 1 .. Len(InputAges') : i < j => InputAges'[i] > InputAges'[j]
<1> InputAges \in Seq(Nat)
  BY DEF TypeOK
<1>1. /\ Len(InputAges') = Len(InputAges) - k
      /\ \A i \in 1 .. Len(InputAges) - k : InputAges'[i] = InputAges[i + k]
  BY RemoveFirstProperties
<1>2. ASSUME NEW i \in 1 .. Len(InputAges'), NEW j \in 1 .. Len(InputAges'), i < j
      PROVE  InputAges'[i] > InputAges'[j]
  <2>1. i + k \in 1 .. Len(InputAges) /\ j + k \in 1 .. Len(InputAges) /\ i + k < j + k
    BY <1>1, <1>2, AgesType
  <2>2. InputAges[i + k] > InputAges[j + k]
    BY <2>1 DEF AgesInv
  <2> QED
    BY <1>1, <2>2
<1> QED
  BY <1>1, <1>2

LEMMA SampleAges ==
    ASSUME TypeOK, AgesInv, NEW delta \in Deltas, Sample(delta)
    PROVE  AgesInv'
<1> DEFINE n == Len(InputAges)
<1>1. delta \in Nat /\ delta > 0
  BY NumberAssumption
<1>2. /\ Aged(delta) \in Seq(Nat) /\ Len(Aged(delta)) = n
      /\ \A i \in 1 .. n : Aged(delta)[i] = InputAges[i] + delta
  BY <1>1, AgedProperties DEF TypeOK
<1>3. /\ Len(InputAges') = n + 1
      /\ InputAges'[n + 1] = 0
      /\ \A i \in 1 .. n : InputAges'[i] = Aged(delta)[i]
  BY <1>2, AppendProperties, 0 \in Nat DEF Sample
<1>4. \A i \in 1 .. n : InputAges'[i] = InputAges[i] + delta
  BY <1>2, <1>3
<1>5. ASSUME NEW i \in 1 .. n + 1, NEW j \in 1 .. n + 1, i < j
      PROVE  InputAges'[i] > InputAges'[j]
  <2>1. n \in Nat /\ i \in 1 .. n /\ InputAges[i] \in Nat
    BY <1>5, AgesType
  <2>2. CASE j = n + 1
    BY <1>1, <1>3, <1>4, <2>1, <2>2
  <2>3. CASE j # n + 1
    <3>1. j \in 1 .. n
      BY <1>5, <2>1, <2>3
    <3>2. InputAges[j] \in Nat
      BY <3>1, AgesType
    <3>3. InputAges[i] > InputAges[j]
      BY <1>5, <2>1, <3>1 DEF AgesInv
    <3> QED
      BY <1>1, <1>4, <2>1, <3>1, <3>2, <3>3
  <2> QED
    BY <2>2, <2>3
<1>6. pc' = "prune" /\ n \in Nat
  BY AgesType DEF Sample
<1> QED
  BY <1>3, <1>5, <1>6 DEF AgesInv

\* Pruning stops at the first frame that is fresh, and the frames behind it are
\* younger still.
LEMMA PruneAges ==
    ASSUME TypeOK, AgesInv, StreamsInLockstep, Prune
    PROVE  AgesInv'
<1>1. PICK k \in Nat : /\ IsFirstFresh(k)
                       /\ k < Len(InputAges)
                       /\ InputAges' = RemoveFirst(InputAges, k)
  BY PruneInLockstep
<1> k <= Len(InputAges)
  BY <1>1, AgesType
<1>2. /\ Len(InputAges') = Len(InputAges) - k
      /\ \A i \in 1 .. Len(InputAges') : InputAges'[i] = InputAges[i + k]
      /\ \A i, j \in 1 .. Len(InputAges') : i < j => InputAges'[i] > InputAges'[j]
  BY <1>1, SuffixOrdered
<1>3. Len(InputAges) > 0 /\ InputAges[Len(InputAges)] = 0
  BY DEF AgesInv, Prune
<1>4. Len(InputAges') > 0 /\ InputAges'[Len(InputAges')] = 0
  BY <1>1, <1>2, <1>3, AgesType
<1>5. ASSUME NEW i \in 1 .. Len(InputAges')
      PROVE  InputAges'[i] <= InputExpirationTime
  <2>1. InputAges[k + 1] <= InputExpirationTime /\ InputAges[k + 1] \in Nat
    BY <1>1, AgesType DEF IsFirstFresh
  <2>2. i + k \in 1 .. Len(InputAges) /\ InputAges[i + k] \in Nat /\ InputAges'[i] = InputAges[i + k]
    BY <1>1, <1>2, AgesType
  <2>3. CASE i = 1
    BY <2>1, <2>2, <2>3
  <2>4. CASE i > 1
    <3>1. InputAges[k + 1] > InputAges[i + k]
      BY <1>1, <2>2, <2>4, AgesType DEF AgesInv
    <3> QED
      BY <2>1, <2>2, <3>1, NumberAssumption
  <2> QED
    BY <2>3, <2>4, <1>2, AgesType
<1> QED
  BY <1>2, <1>4, <1>5, PruneInLockstep DEF AgesInv

LEMMA AgesStep ==
    ASSUME TypeOK, AgesInv, StreamsInLockstep, [Next]_vars
    PROVE  AgesInv'
<1>1. ASSUME UNCHANGED bufferVars,
             \/ pc' \in {pc, "crashed"}
             \/ pc \in {"links", "run"} /\ pc' \in {"input", "links", "run"}
      PROVE  AgesInv'
  BY <1>1 DEF AgesInv, bufferVars
<1>2. CASE Callback \/ TryLink \/ RunState \/ LinkFails \/ KeepMove \/ UNCHANGED vars
  <2>1. UNCHANGED bufferVars
    BY <1>2, BufferUnchanged
  <2> QED
    BY <1>1, <1>2, <2>1
    DEF Callback, ButtonPressed, ButtonReleased, ReadXAxis, ReadYAxis, TryLink,
        Crash, RunState, LinkFails, NextLink, KeepMove, EndTick, vars
<1>3. ASSUME NEW delta \in Deltas, Sample(delta) PROVE AgesInv'
  BY <1>3, SampleAges
<1>4. CASE Prune
  BY <1>4, PruneAges
<1>5. CASE FollowAndClear
  <2>1. InputAges' = << >> /\ pc' = "input"
    BY <1>5 DEF FollowAndClear, EndTick
  <2> QED
    BY <2>1 DEF AgesInv
<1>6. CASE FollowAndConsume /\ ~CanConsume
  BY <1>6 DEF FollowAndConsume, Crash, bufferVars, AgesInv
<1>7. CASE FollowAndConsume /\ CanConsume
  <2>1. DataIndex \div FrameLen \in Nat
    BY DEF TypeOK, FrameLen
  <2> PICK k \in Nat : k = DataIndex \div FrameLen
    BY <2>1
  <2>2. /\ k <= Len(InputAges) /\ InputAges' = RemoveFirst(InputAges, k)
        /\ pc = "run" /\ pc' = "input"
    BY <1>7 DEF FollowAndConsume, CanConsume, Accepted, EndTick
  <2>3. /\ Len(InputAges') = Len(InputAges) - k
        /\ \A i \in 1 .. Len(InputAges') : InputAges'[i] = InputAges[i + k]
        /\ \A i, j \in 1 .. Len(InputAges') : i < j => InputAges'[i] > InputAges'[j]
    BY <2>2, SuffixOrdered
  <2>4. ASSUME NEW i \in 1 .. Len(InputAges')
        PROVE  InputAges'[i] <= InputExpirationTime
    <3>1. i + k \in 1 .. Len(InputAges)
      BY <2>2, <2>3, AgesType
    <3> QED
      BY <2>2, <2>3, <3>1 DEF AgesInv
  <2> QED
    BY <2>2, <2>3, <2>4 DEF AgesInv
<1> QED
  BY <1>2, <1>3, <1>4, <1>5, <1>6, <1>7 DEF Next, Tick

\* Where the arrays are in lockstep, the machines only ever see input that has
\* not expired, in order and up to date.
THEOREM Freshness == Spec /\ []StreamsInLockstep => []InputIsFresh
<1>1. Init => AgesInv
  BY DEF Init, AgesInv
<1>2. TypeOK /\ AgesInv /\ StreamsInLockstep /\ [Next]_vars => AgesInv'
  BY AgesStep
<1>3. TypeOK /\ AgesInv => InputIsFresh
  BY AgesType DEF AgesInv, InputIsFresh
<1> QED
  BY <1>1, <1>2, <1>3, TypeCorrect, PTL DEF Spec

-----------------------------------------------------------------------------
(* The buttons in the buffer.                                               *)

\* PressEdges with its last frame named by a bound variable.
EdgesInv ==
    pc # "crashed" => \A b \in EFGInputButtons :
        /\ \A f \in 1 .. Len(InputAges) - 1 :
            /\ Pressed(f + 1, b) = "JustPressed" => Pressed(f, b) = "ButtonUp"
            /\ Pressed(f + 1, b) = "HeldDown" => Pressed(f, b) # "ButtonUp"
        /\ \A f \in 1 .. Len(InputAges) :
            f = Len(InputAges) =>
                ((b \in ButtonsDown_Old) <=> (Pressed(f, b) # "ButtonUp"))

\* Cutting whole frames renumbers the frames and changes nothing in them.
LEMMA SuffixEdges ==
    ASSUME TypeOK, EdgesInv, StreamsInLockstep, pc # "crashed",
           NEW k \in Nat, k <= Len(InputAges),
           InputAges' = RemoveFirst(InputAges, k),
           InputStream' = RemoveFirst(InputStream, FrameLen * k),
           ButtonsDown_Old' = ButtonsDown_Old
    PROVE  EdgesInv'
<1> PICK n \in Nat : n = Len(InputAges)
  BY AgesType
<1>1. InputAges \in Seq(Nat) /\ InputStream \in Seq(Atoms) /\ n \in Nat
  BY AgesType DEF TypeOK
<1>2. Len(InputStream) = 3 * n /\ 3 * k \in Nat /\ 3 * k <= Len(InputStream)
  BY <1>1 DEF StreamsInLockstep, FrameLen
<1>3. Len(InputAges') = n - k
  BY <1>1, RemoveFirstProperties
<1>4. \A i \in 1 .. Len(InputStream) - 3 * k : InputStream'[i] = InputStream[i + 3 * k]
  BY <1>1, <1>2, RemoveFirstProperties DEF FrameLen
<1>5. ASSUME NEW f \in 1 .. n - k, NEW b \in EFGInputButtons
      PROVE  Pressed(f, b)' = Pressed(f + k, b)
  <2>1. ASSUME NEW o \in {2, 3}
        PROVE  InputStream'[3 * (f - 1) + o] = InputStream[3 * (f + k - 1) + o]
    <3>1. 3 * (f - 1) + o \in 1 .. Len(InputStream) - 3 * k
      BY <1>1, <1>2, <1>5
    <3>2. 3 * (f - 1) + o + 3 * k = 3 * (f + k - 1) + o
      BY <1>1, <1>5
    <3> QED
      BY <1>4, <3>1, <3>2
  <2> QED
    BY <2>1 DEF Pressed, FrameLen
<1>6. ASSUME NEW b \in EFGInputButtons, NEW f \in 1 .. n - k - 1
      PROVE  /\ Pressed(f + 1, b)' = "JustPressed" => Pressed(f, b)' = "ButtonUp"
             /\ Pressed(f + 1, b)' = "HeldDown" => Pressed(f, b)' # "ButtonUp"
  <2>1. /\ f \in 1 .. n - k /\ f + 1 \in 1 .. n - k
        /\ f + k \in 1 .. n - 1 /\ (f + 1) + k = (f + k) + 1
    BY <1>1, <1>6
  <2>2. Pressed(f, b)' = Pressed(f + k, b) /\ Pressed(f + 1, b)' = Pressed((f + k) + 1, b)
    BY <1>5, <2>1
  <2> QED
    BY <2>1, <2>2 DEF EdgesInv
<1>7. ASSUME NEW b \in EFGInputButtons, n - k > 0
      PROVE  (b \in ButtonsDown_Old') <=> (Pressed(n - k, b)' # "ButtonUp")
  <2>1. n - k \in 1 .. n - k /\ (n - k) + k = n /\ n \in 1 .. n
    BY <1>1, <1>7
  <2>2. Pressed(n - k, b)' = Pressed(n, b)
    BY <1>5, <2>1
  <2> QED
    BY <2>1, <2>2 DEF EdgesInv
<1>8. (n - k) - 1 = n - k - 1 /\ \A f \in 1 .. n - k : f = n - k => n - k > 0
  BY <1>1
<1> QED
  BY <1>3, <1>6, <1>7, <1>8 DEF EdgesInv

\* A new frame continues the story of each button: what it says of the frame
\* before is what ButtonsDown_Old remembered.
LEMMA SampleEdges ==
    ASSUME TypeOK, EdgesInv, StreamsInLockstep, NEW delta \in Deltas, Sample(delta)
    PROVE  EdgesInv'
<1> PICK n \in Nat : n = Len(InputAges)
  BY AgesType
<1>1. n \in Nat /\ Len(InputStream) = 3 * n /\ pc # "crashed"
  BY AgesType DEF StreamsInLockstep, Sample, FrameLen
<1>2. Len(InputAges') = n + 1
  BY SampleGrows
<1>3. /\ \A i \in 1 .. Len(InputStream) : InputStream'[i] = InputStream[i]
      /\ InputStream'[Len(InputStream) + 2] = ButtonAtom("LeftFace")
      /\ InputStream'[Len(InputStream) + 3] = ButtonAtom("TopFace")
  BY FrameProperties DEF TypeOK, Sample
<1>4. ASSUME NEW f \in 1 .. n, NEW b \in EFGInputButtons
      PROVE  Pressed(f, b)' = Pressed(f, b)
  <2>1. \A o \in {2, 3} : 3 * (f - 1) + o \in 1 .. Len(InputStream)
    BY <1>1, <1>4
  <2> QED
    BY <1>3, <2>1 DEF Pressed, FrameLen
<1>5. ASSUME NEW b \in EFGInputButtons
      PROVE  Pressed(n + 1, b)' = ButtonAtom(b)
  <2>1. /\ 3 * (n + 1 - 1) + 2 = Len(InputStream) + 2
        /\ 3 * (n + 1 - 1) + 3 = Len(InputStream) + 3
    BY <1>1
  <2>2. CASE b = "LeftFace"
    BY <1>3, <2>1, <2>2 DEF Pressed, FrameLen
  <2>3. CASE b = "TopFace"
    BY <1>3, <2>1, <2>3 DEF Pressed, FrameLen
  <2> QED
    BY <1>5, <2>2, <2>3 DEF EFGInputButtons
<1>6. ASSUME NEW b \in EFGInputButtons, NEW f \in 1 .. n
      PROVE  /\ Pressed(f + 1, b)' = "JustPressed" => Pressed(f, b)' = "ButtonUp"
             /\ Pressed(f + 1, b)' = "HeldDown" => Pressed(f, b)' # "ButtonUp"
  <2>1. CASE f = n
    <3>1. n \in 1 .. n /\ Pressed(f, b)' = Pressed(n, b) /\ Pressed(f + 1, b)' = ButtonAtom(b)
      BY <1>1, <1>4, <1>5, <1>6, <2>1
    <3>2. (b \in ButtonsDown_Old) <=> (Pressed(n, b) # "ButtonUp")
      BY <1>1, <3>1 DEF EdgesInv
    <3> QED
      BY <3>1, <3>2 DEF ButtonAtom
  <2>2. CASE f # n
    <3>1. f \in 1 .. n - 1 /\ f + 1 \in 1 .. n
      BY <1>1, <1>6, <2>2
    <3>2. Pressed(f, b)' = Pressed(f, b) /\ Pressed(f + 1, b)' = Pressed(f + 1, b)
      BY <1>4, <3>1
    <3> QED
      BY <1>1, <3>1, <3>2 DEF EdgesInv
  <2> QED
    BY <2>1, <2>2
<1>7. ASSUME NEW b \in EFGInputButtons
      PROVE  (b \in ButtonsDown_Old') <=> (Pressed(n + 1, b)' # "ButtonUp")
  <2>1. ButtonsDown_Old' = ButtonsDown
    BY DEF Sample
  <2> QED
    BY <1>5, <2>1 DEF ButtonAtom
<1>8. (n + 1) - 1 = n
  BY <1>1
<1> QED
  BY <1>2, <1>6, <1>7, <1>8 DEF EdgesInv

\* If consuming leaves the arrays in lockstep, it took whole frames.
LEMMA AlignedWhenConsumed ==
    ASSUME TypeOK, StreamsInLockstep, StreamsInLockstep', FollowAndConsume, CanConsume
    PROVE  DataIndex % 3 = 0
<1>1. /\ DataIndex \in Nat /\ DataIndex <= Len(InputStream)
      /\ DataIndex \div 3 \in Nat /\ DataIndex \div 3 <= Len(InputAges)
      /\ InputStream \in Seq(Atoms) /\ InputAges \in Seq(Nat)
      /\ Len(InputStream) \in Nat /\ Len(InputAges) \in Nat
  BY LenProperties DEF TypeOK, CanConsume, FrameLen
<1>2. /\ InputStream' = RemoveFirst(InputStream, DataIndex)
      /\ InputAges' = RemoveFirst(InputAges, DataIndex \div 3)
      /\ pc' = "input" /\ pc = "run"
  BY DEF FollowAndConsume, Accepted, EndTick, FrameLen
<1>3. Len(InputStream') = Len(InputStream) - DataIndex
  BY <1>1, <1>2, RemoveFirstProperties
<1>4. Len(InputAges') = Len(InputAges) - DataIndex \div 3
  BY <1>1, <1>2, RemoveFirstProperties
<1> QED
  BY <1>1, <1>2, <1>3, <1>4 DEF StreamsInLockstep, FrameLen

LEMMA EdgesStep ==
    ASSUME TypeOK, EdgesInv, StreamsInLockstep, StreamsInLockstep', [Next]_vars
    PROVE  EdgesInv'
<1>1. CASE Callback \/ TryLink \/ RunState \/ LinkFails \/ KeepMove \/ UNCHANGED vars
  <2>1. UNCHANGED <<InputStream, InputAges>>
    BY <1>1, BufferUnchanged DEF bufferVars
  <2>2. ButtonsDown_Old' = ButtonsDown_Old /\ (pc = "crashed" => pc' = "crashed")
    BY <1>1 DEF Callback, ButtonPressed, ButtonReleased, ReadXAxis, ReadYAxis, TryLink,
        Crash, RunState, LinkFails, NextLink, KeepMove, EndTick, vars, inputVars
  <2> QED
    BY <2>1, <2>2 DEF EdgesInv, Pressed
<1>2. ASSUME NEW delta \in Deltas, Sample(delta) PROVE EdgesInv'
  BY <1>2, SampleEdges
<1>3. CASE Prune
  <2>1. PICK k \in Nat : /\ k < Len(InputAges)
                         /\ InputAges' = RemoveFirst(InputAges, k)
                         /\ InputStream' = RemoveFirst(InputStream, FrameLen * k)
    BY <1>3, PruneInLockstep
  <2>2. pc # "crashed" /\ ButtonsDown_Old' = ButtonsDown_Old
    BY <1>3 DEF Prune, Crash, inputVars
  <2>3. k <= Len(InputAges)
    BY <2>1, AgesType
  <2> QED
    BY <2>1, <2>2, <2>3, SuffixEdges
<1>4. CASE FollowAndClear
  BY <1>4 DEF FollowAndClear, EdgesInv
<1>5. CASE FollowAndConsume /\ ~CanConsume
  BY <1>5 DEF FollowAndConsume, Crash, EdgesInv
<1>6. CASE FollowAndConsume /\ CanConsume
  <2>1. pc' = "input" /\ pc = "run" /\ ButtonsDown_Old' = ButtonsDown_Old
    BY <1>6 DEF FollowAndConsume, Accepted, EndTick, inputVars
  <2>2. DataIndex % 3 = 0
    BY <1>6, AlignedWhenConsumed
  <2>3. PICK k \in Nat : /\ k <= Len(InputAges)
                         /\ InputAges' = RemoveFirst(InputAges, k)
                         /\ InputStream' = RemoveFirst(InputStream, FrameLen * k)
    BY <1>6, <2>2, ConsumeInLockstep
  <2> QED
    BY <2>1, <2>3, SuffixEdges
<1> QED
  BY <1>1, <1>2, <1>3, <1>4, <1>5, <1>6 DEF Next, Tick

\* Where the arrays are in lockstep, a key held down is one press in the
\* buffer, whatever is pruned, cleared or consumed while it is held.
THEOREM Presses == Spec /\ []StreamsInLockstep => []PressEdges
<1>1. Init => EdgesInv
  BY DEF Init, EdgesInv
<1>2. /\ TypeOK /\ EdgesInv /\ StreamsInLockstep /\ StreamsInLockstep' /\ [Next]_vars
      => EdgesInv'
  BY EdgesStep
<1>3. TypeOK /\ EdgesInv => PressEdges
  <2>1. TypeOK /\ InputAges # << >> => Len(InputAges) \in 1 .. Len(InputAges)
    BY EmptySeq DEF TypeOK
  <2> QED
    BY <2>1 DEF EdgesInv, PressEdges
<1> QED
  BY <1>1, <1>2, <1>3, TypeCorrect, PTL DEF Spec

\* Without a precondition: in a build with checks, whatever the content is,
\* the buffer is fresh and every key's story is consistent.
COROLLARY BufferInvariant ==
    ASSUME ~Shipping
    PROVE  Spec => [](InputIsFresh /\ PressEdges)
BY Lockstep, Freshness, Presses, PTL

\* With sound content the same holds in every build.
COROLLARY SoundContent ==
    ASSUME NEW CONSTANT Phase, AlignedBy(Phase), LinksComplete
    PROVE  Spec => [](InputIsFresh /\ PressEdges)
BY NoCrash, Freshness, Presses, PTL

-----------------------------------------------------------------------------
(* The pawn implements the queue of frames.                                 *)

\* In a buffer whose ages fall, the expired frames are a beginning of it.
LEMMA StaleExists ==
    ASSUME TypeOK, AgesInv
    PROVE  \E n \in 0 .. Len(InputAges) : IsStale(n)
<1> PICK n \in Nat : n = Len(InputAges)
  BY AgesType
<1> DEFINE T == {i \in 1 .. n : InputAges[i] <= InputExpirationTime}
<1>1. InputExpirationTime \in Nat /\ \A i \in 1 .. n : InputAges[i] \in Nat
  BY AgesType, NumberAssumption
<1>2. CASE T = {}
  <2>1. \A i \in 1 .. n : ~(InputAges[i] <= InputExpirationTime) /\ ~(i > n)
    BY <1>2
  <2> QED
    BY <2>1 DEF IsStale
<1>3. CASE T # {}
  <2>1. T \subseteq Nat
    OBVIOUS
  <2>2. PICK m \in T : \A i \in T : m <= i
    BY <1>3, <2>1, SM!LeastNumber
  <2>3. m \in 1 .. n /\ InputAges[m] <= InputExpirationTime /\ m - 1 \in 0 .. n
    OBVIOUS
  <2>4. ASSUME NEW i \in 1 .. n, i > m - 1
        PROVE  InputAges[i] <= InputExpirationTime
    <3>1. i = m \/ m < i
      BY <2>3, <2>4
    <3>2. m < i => InputAges[m] > InputAges[i]
      BY <2>3 DEF AgesInv
    <3> QED
      BY <1>1, <2>3, <3>1, <3>2
  <2>5. ASSUME NEW i \in 1 .. n, InputAges[i] <= InputExpirationTime
        PROVE  i > m - 1
    BY <2>2, <2>3, <2>5
  <2> QED
    BY <2>3, <2>4, <2>5 DEF IsStale
<1> QED
  BY <1>2, <1>3

LEMMA StaleIs ==
    ASSUME TypeOK, NEW n, IsStale(n)
    PROVE  Stale = n
<1>1. Len(InputAges) \in Nat
  BY AgesType
<1>2. n \in 0 .. Len(InputAges) /\ Stale \in 0 .. Len(InputAges) /\ IsStale(Stale)
  BY DEF Stale, IsStale
<1>3. ASSUME NEW i \in 0 .. Len(InputAges), NEW j \in 0 .. Len(InputAges),
             IsStale(i), IsStale(j), i < j
      PROVE  FALSE
  <2>1. j \in 1 .. Len(InputAges) /\ j > i /\ ~(j > j)
    BY <1>1, <1>3
  <2> QED
    BY <1>3, <2>1 DEF IsStale
<1> QED
  BY <1>1, <1>2, <1>3

LEMMA StaleHolds == TypeOK /\ AgesInv => IsStale(Stale)
BY StaleExists, StaleIs

AllFresh == \A i \in 1 .. Len(InputAges) : InputAges[i] <= InputExpirationTime

\* With nothing expired the queue is the buffer.
LEMMA NothingStale ==
    TypeOK /\ AllFresh => Stale = 0 /\ Frames = [i \in 1 .. Len(InputAges) |-> Frame(i)]
<1> SUFFICES ASSUME TypeOK, AllFresh
             PROVE  Stale = 0 /\ Frames = [i \in 1 .. Len(InputAges) |-> Frame(i)]
  OBVIOUS
<1>1. Len(InputAges) \in Nat /\ \A i \in 1 .. Len(InputAges) : i > 0
  BY AgesType
<1>2. IsStale(0)
  BY <1>1 DEF IsStale, AllFresh
<1>3. Stale = 0
  BY <1>2, StaleIs
<1>4. Len(InputAges) - 0 = Len(InputAges) /\ \A i \in 1 .. Len(InputAges) : 0 + i = i
  BY <1>1
<1> QED
  BY <1>3, <1>4 DEF Frames

FrameSet ==
    [stick : Atoms, down : SUBSET EFGInputButtons, pressed : SUBSET EFGInputButtons, age : Nat]

\* In lockstep every time stamp has a frame of its own in the stream.
LEMMA FrameType ==
    ASSUME TypeOK, StreamsInLockstep, pc # "crashed", NEW f \in 1 .. Len(InputAges)
    PROVE  Frame(f) \in FrameSet
<1> PICK n \in Nat : n = Len(InputAges)
  BY AgesType
<1>1. Len(InputStream) = 3 * n
  BY DEF StreamsInLockstep, FrameLen
<1>2. 3 * (f - 1) + 1 \in 1 .. Len(InputStream)
  BY <1>1
<1>3. InputStream[3 * (f - 1) + 1] \in Atoms
  BY <1>2, ElementOfSeq DEF TypeOK
<1>4. InputAges[f] \in Nat
  BY AgesType
<1> QED
  BY <1>3, <1>4 DEF Frame, DownIn, PressedIn, FrameSet, FrameLen

\* Sampling leaves the frames of the buffer as they were, but older, and adds
\* one with the edges of the buttons.
LEMMA SampleFrames ==
    ASSUME TypeOK, StreamsInLockstep, NEW delta \in Deltas, Sample(delta)
    PROVE  /\ \A f \in 1 .. Len(InputAges) : Frame(f)' = Queue!Older(Frame(f), delta)
           /\ \A f \in Nat : f = Len(InputAges) + 1 => Frame(f)' = Queue!NewFrame
<1> PICK n \in Nat : n = Len(InputAges)
  BY AgesType
<1>1. Len(InputStream) = 3 * n /\ delta \in Nat
  BY NumberAssumption DEF StreamsInLockstep, Sample, FrameLen
<1>2. /\ \A i \in 1 .. Len(InputStream) : InputStream'[i] = InputStream[i]
      /\ InputStream'[Len(InputStream) + 1] = StickAtom
      /\ InputStream'[Len(InputStream) + 2] = ButtonAtom("LeftFace")
      /\ InputStream'[Len(InputStream) + 3] = ButtonAtom("TopFace")
  BY FrameProperties DEF TypeOK, Sample
<1>3. /\ Aged(delta) \in Seq(Nat) /\ Len(Aged(delta)) = n
      /\ \A i \in 1 .. n : Aged(delta)[i] = InputAges[i] + delta
  BY <1>1, AgedProperties DEF TypeOK
<1>4. InputAges'[n + 1] = 0 /\ \A i \in 1 .. n : InputAges'[i] = InputAges[i] + delta
  BY <1>3, AppendProperties, 0 \in Nat DEF Sample
<1>5. ASSUME NEW f \in 1 .. n
      PROVE  Frame(f)' = Queue!Older(Frame(f), delta)
  <2>1. ASSUME NEW o \in {1, 2, 3}
        PROVE  InputStream'[3 * (f - 1) + o] = InputStream[3 * (f - 1) + o]
    <3>1. 3 * (f - 1) + o \in 1 .. Len(InputStream)
      BY <1>1
    <3> QED
      BY <1>2, <3>1
  <2>2. \A b \in EFGInputButtons : ButtonOf(f, b)' = ButtonOf(f, b)
    BY <2>1 DEF ButtonOf, FrameLen
  <2>3. DownIn(f)' = DownIn(f) /\ PressedIn(f)' = PressedIn(f)
    BY <2>2 DEF DownIn, PressedIn
  <2>4. InputStream'[3 * (f - 1) + 1] = InputStream[3 * (f - 1) + 1]
    BY <2>1
  <2>5. Frame(f)' = [stick |-> InputStream'[3 * (f - 1) + 1], down |-> DownIn(f)',
                     pressed |-> PressedIn(f)', age |-> InputAges'[f]]
    BY DEF Frame, FrameLen
  <2>6. Queue!Older(Frame(f), delta)
          = [stick |-> InputStream[3 * (f - 1) + 1], down |-> DownIn(f),
             pressed |-> PressedIn(f), age |-> InputAges[f] + delta]
    BY DEF Frame, FrameLen, Queue!Older
  <2> QED
    BY <1>4, <2>3, <2>4, <2>5, <2>6
<1>6. Frame(n + 1)' = Queue!NewFrame
  <2>1. /\ 3 * (n + 1 - 1) + 1 = Len(InputStream) + 1
        /\ 3 * (n + 1 - 1) + 2 = Len(InputStream) + 2
        /\ 3 * (n + 1 - 1) + 3 = Len(InputStream) + 3
    BY <1>1
  <2>2. \A b \in EFGInputButtons : ButtonOf(n + 1, b)' = ButtonAtom(b)
    <3>1. ButtonOf(n + 1, "LeftFace")' = ButtonAtom("LeftFace")
      BY <1>2, <2>1 DEF ButtonOf, FrameLen
    <3>2. ButtonOf(n + 1, "TopFace")' = ButtonAtom("TopFace")
      BY <1>2, <2>1 DEF ButtonOf, FrameLen
    <3> QED
      BY <3>1, <3>2 DEF EFGInputButtons
  <2>3. \A b \in EFGInputButtons :
          /\ ButtonAtom(b) # "ButtonUp" <=> b \in ButtonsDown
          /\ ButtonAtom(b) = "JustPressed" <=> b \in ButtonsDown \ ButtonsDown_Old
    BY DEF ButtonAtom
  <2>4. DownIn(n + 1)' = ButtonsDown
    BY <2>2, <2>3 DEF TypeOK, DownIn
  <2>5. PressedIn(n + 1)' = ButtonsDown \ ButtonsDown_Old
    BY <2>2, <2>3 DEF TypeOK, PressedIn
  <2>6. InputStream'[3 * (n + 1 - 1) + 1] = StickAtom
    BY <1>2, <2>1
  <2>7. Frame(n + 1)' = [stick |-> InputStream'[3 * (n + 1 - 1) + 1],
                         down |-> DownIn(n + 1)', pressed |-> PressedIn(n + 1)',
                         age |-> InputAges'[n + 1]]
    BY DEF Frame, FrameLen
  <2> QED
    BY <1>4, <2>4, <2>5, <2>6, <2>7 DEF Queue!NewFrame
<1> QED
  BY <1>5, <1>6

\* Cutting whole frames off the front leaves the others as they were.
LEMMA SuffixFrames ==
    ASSUME TypeOK, StreamsInLockstep, pc # "crashed",
           NEW k \in Nat, k <= Len(InputAges),
           InputAges' = RemoveFirst(InputAges, k),
           InputStream' = RemoveFirst(InputStream, FrameLen * k)
    PROVE  /\ Len(InputAges') = Len(InputAges) - k
           /\ \A f \in 1 .. Len(InputAges) - k : Frame(f)' = Frame(k + f)
<1> PICK n \in Nat : n = Len(InputAges)
  BY AgesType
<1>1. InputAges \in Seq(Nat) /\ InputStream \in Seq(Atoms)
  BY DEF TypeOK
<1>2. Len(InputStream) = 3 * n /\ 3 * k \in Nat /\ 3 * k <= Len(InputStream)
  BY DEF StreamsInLockstep, FrameLen
<1>3. Len(InputAges') = n - k /\ \A i \in 1 .. n - k : InputAges'[i] = InputAges[i + k]
  BY <1>1, RemoveFirstProperties
<1>4. \A i \in 1 .. Len(InputStream) - 3 * k : InputStream'[i] = InputStream[i + 3 * k]
  BY <1>1, <1>2, RemoveFirstProperties DEF FrameLen
<1>5. ASSUME NEW f \in 1 .. n - k
      PROVE  Frame(f)' = Frame(k + f)
  <2>1. ASSUME NEW o \in {1, 2, 3}
        PROVE  InputStream'[3 * (f - 1) + o] = InputStream[3 * (k + f - 1) + o]
    <3>1. 3 * (f - 1) + o \in 1 .. Len(InputStream) - 3 * k
      BY <1>2
    <3>2. 3 * (f - 1) + o + 3 * k = 3 * (k + f - 1) + o
      OBVIOUS
    <3> QED
      BY <1>4, <3>1, <3>2
  <2>2. \A b \in EFGInputButtons : ButtonOf(f, b)' = ButtonOf(k + f, b)
    <3>1. ASSUME NEW b PROVE ButtonOf(f, b)' = ButtonOf(k + f, b)
      <4> DEFINE o == IF b = "LeftFace" THEN 2 ELSE 3
      <4>1. o \in {1, 2, 3}
        OBVIOUS
      <4>2. ButtonOf(f, b)' = InputStream'[3 * (f - 1) + o]
        BY DEF ButtonOf, FrameLen
      <4>3. ButtonOf(k + f, b) = InputStream[3 * (k + f - 1) + o]
        BY DEF ButtonOf, FrameLen
      <4> HIDE DEF o
      <4> QED
        BY <2>1, <4>1, <4>2, <4>3
    <3> QED
      BY <3>1
  <2>3. DownIn(f)' = DownIn(k + f) /\ PressedIn(f)' = PressedIn(k + f)
    BY <2>2 DEF DownIn, PressedIn
  <2>4. InputStream'[3 * (f - 1) + 1] = InputStream[3 * (k + f - 1) + 1]
    BY <2>1
  <2>5. InputAges'[f] = InputAges[k + f]
    BY <1>3
  <2> QED
    BY <2>3, <2>4, <2>5 DEF Frame, FrameLen
<1> QED
  BY <1>3, <1>5

\* What is left of a sequence without its first k elements, and with one more.
LEMMA CutIs ==
    ASSUME NEW S, NEW s \in Seq(S), NEW k \in 0 .. Len(s)
    PROVE  SubSeq(s, k + 1, Len(s)) = [i \in 1 .. Len(s) - k |-> s[k + i]]
<1> PICK n \in Nat : n = Len(s)
  BY LenProperties
<1> DEFINE t == SubSeq(s, k + 1, n)
<1>1. \A i \in k + 1 .. n : s[i] \in S
  BY ElementOfSeq
<1>2. /\ t \in Seq(S)
      /\ Len(t) = IF k + 1 <= n THEN n - (k + 1) + 1 ELSE 0
      /\ \A i \in 1 .. n - (k + 1) + 1 : t[i] = s[k + 1 + i - 1]
  BY <1>1, SubSeqProperties, k + 1 \in Int
<1>3. Len(t) = n - k /\ \A i \in 1 .. n - k : k + 1 + i - 1 = k + i
  BY <1>2
<1>4. \A i \in 1 .. n - k : t[i] = s[k + i]
  BY <1>2, <1>3
<1>5. t = [i \in 1 .. n - k |-> t[i]]
  BY <1>2, <1>3, LenProperties, SeqDef
<1> HIDE DEF t
<1>6. t = [i \in 1 .. n - k |-> s[k + i]]
  BY <1>4, <1>5
<1> QED
  BY <1>6 DEF t

LEMMA CutAndAppend ==
    ASSUME NEW S, NEW s \in Seq(S), NEW x \in S, NEW k \in 0 .. Len(s)
    PROVE  Append(SubSeq(s, k + 1, Len(s)), x)
             = [i \in 1 .. Len(s) + 1 - k |-> IF i = Len(s) + 1 - k THEN x ELSE s[k + i]]
<1> PICK n \in Nat : n = Len(s)
  BY LenProperties
<1> DEFINE t == SubSeq(s, k + 1, n)
<1>1. t = [i \in 1 .. n - k |-> s[k + i]]
  BY CutIs
<1>2. \A i \in 1 .. n : s[i] \in S
  BY ElementOfSeq
<1>3. t \in Seq(S) /\ Len(t) = n - k
  <2>1. \A i \in 1 .. n - k : s[k + i] \in S
    BY <1>2
  <2>2. [i \in 1 .. n - k |-> s[k + i]] \in [1 .. n - k -> S] /\ n - k \in Nat
    BY <2>1
  <2> HIDE DEF t
  <2>3. t \in Seq(S)
    BY <1>1, <2>2, SeqDef
  <2> QED
    BY <1>1, <2>2, <2>3, LenProperties
<1>4. \A i \in 1 .. n - k : t[i] = s[k + i]
  BY <1>1
<1> HIDE DEF t
<1>5. /\ Append(t, x) \in Seq(S) /\ Len(Append(t, x)) = n - k + 1
      /\ \A i \in 1 .. n - k : Append(t, x)[i] = t[i]
      /\ Append(t, x)[n - k + 1] = x
  <2>1. t \in Seq(S) /\ x \in S /\ Len(t) = n - k
    BY <1>3
  <2>2. /\ Append(t, x) \in Seq(S) /\ Len(Append(t, x)) = Len(t) + 1
        /\ \A i \in 1 .. Len(t) : Append(t, x)[i] = t[i]
        /\ Append(t, x)[Len(t) + 1] = x
    BY <2>1, AppendProperties
  <2> QED
    BY <2>1, <2>2
<1>6. Append(t, x) = [i \in 1 .. n - k + 1 |-> Append(t, x)[i]]
  BY <1>5, LenProperties, SeqDef
<1>7. \A i \in 1 .. n - k + 1 : i # n - k + 1 => i \in 1 .. n - k
  OBVIOUS
<1>8. \A i \in 1 .. n - k + 1 : Append(t, x)[i] = IF i = n - k + 1 THEN x ELSE s[k + i]
  BY <1>4, <1>5, <1>7
<1>9. Append(t, x) = [i \in 1 .. n - k + 1 |-> IF i = n - k + 1 THEN x ELSE s[k + i]]
  BY <1>6, <1>8
<1>10. n - k + 1 = n + 1 - k
  OBVIOUS
<1> QED
  BY <1>9, <1>10 DEF t

LEMMA StickType == StickAtom \in DirectionAtoms
BY DEF StickAtom, Zone, Zones, DirectionAtoms

\* Between ticks: the player's hands move, and nothing else.
LEMMA CallbackPlays ==
    ASSUME TypeOK, Callback
    PROVE  Queue!Play
<1>1. /\ pc = "input" /\ pc' = "input"
      /\ UNCHANGED <<ButtonsDown_Old, InputStream, InputAges, CurrentMove,
                     TimeInCurrentMove, DeltaSeconds>>
  BY DEF Callback, ButtonPressed, ButtonReleased, ReadXAxis, ReadYAxis, bufferVars, moveVars
<1>2. Frames' = Frames
  BY <1>1 DEF Frames, Stale, IsStale, Frame, DownIn, PressedIn, ButtonOf
<1>3. \/ StickAtom' \in DirectionAtoms /\ UNCHANGED ButtonsDown
      \/ \E b \in EFGInputButtons :
           ButtonsDown' \in {ButtonsDown \cup {b}, ButtonsDown \ {b}} /\ UNCHANGED StickAtom
  <2>1. ASSUME NEW b \in EFGInputButtons, ButtonPressed(b) \/ ButtonReleased(b) PROVE <1>3
    BY <2>1 DEF ButtonPressed, ButtonReleased, StickAtom
  <2>2. CASE \/ \E x \in XValues : ReadXAxis(x)
             \/ \E y \in YValues : ReadYAxis(y)
    <3>1. UNCHANGED ButtonsDown
      BY <2>2 DEF ReadXAxis, ReadYAxis
    <3>2. StickAtom' \in DirectionAtoms
      BY DEF StickAtom, Zone, Zones, DirectionAtoms
    <3> QED
      BY <3>1, <3>2
  <2> QED
    BY <2>1, <2>2 DEF Callback
<1> QED
  BY <1>1, <1>2, <1>3 DEF Queue!Play

\* The first step of a tick: a frame enters at the back and the expired ones
\* leave the queue, though they leave the arrays only when the loop has run.
LEMMA SampleSamples ==
    ASSUME TypeOK, TypeOK', AgesInv, AgesInv', StreamsInLockstep,
           NEW delta \in Deltas, Sample(delta)
    PROVE  Queue!Sample(delta)
<1> PICK n \in Nat : n = Len(InputAges)
  BY AgesType
<1>1. /\ pc = "input" /\ pc' = "prune" /\ ButtonsDown_Old' = ButtonsDown
      /\ DeltaSeconds' = delta
      /\ UNCHANGED <<ButtonsDown, DirectionInput, CurrentMove, TimeInCurrentMove>>
  BY DEF Sample, moveVars
<1>2. Frames = [i \in 1 .. n |-> Frame(i)]
  BY <1>1, NothingStale DEF AgesInv, AllFresh
<1>3. delta \in Nat /\ Len(InputAges') = n + 1
  BY SampleGrows, NumberAssumption
<1>4. IsStale(Stale)'
  BY StaleHolds, PTL
<1>5. PICK k \in 0 .. n + 1 : k = Stale'
  BY <1>3, <1>4 DEF IsStale
<1>6. /\ \A i \in 1 .. n : Frame(i)' = Queue!Older(Frame(i), delta)
      /\ Frame(n + 1)' = Queue!NewFrame
  BY SampleFrames
<1>7. \A i \in 1 .. n + 1 : InputAges'[i] <= InputExpirationTime <=> i > k
  BY <1>3, <1>4, <1>5 DEF IsStale
<1>8. k <= n
  <2>1. InputAges'[n + 1] <= InputExpirationTime
    BY <1>1, <1>3, NumberAssumption DEF AgesInv
  <2> QED
    BY <1>7, <2>1
<1> DEFINE old == [i \in 1 .. n |-> Queue!Older(Frame(i), delta)]
<1>9. old \in Seq(FrameSet) /\ Len(old) = n /\ Queue!NewFrame \in FrameSet
  <2>1. \A i \in 1 .. n : Frame(i) \in FrameSet
    BY <1>1, FrameType
  <2>2. \A i \in 1 .. n : Queue!Older(Frame(i), delta) \in FrameSet
    BY <1>3, <2>1 DEF FrameSet, Queue!Older
  <2>3. Queue!NewFrame \in FrameSet
    BY StickType DEF Queue!NewFrame, FrameSet, TypeOK, Atoms
  <2> QED
    BY <2>2, <2>3, SeqDef
<1>10. Append(SubSeq(old, k + 1, n), Queue!NewFrame)
         = [i \in 1 .. n + 1 - k |-> IF i = n + 1 - k THEN Queue!NewFrame ELSE old[k + i]]
  <2> HIDE DEF old
  <2>1. k \in 0 .. Len(old)
    BY <1>5, <1>8, <1>9
  <2> QED
    BY <1>9, <2>1, CutAndAppend
<1>11. Frames' = [i \in 1 .. n + 1 - k |-> Frame(k + i)']
  BY <1>3, <1>5 DEF Frames
<1>12. ASSUME NEW i \in 1 .. n + 1 - k
       PROVE  Frame(k + i)' = IF i = n + 1 - k THEN Queue!NewFrame ELSE old[k + i]
  <2>1. CASE i = n + 1 - k
    <3>1. k + i = n + 1
      BY <2>1
    <3> QED
      BY <1>6, <2>1, <3>1
  <2>2. CASE i # n + 1 - k
    <3>1. k + i \in 1 .. n
      BY <2>2
    <3> QED
      BY <1>6, <2>2, <3>1
  <2> QED
    BY <2>1, <2>2
<1>13. Frames' = Append(SubSeq(old, k + 1, n), Queue!NewFrame)
  BY <1>10, <1>11, <1>12
<1>14. \A i \in 1 .. n : Queue!IsFresh(old[i]) <=> i > k
  <2>1. ASSUME NEW i \in 1 .. n
        PROVE  Queue!IsFresh(old[i]) <=> i > k
    <3>1. Frame(i)'.age = InputAges'[i]
      BY DEF Frame
    <3>2. old[i].age = InputAges'[i]
      BY <1>6, <3>1
    <3>3. i \in 1 .. n + 1
      OBVIOUS
    <3> QED
      BY <1>7, <3>2, <3>3 DEF Queue!IsFresh
  <2> QED
    BY <2>1
<1>15. old = [i \in DOMAIN Frames |-> Queue!Older(Frames[i], delta)]
       /\ DOMAIN Frames = 1 .. n /\ Len(Frames) = n
  <2>1. \A i \in 1 .. n : Frame(i) \in FrameSet
    BY <1>1, FrameType
  <2>2. Frames \in Seq(FrameSet)
    BY <1>2, <2>1, SeqDef
  <2> QED
    BY <1>2, <2>2, LenProperties
<1>16. k \in 0 .. n
  BY <1>5, <1>8
<1> HIDE DEF old
<1>17. \E expired \in 0 .. Len(Frames) :
         /\ \A i \in DOMAIN Frames : Queue!IsFresh(old[i]) <=> i > expired
         /\ Frames' = Append(SubSeq(old, expired + 1, Len(Frames)), Queue!NewFrame)
  BY <1>13, <1>14, <1>15, <1>16
<1>18. UNCHANGED StickAtom
  BY <1>1 DEF StickAtom
<1>19. (pc' # "input") = TRUE /\ ~(pc # "input")
  BY <1>1
<1> QED
  BY <1>1, <1>15, <1>17, <1>18, <1>19 DEF Queue!Sample

\* Frames says nothing of the point the tick has reached.
LEMMA SameFrames ==
    ASSUME UNCHANGED bufferVars
    PROVE  Frames' = Frames
BY DEF bufferVars, Frames, Stale, IsStale, Frame, DownIn, PressedIn, ButtonOf

\* The middle of a tick is not seen from outside.
LEMMA MiddleStutters ==
    ASSUME TypeOK, pc # "input", pc' # "input", Frames' = Frames,
           UNCHANGED <<inputVars, moveVars, DeltaSeconds>>
    PROVE  UNCHANGED Queue!vars
<1>1. (pc # "input") = TRUE /\ (pc' # "input") = TRUE
  OBVIOUS
<1>2. UNCHANGED StickAtom
  BY DEF inputVars, StickAtom
<1> QED
  BY <1>1, <1>2 DEF Queue!vars, inputVars, moveVars

\* What pruning removes has left the queue before.
LEMMA PruneStutters ==
    ASSUME TypeOK, TypeOK', AgesInv, AgesInv', StreamsInLockstep, Prune
    PROVE  UNCHANGED Queue!vars
<1> PICK n \in Nat : n = Len(InputAges)
  BY AgesType
<1>1. PICK k \in Nat : /\ IsFirstFresh(k)
                       /\ k < n
                       /\ InputAges' = RemoveFirst(InputAges, k)
                       /\ InputStream' = RemoveFirst(InputStream, FrameLen * k)
  BY PruneInLockstep
<1>2. /\ pc = "prune" /\ pc' = "links"
      /\ UNCHANGED <<inputVars, moveVars, DeltaSeconds>>
  <2>1. pc' = "links"
    BY PruneInLockstep
  <2> QED
    BY <2>1 DEF Prune, Crash
<1>3. /\ Len(InputAges') = n - k
      /\ \A f \in 1 .. n - k : Frame(f)' = Frame(k + f)
  BY <1>1, <1>2, SuffixFrames
<1>4. Stale = k
  <2>1. ASSUME NEW i \in 1 .. n
        PROVE  InputAges[i] <= InputExpirationTime <=> i > k
    <3>1. /\ k + 1 \in 1 .. n /\ InputAges[k + 1] \in Nat /\ InputAges[i] \in Nat
          /\ InputAges[k + 1] <= InputExpirationTime /\ InputExpirationTime \in Nat
      BY <1>1, AgesType, NumberAssumption DEF IsFirstFresh
    <3>2. CASE i <= k
      BY <1>1, <3>1, <3>2 DEF IsFirstFresh
    <3>3. CASE i > k + 1
      <4>1. InputAges[k + 1] > InputAges[i]
        BY <3>1, <3>3 DEF AgesInv
      <4> QED
        BY <3>1, <3>3, <4>1
    <3>4. CASE i = k + 1
      BY <3>1, <3>4
    <3> QED
      BY <3>2, <3>3, <3>4
  <2>2. IsStale(k)
    BY <1>1, <2>1 DEF IsStale
  <2> QED
    BY <2>2, StaleIs
<1>5. Frames = [i \in 1 .. n - k |-> Frame(k + i)]
  BY <1>4 DEF Frames
<1>6. AllFresh'
  BY <1>2 DEF AgesInv, AllFresh
<1>7. (TypeOK /\ AllFresh)' => (Frames = [i \in 1 .. Len(InputAges) |-> Frame(i)])'
  BY NothingStale, PTL
<1>8. Frames' = [i \in 1 .. n - k |-> Frame(i)']
  BY <1>3, <1>6, <1>7
<1>9. Frames' = Frames
  BY <1>3, <1>5, <1>8
<1> QED
  BY <1>2, <1>9, MiddleStutters

\* The way out of the current move that a link stands for.
Way ==
    [ from    |-> CurrentMove,
      to      |-> Followed.Move,
      windows |-> Followed.CancelWindows,
      clears  |-> ClearsInput ]

\* A link that runs is one of the current move's open ways.
LEMMA WayIsOpen ==
    ASSUME TypeInv, pc = "run"
    PROVE  Way \in UNION {WaysOf(m) : m \in Moves} /\ Queue!IsOpen(Way)
<1> DEFINE l == LinkedMoves[link]
<1>1. /\ l \in Links /\ link \in DOMAIN LinkedMoves /\ IsOpen(l)
      /\ CurrentMove \in Moves
  <2>1. link \in 1 .. Len(LinkedMoves) /\ IsOpen(l) /\ l # NULL /\ CurrentMove \in Moves
    BY LinkedMovesType DEF TypeInv, TypeOK, RunsOpenLink
  <2>2. l \in Links /\ DOMAIN LinkedMoves = 1 .. Len(LinkedMoves)
    BY <2>1, LinkedMovesType, LenProperties DEF TypeInv
  <2> QED
    BY <2>1, <2>2
<1>2. LinkAsset[l].Move # NULL /\ LinkAsset[l].InputStateMachine # NULL
  BY <1>1 DEF IsOpen
<1>3. Way \in WaysOf(CurrentMove)
  BY <1>1, <1>2 DEF Way, WaysOf, Followed, ClearsInput, LinkedMoves
<1>4. Queue!IsOpen(Way)
  BY <1>1 DEF IsOpen, InWindow, Queue!IsOpen, Way, Followed
<1> QED
  BY <1>1, <1>3, <1>4

\* Following a link is going its way: the buffer is cleared or loses whole
\* frames from its front.
LEMMA FollowGoes ==
    ASSUME TypeInv, TypeOK', AgesInv, AgesInv', StreamsInLockstep, StreamsInLockstep',
           FollowAndClear \/ (FollowAndConsume /\ CanConsume)
    PROVE  Queue!Go(Way)
<1> PICK n \in Nat : n = Len(InputAges)
  BY AgesType DEF TypeInv
<1>1. /\ pc = "run" /\ pc' = "input" /\ EndTick(Followed.Move, 0)
  BY DEF FollowAndClear, FollowAndConsume, Accepted, EndTick
<1>2. Frames = [i \in 1 .. n |-> Frame(i)]
  BY <1>1, NothingStale DEF AgesInv, AllFresh, TypeInv
<1>3. AllFresh'
  BY <1>1 DEF AgesInv, AllFresh
<1>4. (TypeOK /\ AllFresh)' => (Frames = [i \in 1 .. Len(InputAges) |-> Frame(i)])'
  BY NothingStale, PTL
<1>5. \/ ClearsInput /\ Frames' = << >>
      \/ ~ClearsInput /\ \E used \in 0 .. Len(Frames) : Frames' = SubSeq(Frames, used + 1, Len(Frames))
  <2>1. CASE FollowAndClear
    <3>1. ClearsInput /\ Len(InputAges') = 0
      BY <2>1 DEF FollowAndClear
    <3>2. Frames' = [i \in 1 .. 0 |-> Frame(i)']
      BY <1>3, <1>4, <3>1
    <3> QED
      BY <3>1, <3>2
  <2>2. CASE FollowAndConsume /\ CanConsume
    <3>1. ~ClearsInput
      BY <2>2 DEF FollowAndConsume
    <3>2. DataIndex % 3 = 0
      BY <2>2, AlignedWhenConsumed DEF TypeInv
    <3>3. PICK k \in Nat : /\ k <= n
                           /\ InputAges' = RemoveFirst(InputAges, k)
                           /\ InputStream' = RemoveFirst(InputStream, FrameLen * k)
      BY <2>2, <3>2, ConsumeInLockstep DEF TypeInv
    <3>4. /\ Len(InputAges') = n - k
          /\ \A f \in 1 .. n - k : Frame(f)' = Frame(k + f)
      BY <1>1, <3>3, SuffixFrames DEF TypeInv
    <3>5. Frames' = [i \in 1 .. n - k |-> Frame(k + i)]
      BY <1>3, <1>4, <3>4
    <3>6. Frames \in Seq(FrameSet) /\ Len(Frames) = n
      <4>1. \A i \in 1 .. n : Frame(i) \in FrameSet
        BY <1>1, FrameType DEF TypeInv
      <4> QED
        BY <1>2, <4>1, SeqDef
    <3>7. k \in 0 .. n
      BY <3>3
    <3>8. SubSeq(Frames, k + 1, Len(Frames)) = [i \in 1 .. n - k |-> Frames[k + i]]
      BY <3>6, <3>7, CutIs
    <3>9. \A i \in 1 .. n - k : Frames[k + i] = Frame(k + i)
      BY <1>2, <3>7
    <3> QED
      BY <3>1, <3>5, <3>6, <3>7, <3>8, <3>9
  <2> QED
    BY <2>1, <2>2
<1>6. UNCHANGED StickAtom /\ (pc # "input") = TRUE /\ (pc' # "input") = FALSE
  BY <1>1 DEF EndTick, inputVars, StickAtom
<1>7. Queue!IsOpen(Way) /\ Way.to = Followed.Move /\ Way.clears = ClearsInput
  BY <1>1, WayIsOpen DEF Way
<1> QED
  BY <1>1, <1>5, <1>6, <1>7 DEF Queue!Go, EndTick, inputVars

\* No link to follow: time passes in the move.
LEMMA KeepMoveStays ==
    ASSUME KeepMove
    PROVE  Queue!Stay
<1>1. UNCHANGED StickAtom /\ (pc # "input") = TRUE /\ (pc' # "input") = FALSE
  BY DEF KeepMove, EndTick, inputVars, StickAtom
<1>2. Frames' = Frames
  BY SameFrames DEF KeepMove
<1> QED
  BY <1>1, <1>2 DEF Queue!Stay, KeepMove, EndTick, inputVars, Capped

LEMMA QueueStep ==
    ASSUME TypeInv, TypeOK', AgesInv, AgesInv', StreamsInLockstep, StreamsInLockstep',
           [Next]_vars
    PROVE  [Queue!Next]_(Queue!vars)
<1> TypeOK
  BY DEF TypeInv
<1>1. CASE UNCHANGED vars
  <2>1. Frames' = Frames
    BY <1>1, SameFrames DEF vars
  <2>2. UNCHANGED StickAtom /\ pc' = pc
    BY <1>1 DEF vars, inputVars, StickAtom
  <2> QED
    BY <1>1, <2>1, <2>2 DEF Queue!vars, vars, inputVars, moveVars
<1>2. CASE Callback
  BY <1>2, CallbackPlays DEF Queue!Next
<1>3. ASSUME NEW delta \in Deltas, Sample(delta)
      PROVE  [Queue!Next]_(Queue!vars)
  BY <1>3, SampleSamples DEF Queue!Next
<1>4. CASE Prune
  BY <1>4, PruneStutters
<1>5. CASE TryLink \/ RunState \/ LinkFails \/ (FollowAndConsume /\ ~CanConsume)
  <2>1. UNCHANGED bufferVars
    <3>1. CASE FollowAndConsume /\ ~CanConsume
      BY <3>1 DEF FollowAndConsume, Crash
    <3> QED
      BY <1>5, <3>1, BufferUnchanged
  <2>2. Frames' = Frames
    BY <2>1, SameFrames
  <2>3. pc # "input" /\ pc' # "input" /\ UNCHANGED <<inputVars, moveVars, DeltaSeconds>>
    BY <1>5 DEF TryLink, RunState, LinkFails, NextLink, FollowAndConsume, Accepted, Crash
  <2> QED
    BY <2>2, <2>3, MiddleStutters
<1>6. CASE FollowAndClear \/ (FollowAndConsume /\ CanConsume)
  <2>1. pc = "run"
    BY <1>6 DEF FollowAndClear, FollowAndConsume, Accepted
  <2>2. Way \in UNION {WaysOf(m) : m \in Moves}
    BY <2>1, WayIsOpen
  <2>3. Queue!Go(Way)
    BY <1>6, FollowGoes
  <2> QED
    BY <2>2, <2>3 DEF Queue!Next
<1>7. CASE KeepMove
  BY <1>7, KeepMoveStays DEF Queue!Next
<1>8. \/ UNCHANGED vars
      \/ Callback
      \/ \E delta \in Deltas : Sample(delta)
      \/ Prune
      \/ TryLink \/ RunState \/ LinkFails \/ (FollowAndConsume /\ ~CanConsume)
      \/ FollowAndClear \/ (FollowAndConsume /\ CanConsume)
      \/ KeepMove
  BY DEF Next, Tick
<1> QED
  BY <1>1, <1>2, <1>3, <1>4, <1>5, <1>6, <1>7, <1>8

LEMMA QueueInit == Init => Queue!Init
<1> SUFFICES ASSUME Init PROVE Queue!Init
  OBVIOUS
<1>1. InputAges = << >> /\ Len(InputAges) = 0
  BY DEF Init
<1>2. IsStale(0)
  BY <1>1 DEF IsStale
<1>3. Stale = 0
  BY <1>1, <1>2 DEF Stale, IsStale
<1>4. Frames = << >>
  BY <1>1, <1>3 DEF Frames
<1>5. (pc # "input") = FALSE
  BY DEF Init
<1> QED
  BY <1>4, <1>5, StickType DEF Init, Queue!Init

\* Where the two arrays are in lockstep, the pawn is the queue of frames of
\* FGBuffer, for every content: a frame per tick enters at the back, frames
\* leave whole and from the front, and each move taken is an open way.
THEOREM QueueImplemented == Spec /\ []StreamsInLockstep => ImplementsQueue
<1>1. Init => AgesInv
  BY DEF Init, AgesInv
<1>2. TypeOK /\ AgesInv /\ StreamsInLockstep /\ [Next]_vars => AgesInv'
  BY AgesStep
<1>3. TypeInv => TypeOK
  BY DEF TypeInv
<1>4. /\ TypeInv /\ TypeOK' /\ AgesInv /\ AgesInv' /\ StreamsInLockstep /\ StreamsInLockstep'
      /\ [Next]_vars
      => [Queue!Next]_(Queue!vars)
  BY QueueStep
<1> QED
  BY <1>1, <1>2, <1>3, <1>4, QueueInit, TypeInvariant, PTL
  DEF Spec, ImplementsQueue, Queue!Spec

\* In a build with checks the pawn is the queue, whatever the content is.
COROLLARY QueueInBuildsWithChecks ==
    ASSUME ~Shipping
    PROVE  Spec => ImplementsQueue
BY Lockstep, QueueImplemented, PTL

\* With sound content it is the queue in every build.
COROLLARY QueueWithSoundContent ==
    ASSUME NEW CONSTANT Phase, AlignedBy(Phase), LinksComplete
    PROVE  Spec => ImplementsQueue
BY NoCrash, QueueImplemented, PTL
-----------------------------------------------------------------------------
(* The first link that qualifies is followed.                               *)

\* What the machine of the current link says of the whole buffer.
Verdict == SM!Reference[0][Followed.InputStateMachine].completion

\* The links tried so far do not qualify, and the run in progress is on its way
\* to the verdict of the current link's machine, or has returned it.
LinksInv ==
    /\ pc \in {"links", "run"} => \A i \in 1 .. link - 1 : ~Qualifies(i)
    /\ pc = "run" =>
        /\ RemainingSteps < 0
        /\ Verdict = IF SM!Running THEN SM!Reference[DataIndex][smState].completion
                     ELSE CompletionType

\* Whether a link qualifies does not change while links are tried.
LEMMA SameQualifies ==
    ASSUME UNCHANGED <<bufferVars, moveVars>>
    PROVE  /\ \A i : Qualifies(i)' <=> Qualifies(i)
           /\ link' = link => Verdict' = Verdict
           /\ SM!Reference' = SM!Reference
<1>1. SM!Reference' = SM!Reference
  BY SM!SameReference DEF bufferVars
<1> QED
  BY <1>1 DEF Qualifies, IsOpen, InWindow, LinkedMoves, Verdict, Followed, moveVars

\* Going on to the next link is right if the current one does not qualify.
LEMMA NextLinkFirst ==
    ASSUME TypeInv, LinksInv, pc \in {"links", "run"}, NextLink, ~Qualifies(link)
    PROVE  LinksInv'
<1>1. link' = link + 1 /\ pc' = "links" /\ UNCHANGED <<bufferVars, moveVars>> /\ link \in Nat
  BY DEF NextLink, TypeInv, TypeOK
<1>2. \A i \in 1 .. link' - 1 : i \in 1 .. link - 1 \/ i = link
  BY <1>1
<1>3. \A i \in 1 .. link' - 1 : ~Qualifies(i)
  BY <1>2 DEF LinksInv
<1>4. \A i \in 1 .. link' - 1 : ~Qualifies(i)'
  BY <1>1, <1>3, SameQualifies
<1> QED
  BY <1>1, <1>4 DEF LinksInv

LEMMA TryLinkFirst ==
    ASSUME TypeInv, LinksInv, TryLink
    PROVE  LinksInv'
<1> DEFINE l == LinkedMoves[link]
<1>1. CASE ~Dereferenced(l)
  BY <1>1 DEF TryLink, Crash, LinksInv
<1>2. CASE Dereferenced(l) /\ ~IsOpen(l)
  <2>1. NextLink /\ pc = "links" /\ ~Qualifies(link)
    BY <1>2 DEF TryLink, Qualifies
  <2> QED
    BY <2>1, NextLinkFirst
<1>3. CASE Dereferenced(l) /\ IsOpen(l)
  <2>1. /\ SM!RunState(LinkAsset[l].InputStateMachine, 0, -1)
        /\ pc = "links" /\ pc' = "run" /\ link' = link
        /\ UNCHANGED <<bufferVars, moveVars>>
    BY <1>3 DEF TryLink
  <2>2. Verdict' = SM!Reference[0][LinkAsset[l].InputStateMachine].completion
    BY <2>1, SameQualifies DEF Verdict, Followed
  <2>3. (SM!Reference[DataIndex][smState].completion)'
          = SM!Reference[0][LinkAsset[l].InputStateMachine].completion
    BY <2>1, SameQualifies DEF SM!RunState
  <2>4. SM!Running' /\ RemainingSteps' < 0
    BY <2>1 DEF SM!RunState, SM!Running
  <2>5. \A i \in 1 .. link' - 1 : ~Qualifies(i)'
    BY <2>1, SameQualifies DEF LinksInv
  <2> QED
    BY <2>1, <2>2, <2>3, <2>4, <2>5 DEF LinksInv
<1> QED
  BY <1>1, <1>2, <1>3

\* A step of the run keeps the verdict in sight.
LEMMA RunStateFirst ==
    ASSUME TypeInv, LinksInv, RunState
    PROVE  LinksInv'
<1> DEFINE now == SM!Reference[DataIndex][smState]
           then == SM!Reference[DataIndex'][smState']
<1>1. /\ pc = "run" /\ pc' = "run" /\ link' = link /\ SM!RunStep
      /\ UNCHANGED <<bufferVars, moveVars>>
  BY BufferUnchanged DEF RunState
<1>2. /\ SM!RunTypeOK /\ Len(InputStream) \in Nat /\ SM!StateAssetOK
      /\ RemainingSteps \in Int /\ RemainingSteps < 0
  BY <1>1, LenProperties, ContentAssumption
  DEF TypeInv, TypeOK, RunsOpenLink, SM!RunTypeOK, LinksInv
<1>3. SM!RunTypeOK'
  BY <1>1, <1>2, SM!RunStepType
<1>4. SM!Running /\ Verdict = now.completion
  BY <1>1 DEF LinksInv, SM!RunStep, SM!EndNow, SM!RunOutOfSteps, SM!TakeTransition,
              SM!LoopState, SM!EndOnState, SM!MayStep
<1>5. now \in SM!Outcomes /\ then \in SM!Outcomes
  BY <1>2, <1>3, SM!ReferenceType DEF SM!RunTypeOK
<1>6. \/ /\ CompletionType' = SM!RUNNING
         /\ now = SM!After(then)
      \/ CompletionType' = now.completion
      \/ RemainingSteps = 0
  BY <1>1, <1>2, SM!ReferenceStep
<1>7. RemainingSteps' < 0
  <2>1. RemainingSteps' = RemainingSteps - 1 \/ RemainingSteps' = RemainingSteps
    BY <1>1, <1>2, SM!StepOfRun
  <2> QED
    BY <1>2, <2>1
<1>8. /\ Verdict' = Verdict /\ (SM!Reference[DataIndex][smState])' = then
      /\ \A i \in 1 .. link' - 1 : ~Qualifies(i)'
  BY <1>1, SameQualifies DEF LinksInv
<1> HIDE DEF now, then
<1>9. CASE CompletionType' = SM!RUNNING /\ now = SM!After(then)
  <2>1. now.completion = then.completion /\ SM!Running'
    BY <1>9 DEF SM!After, SM!Running
  <2> QED
    BY <1>1, <1>4, <1>7, <1>8, <2>1 DEF LinksInv
<1>10. CASE CompletionType' = now.completion
  <2>1. ~SM!Running'
    BY <1>5, <1>10 DEF SM!Outcomes, SM!Running, SM!RUNNING, SM!EditableCompletions
  <2> QED
    BY <1>1, <1>4, <1>7, <1>8, <1>10, <2>1 DEF LinksInv
<1> QED
  BY <1>2, <1>6, <1>9, <1>10

LEMMA LinksStep ==
    ASSUME TypeInv, LinksInv, [Next]_vars
    PROVE  LinksInv'
<1>1. CASE Callback
  BY <1>1 DEF Callback, ButtonPressed, ButtonReleased, ReadXAxis, ReadYAxis, LinksInv
<1>2. CASE \E delta \in Deltas : Sample(delta)
  BY <1>2 DEF Sample, LinksInv
<1>3. CASE Prune
  <2>1. pc' = "crashed" \/ (pc' = "links" /\ link' = 1)
    BY <1>3 DEF Prune, Crash
  <2> QED
    BY <2>1 DEF LinksInv
<1>4. CASE TryLink
  BY <1>4, TryLinkFirst
<1>5. CASE RunState
  BY <1>5, RunStateFirst
<1>6. CASE LinkFails
  <2>1. /\ pc = "run" /\ NextLink /\ CompletionType # "Accepted"
        /\ CompletionType \in SM!Completions
    BY <1>6 DEF LinkFails
  <2>2. ~SM!Running
    BY <2>1 DEF SM!Running, SM!RUNNING, SM!Completions, SM!EditableCompletions
  <2>3. ~Qualifies(link)
    BY <2>1, <2>2 DEF LinksInv, Qualifies, Verdict, Followed
  <2> QED
    BY <2>1, <2>3, NextLinkFirst
<1>7. CASE FollowAndClear \/ FollowAndConsume \/ KeepMove
  BY <1>7 DEF FollowAndClear, FollowAndConsume, KeepMove, EndTick, Crash, LinksInv
<1>8. CASE UNCHANGED vars
  <2>1. UNCHANGED <<bufferVars, moveVars>> /\ UNCHANGED <<pc, link, runVars>>
    BY <1>8 DEF vars
  <2>2. (SM!Reference[DataIndex][smState])' = SM!Reference[DataIndex][smState]
    BY <2>1, SameQualifies DEF runVars
  <2>3. \A i \in 1 .. link' - 1 : pc \in {"links", "run"} => ~Qualifies(i)'
    BY <2>1, SameQualifies DEF LinksInv
  <2> QED
    BY <2>1, <2>2, <2>3, SameQualifies DEF LinksInv, runVars, SM!Running
<1> QED
  BY <1>1, <1>2, <1>3, <1>4, <1>5, <1>6, <1>7, <1>8 DEF Next, Tick

\* Whatever the content and the player's input, the link a tick follows is the
\* first whose window is open and whose machine, run over the whole buffer,
\* accepts; the move is kept only if there is no such link.
THEOREM FirstQualifies == Spec => []FirstLinkWins
<1>1. Init => LinksInv
  BY DEF Init, LinksInv
<1>2. TypeInv /\ LinksInv /\ [Next]_vars => LinksInv'
  BY LinksStep
<1>3. TypeInv /\ LinksInv => FirstLinkWins
  <2> SUFFICES ASSUME TypeInv, LinksInv PROVE FirstLinkWins
    OBVIOUS
  <2>1. ASSUME Accepted
        PROVE  Qualifies(link) /\ \A i \in 1 .. link - 1 : ~Qualifies(i)
    <3>1. pc = "run" /\ CompletionType = "Accepted" /\ ~SM!Running
      BY <2>1 DEF Accepted, SM!Running, SM!RUNNING
    <3>2. Verdict = "Accepted" /\ LinkedMoves[link] # NULL /\ IsOpen(LinkedMoves[link])
      BY <3>1 DEF LinksInv, TypeInv, RunsOpenLink
    <3> QED
      BY <3>1, <3>2 DEF LinksInv, Qualifies, Verdict, Followed
  <2>2. ASSUME pc = "links", link > Len(LinkedMoves)
        PROVE  \A i \in DOMAIN LinkedMoves : ~Qualifies(i)
    <3>1. DOMAIN LinkedMoves = 1 .. Len(LinkedMoves) /\ Len(LinkedMoves) \in Nat
      BY LinkedMovesType, LenProperties DEF TypeInv
    <3>2. \A i \in DOMAIN LinkedMoves : i \in 1 .. link - 1
      BY <2>2, <3>1 DEF TypeInv, TypeOK
    <3> QED
      BY <2>2, <3>2 DEF LinksInv
  <2> QED
    BY <2>1, <2>2 DEF FirstLinkWins
<1> QED
  BY <1>1, <1>2, <1>3, TypeInvariant, PTL DEF Spec

-----------------------------------------------------------------------------
(* A press starts one move.                                                 *)

\* The union of states that wait for a press waits for one.
LEMMA NeedsPressWaits == NeedsPress \subseteq SM!States /\ WaitsForPress(NeedsPress)
<1>1. NeedsPress \subseteq SM!States
  BY DEF NeedsPress, SM!States
<1>2. ASSUME NEW s \in NeedsPress,
             NEW list \in {StateAsset[s].InstancedTransitions, StateAsset[s].SharedTransitions},
             NEW i \in DOMAIN list,
             list[i] # NULL, list[i].class = "SM_Transition", ~AsksForPress(list[i])
      PROVE  list[i].DestinationState \in NeedsPress \cup {NULL}
  <2>1. PICK W \in SUBSET DOMAIN StateAsset : s \in W /\ WaitsForPress(W)
    BY DEF NeedsPress
  <2>2. list[i].DestinationState \in W \cup {NULL}
    BY <1>2, <2>1 DEF WaitsForPress
  <2> QED
    BY <2>1, <2>2 DEF NeedsPress
<1>3. ASSUME NEW s \in NeedsPress
      PROVE  StateAsset[s].CompletionType # "Accepted"
  BY DEF NeedsPress, WaitsForPress
<1> QED
  BY <1>1, <1>2, <1>3 DEF WaitsForPress

\* What a state searches is in one of its two lists.
LEMMA SearchedIsListed ==
    ASSUME SM!StateAssetOK, NEW s \in SM!States, NEW i \in DOMAIN SM!Transitions(s)
    PROVE  \E list \in {StateAsset[s].InstancedTransitions, StateAsset[s].SharedTransitions} :
             \E j \in DOMAIN list : SM!Transitions(s)[i] = list[j]
<1> DEFINE I == StateAsset[s].InstancedTransitions
           S == StateAsset[s].SharedTransitions
<1>1. PICK A, B : I \in Seq(A) /\ S \in Seq(B)
  BY DEF SM!StateAssetOK, SM!IsState, SM!IsTransitionList
<1>2. SM!Transitions(s) = I \o S
  BY DEF SM!Transitions
<1>3. SUFFICES \/ \E j \in DOMAIN I : (I \o S)[i] = I[j]
               \/ \E j \in DOMAIN S : (I \o S)[i] = S[j]
  BY <1>2
<1> HIDE DEF I, S
<1>4. I \in Seq(A \cup B) /\ S \in Seq(A \cup B)
  BY <1>1
<1>5. /\ Len(I) \in Nat /\ Len(S) \in Nat
      /\ DOMAIN I = 1 .. Len(I) /\ DOMAIN S = 1 .. Len(S)
      /\ i \in 1 .. Len(I) + Len(S)
      /\ (I \o S)[i] = IF i <= Len(I) THEN I[i] ELSE S[i - Len(I)]
  BY <1>2, <1>4
<1>6. CASE i <= Len(I)
  BY <1>5, <1>6
<1>7. CASE ~(i <= Len(I))
  <2>1. i - Len(I) \in DOMAIN S /\ (I \o S)[i] = S[i - Len(I)]
    BY <1>5, <1>7
  <2> QED
    BY <2>1
<1> QED
  BY <1>6, <1>7

\* Among the first n atoms of the buffer is a press.
PressWithin(n) ==
    \E i \in 1 .. n : i <= Len(InputStream) /\ InputStream[i] = "JustPressed"

\* A machine that needs a press is still waiting for it or has read it, and
\* the state that accepted is one that accepts.
PressInv ==
    pc = "run" =>
        /\ CompletionType = "Accepted" => StateAsset[smState].CompletionType = "Accepted"
        /\ Followed.InputStateMachine \in NeedsPress
             => smState \in NeedsPress \/ PressWithin(DataIndex)

\* The transition that leads out of the states waiting reads a press.
LEMMA WayOutReadsPress ==
    ASSUME TypeInv, SM!StateAssetOK, SM!TakeTransition,
           smState \in NeedsPress, smState' \notin NeedsPress
    PROVE  DataIndex' = DataIndex + 1 /\ PressWithin(DataIndex')
<1>1. SM!IsValidIndex(DataIndex) /\ DataIndex \in Nat /\ smState \in SM!States
  BY NeedsPressWaits DEF TypeInv, TypeOK, SM!TakeTransition, SM!MayStep, SM!MustEndNow
<1>2. PICK i \in DOMAIN SM!Transitions(smState) :
        /\ SM!Succeeds(smState, i)
        /\ SM!RunState(SM!TryTransition(SM!Transitions(smState)[i]),
                       SM!OutDataIndex(SM!Transitions(smState)[i]), RemainingSteps - 1)
  BY DEF SM!TakeTransition, SM!IsFirstSuccess
<1>3. PICK list \in {StateAsset[smState].InstancedTransitions,
                     StateAsset[smState].SharedTransitions} :
        \E j \in DOMAIN list : SM!Transitions(smState)[i] = list[j]
  BY <1>1, SearchedIsListed
<1>4. PICK j \in DOMAIN list : SM!Transitions(smState)[i] = list[j]
  BY <1>3
<1> DEFINE t == list[j]
<1>5. /\ t # NULL /\ t.class = "SM_Transition"
      /\ t.DestinationState \in SM!States
      /\ SM!TryTransition(t) = t.DestinationState
      /\ SM!OutDataIndex(t) = DataIndex + 1
  BY <1>1, <1>2, <1>4, SM!SuccessType
<1>6. smState' = t.DestinationState /\ DataIndex' = DataIndex + 1
  BY <1>2, <1>4, <1>5 DEF SM!RunState
<1>7. AsksForPress(t)
  <2>1. t.DestinationState \notin NeedsPress \cup {NULL}
    BY <1>5, <1>6 DEF SM!StateAssetOK
  <2> QED
    BY <1>5, <2>1, NeedsPressWaits DEF WaitsForPress
<1>8. SM!Atom(DataIndex) \in t.AcceptableInputs
  <2>1. t.bReverseInputTest = FALSE
    <3>1. SM!IsTransition(t)
      BY <1>1, <1>4, <1>5, SM!TransitionsType
    <3> QED
      BY <1>7, <3>1 DEF SM!IsTransition, AsksForPress
  <2>2. SM!TryTransition(t) # NULL
    BY <1>5 DEF SM!StateAssetOK
  <2> HIDE DEF t
  <2> QED
    BY <1>5, <2>1, <2>2 DEF SM!TryTransition
<1>9. InputStream[DataIndex + 1] = "JustPressed"
  BY <1>7, <1>8 DEF AsksForPress, SM!Atom
<1>10. DataIndex + 1 <= Len(InputStream) /\ InputStream' = InputStream
  BY <1>1, LenProperties DEF SM!IsValidIndex, SM!TakeTransition, TypeInv, TypeOK
<1> QED
  BY <1>1, <1>6, <1>9, <1>10 DEF PressWithin

LEMMA RunStatePress ==
    ASSUME TypeInv, PressInv, RunState
    PROVE  PressInv'
<1>1. /\ pc = "run" /\ pc' = "run" /\ UNCHANGED Followed /\ UNCHANGED InputStream
      /\ SM!RunStep /\ SM!StateAssetOK
  BY BufferUnchanged, ContentAssumption
  DEF RunState, Followed, LinkedMoves, moveVars, bufferVars
<1>2. SM!RunTypeOK
  BY <1>1 DEF TypeInv, TypeOK, RunsOpenLink, SM!RunTypeOK
<1>3. CompletionType' = "Accepted" => (StateAsset[smState].CompletionType = "Accepted")'
  <2>1. \/ CompletionType' = SM!RUNNING
        \/ UNCHANGED smState /\ CompletionType' = StateAsset[smState].CompletionType
        \/ CompletionType' = "OutOfSteps"
    BY <1>1, <1>2, SM!StepOfRun
  <2> QED
    BY <2>1 DEF SM!RUNNING
<1>4. ASSUME PressWithin(DataIndex)
      PROVE  PressWithin(DataIndex)'
  <2>1. DataIndex' \in Nat /\ DataIndex \in Nat /\ DataIndex' >= DataIndex
    <3>1. SM!LoopStride(smState) \in Nat
      BY DEF SM!LoopStride
    <3>2. \/ DataIndex' = DataIndex
          \/ DataIndex' = DataIndex + 1
          \/ DataIndex' = DataIndex + SM!LoopStride(smState)
      BY <1>1, <1>2, SM!StepOfRun DEF SM!Follows, SM!Loops
    <3> QED
      BY <1>2, <3>1, <3>2 DEF SM!RunTypeOK
  <2> QED
    BY <1>1, <1>4, <2>1 DEF PressWithin
<1>5. ASSUME smState \in NeedsPress, smState' \notin NeedsPress
      PROVE  PressWithin(DataIndex)'
  <2>1. SM!TakeTransition
    BY <1>1, <1>5
    DEF SM!RunStep, SM!EndNow, SM!RunOutOfSteps, SM!LoopState, SM!EndOnState,
        SM!Return, SM!RunState
  <2>2. PressWithin(DataIndex')
    BY <1>1, <1>5, <2>1, WayOutReadsPress
  <2> QED
    BY <1>1, <2>2 DEF PressWithin
<1> QED
  BY <1>1, <1>3, <1>4, <1>5 DEF PressInv

LEMMA PressStep ==
    ASSUME TypeInv, PressInv, [Next]_vars
    PROVE  PressInv'
<1>1. CASE RunState
  BY <1>1, RunStatePress
<1>2. CASE TryLink
  <2>1. CASE pc' # "run"
    BY <2>1 DEF PressInv
  <2>2. CASE pc' = "run"
    <3>1. /\ SM!RunState(Followed.InputStateMachine, 0, -1)
          /\ UNCHANGED <<moveVars, link>>
      BY <1>2, <2>2 DEF TryLink, Crash, NextLink, Followed
    <3>2. Followed' = Followed
      BY <3>1 DEF Followed, LinkedMoves, moveVars
    <3> QED
      BY <3>1, <3>2 DEF PressInv, SM!RunState, SM!RUNNING
  <2> QED
    BY <2>1, <2>2
<1>3. CASE UNCHANGED vars
  BY <1>3 DEF PressInv, PressWithin, Followed, LinkedMoves, vars, bufferVars, moveVars, runVars
<1>4. CASE Callback \/ (\E delta \in Deltas : Sample(delta)) \/ Prune
             \/ LinkFails \/ FollowAndClear \/ FollowAndConsume \/ KeepMove
  <2>1. pc' # "run"
    BY <1>4 DEF Callback, ButtonPressed, ButtonReleased, ReadXAxis, ReadYAxis, Sample, Prune,
                LinkFails, NextLink, FollowAndClear, FollowAndConsume, KeepMove, EndTick, Crash
  <2> QED
    BY <2>1 DEF PressInv
<1> QED
  BY <1>1, <1>2, <1>3, <1>4 DEF Next, Tick

\* The presses of a sequence are finitely many.
PressesIn(s) == {i \in DOMAIN s : s[i] = "JustPressed"}

LEMMA PressesFinite ==
    ASSUME NEW S, NEW s \in Seq(S)
    PROVE  /\ IsFiniteSet(PressesIn(s))
           /\ PressCount(s) = Cardinality(PressesIn(s))
           /\ PressCount(s) \in Nat
<1>1. DOMAIN s = 1 .. Len(s) /\ Len(s) \in Nat
  BY LenProperties
<1>2. IsFiniteSet(1 .. Len(s))
  BY <1>1, FS_Interval
<1>3. IsFiniteSet(PressesIn(s))
  BY <1>1, <1>2, FS_Subset DEF PressesIn
<1> QED
  BY <1>3, FS_CardinalityType DEF PressCount, PressesIn

\* Cutting a press off the front leaves fewer.
LEMMA CutCounts ==
    ASSUME NEW S, NEW s \in Seq(S), NEW n \in Nat, n <= Len(s),
           NEW p \in 1 .. n, s[p] = "JustPressed"
    PROVE  PressCount(RemoveFirst(s, n)) < PressCount(s)
<1> DEFINE r == RemoveFirst(s, n)
           move == [i \in PressesIn(r) |-> i + n]
<1>1. /\ DOMAIN s = 1 .. Len(s) /\ Len(s) \in Nat
      /\ r \in Seq(S)
      /\ DOMAIN r = 1 .. Len(s) - n
      /\ \A i \in 1 .. Len(s) - n : r[i] = s[i + n]
  BY RemoveFirstProperties, LenProperties
<1> HIDE DEF r
<1>2. p \in PressesIn(s)
  BY <1>1 DEF PressesIn
<1>3. \A i \in PressesIn(r) : i \in Nat /\ i + n \in PressesIn(s) \ {p}
  BY <1>1 DEF PressesIn
<1>4. move \in [PressesIn(r) -> PressesIn(s) \ {p}]
  BY <1>3
<1>5. \A a, b \in PressesIn(r) : move[a] = move[b] => a = b
  BY <1>3
<1> HIDE DEF move
<1>6. move \in Injection(PressesIn(r), PressesIn(s) \ {p})
  BY <1>4, <1>5 DEF Injection, IsInjective
<1>7. /\ IsFiniteSet(PressesIn(s) \ {p})
      /\ Cardinality(PressesIn(s) \ {p}) = Cardinality(PressesIn(s)) - 1
  BY <1>2, PressesFinite, FS_RemoveElement
<1>8. Cardinality(PressesIn(r)) <= Cardinality(PressesIn(s) \ {p})
  BY <1>6, <1>7, FS_Injection
<1>9. /\ PressCount(r) = Cardinality(PressesIn(r)) /\ PressCount(r) \in Nat
      /\ PressCount(s) = Cardinality(PressesIn(s)) /\ PressCount(s) \in Nat
  BY <1>1, PressesFinite
<1> QED
  BY <1>7, <1>8, <1>9 DEF r

LEMMA ClearCounts ==
    ASSUME NEW S, NEW s \in Seq(S), NEW p \in DOMAIN s, s[p] = "JustPressed"
    PROVE  PressCount(<< >>) < PressCount(s)
<1>1. PressesIn(<< >>) = {} /\ PressesIn(s) # {}
  BY DEF PressesIn
<1>2. PressCount(<< >>) = 0 /\ PressCount(s) # 0
  BY <1>1, PressesFinite, FS_EmptySet DEF PressCount, PressesIn
<1> QED
  BY <1>2, PressesFinite

LEMMA FollowTakesPress ==
    ASSUME TypeInv, PressInv, [Next]_vars,
           Accepted, Followed.InputStateMachine \in NeedsPress, pc' = "input"
    PROVE  PressCount(InputStream') < PressCount(InputStream)
<1>1. PICK p \in 1 .. DataIndex : p <= Len(InputStream) /\ InputStream[p] = "JustPressed"
  <2>1. smState \notin NeedsPress
    BY NeedsPressWaits DEF PressInv, Accepted, WaitsForPress
  <2> QED
    BY <2>1 DEF PressInv, Accepted, PressWithin
<1>2. /\ InputStream \in Seq(Atoms) /\ DataIndex \in Nat
      /\ DOMAIN InputStream = 1 .. Len(InputStream) /\ Len(InputStream) \in Nat
  BY LenProperties DEF TypeInv, TypeOK
<1>3. FollowAndClear \/ (FollowAndConsume /\ CanConsume)
  <2>1. pc = "run" /\ CompletionType = "Accepted"
    BY DEF Accepted
  <2> QED
    BY <2>1 DEF Next, Tick, Callback, ButtonPressed, ButtonReleased, ReadXAxis, ReadYAxis,
                Sample, Prune, TryLink, RunState, LinkFails, FollowAndConsume, KeepMove,
                Crash, vars
<1>4. CASE FollowAndClear
  BY <1>1, <1>2, <1>4, ClearCounts DEF FollowAndClear
<1>5. CASE FollowAndConsume /\ CanConsume
  <2>1. InputStream' = RemoveFirst(InputStream, DataIndex) /\ DataIndex <= Len(InputStream)
    BY <1>5 DEF FollowAndConsume, CanConsume
  <2> QED
    BY <1>1, <1>2, <2>1, CutCounts
<1> QED
  BY <1>3, <1>4, <1>5

\* Whatever the machines and the links are, a link whose machine accepts only
\* behind a press takes that press out of the buffer, by clearing it or by
\* consuming what the machine has read: it starts no second move.
THEOREM PressesTaken == Spec => PressesConsumed
<1>1. Init => PressInv
  BY DEF Init, PressInv
<1>2. TypeInv /\ PressInv /\ [Next]_vars => PressInv'
  BY PressStep
<1>3. TypeInv /\ PressInv /\ [Next]_vars
      => [Accepted /\ Followed.InputStateMachine \in NeedsPress /\ pc' = "input"
            => PressCount(InputStream') < PressCount(InputStream)]_vars
  BY FollowTakesPress
<1> QED
  BY <1>1, <1>2, <1>3, TypeInvariant, PTL DEF Spec, PressesConsumed

=============================================================================

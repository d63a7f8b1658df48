------------------------------- MODULE SMState -------------------------------
(****************************************************************************)
(* The state-machine runner of the BasicStateMachine plugin                 *)
(* (USM_State::RunState, USM_State::LoopState, USM_Transition) with the     *)
(* game's two subclasses, UFGState and UFGInputTransition.                  *)
(*                                                                          *)
(* RunState is tail recursive: every call either returns a result or makes  *)
(* exactly one further call.  A call is one step here, so a run is a        *)
(* behaviour, `smState', `DataIndex' and `RemainingSteps' are the arguments *)
(* of the call in progress and `CompletionType' is RUNNING until the run    *)
(* returns.  DataIndex is 0-based, as in the code; the sequence DataSource  *)
(* is 1-based.                                                              *)
(*                                                                          *)
(* The assets an editor creates are the constant StateAsset.                *)
(****************************************************************************)
EXTENDS Integers, Sequences, FiniteSetTheorems, WellFoundedInduction, TLAPS

CONSTANTS
    NULL,        \* the null pointer
    StateAsset   \* the state assets: [name -> record], see StateAssetOK

VARIABLES
    DataSource,      \* the input atoms being read; never written by a run
    smState,         \* `this' of the current RunState call
    DataIndex,
    RemainingSteps,
    CompletionType   \* RUNNING, or the result of the finished run

smVars == <<smState, DataIndex, RemainingSteps, CompletionType>>

States == DOMAIN StateAsset

RUNNING == "Running"

\* EStateMachineCompletionType; OutOfSteps is hidden from the editor.
EditableCompletions == {"NotAccepted", "Accepted", "Rejected"}
Completions == EditableCompletions \cup {"OutOfSteps"}

\* UPROPERTYs of a transition: the subclass is part of the asset.
IsTransition(t) ==
    /\ t.class \in {"SM_Transition", "FGInputTransition"}
    /\ t.bReverseInputTest \in BOOLEAN
    /\ t.DestinationState \in States \cup {NULL}

\* A list of transitions may hold null entries.
IsTransitionList(list) ==
    /\ list \in Seq({list[i] : i \in DOMAIN list})
    /\ \A i \in DOMAIN list : list[i] = NULL \/ IsTransition(list[i])

IsState(a) ==
    /\ a.class \in {"SM_State", "FGState"}
    /\ a.CompletionType \in EditableCompletions
    /\ a.bTerminateImmediately \in BOOLEAN
    /\ a.bLoopByDefault \in BOOLEAN
    /\ IsTransitionList(a.InstancedTransitions)
    /\ IsTransitionList(a.SharedTransitions)

StateAssetOK == NULL \notin States /\ \A s \in States : IsState(StateAsset[s])

-----------------------------------------------------------------------------
IsValidIndex(i) == i \in 0 .. Len(DataSource) - 1

Atom(i) == DataSource[i + 1]

\* TryTransition: the destination, or NULL.  UFGInputTransition overrides it
\* with a body that returns nullptr whatever it is given.
TryTransition(t) ==
    IF t.class = "FGInputTransition" THEN NULL
    ELSE LET found == IsValidIndex(DataIndex) /\ Atom(DataIndex) \in t.AcceptableInputs
         IN  IF found # t.bReverseInputTest THEN t.DestinationState ELSE NULL

\* Variant: a transition that does not consume what it read.
OutDataIndexOfReader(t) == DataIndex

\* The OutDataIndex of TryTransition.
OutDataIndex(t) == IF t.class = "FGInputTransition" THEN DataIndex ELSE DataIndex + 1

\* Variant: shared transitions first.
TransitionsSharedFirst(s) ==
    StateAsset[s].SharedTransitions \o StateAsset[s].InstancedTransitions

\* RunState tries InstancedTransitions, then SharedTransitions.
Transitions(s) == StateAsset[s].InstancedTransitions \o StateAsset[s].SharedTransitions

\* Variant: the result of TryTransition is followed without a null test.
SucceedsUntested(s, i) == Transitions(s)[i] # NULL

Succeeds(s, i) ==
    /\ Transitions(s)[i] # NULL
    /\ TryTransition(Transitions(s)[i]) # NULL

\* Variant: the search goes on after a success and the last one is taken.
IsLastSuccess(s, i) ==
    Succeeds(s, i) /\ \A j \in DOMAIN Transitions(s) : j > i => ~Succeeds(s, j)

IsFirstSuccess(s, i) ==
    Succeeds(s, i) /\ \A j \in 1 .. i - 1 : ~Succeeds(s, j)

NoneSucceeds(s) == \A i \in DOMAIN Transitions(s) : ~Succeeds(s, i)

MustEndNow ==
    StateAsset[smState].bTerminateImmediately \/ ~IsValidIndex(DataIndex)

\* How far LoopState moves on: an FGState skips one whole frame of input,
\* the direction atom and EFGInputButtons::Count button atoms.
LoopStride(s) == IF StateAsset[s].class = "FGState" THEN 3 ELSE 1

-----------------------------------------------------------------------------
(* One step is one call of RunState.                                        *)

Running == CompletionType = RUNNING

RunState(s, i, n) ==
    /\ smState' = s
    /\ DataIndex' = i
    /\ RemainingSteps' = n
    /\ CompletionType' = RUNNING

Return(c) ==
    /\ CompletionType' = c
    /\ UNCHANGED <<smState, DataIndex, RemainingSteps>>

\* The state terminates the run, or the input is exhausted.
EndNow ==
    /\ Running
    /\ MustEndNow
    /\ Return(StateAsset[smState].CompletionType)
    /\ UNCHANGED DataSource

RunOutOfSteps ==
    /\ Running
    /\ ~MustEndNow
    /\ RemainingSteps = 0
    /\ Return("OutOfSteps")
    /\ UNCHANGED DataSource

\* Variant: the test of RemainingSteps is missing.
MayStepUnbounded == Running /\ ~MustEndNow

MayStep == Running /\ ~MustEndNow /\ RemainingSteps # 0

TakeTransition ==
    /\ MayStep
    /\ \E i \in DOMAIN Transitions(smState) :
        /\ IsFirstSuccess(smState, i)
        /\ LET t == Transitions(smState)[i]
           IN  RunState(TryTransition(t), OutDataIndex(t), RemainingSteps - 1)
    /\ UNCHANGED DataSource

LoopState ==
    /\ MayStep
    /\ NoneSucceeds(smState)
    /\ StateAsset[smState].bLoopByDefault
    /\ RunState(smState, DataIndex + LoopStride(smState), RemainingSteps - 1)
    /\ UNCHANGED DataSource

\* No transition is acceptable and the state does not loop.
EndOnState ==
    /\ MayStep
    /\ NoneSucceeds(smState)
    /\ ~StateAsset[smState].bLoopByDefault
    /\ Return(StateAsset[smState].CompletionType)
    /\ UNCHANGED DataSource

RunStep == EndNow \/ RunOutOfSteps \/ TakeTransition \/ LoopState \/ EndOnState

\* A run in progress or just finished.
RunTypeOK ==
    /\ smState \in States
    /\ DataIndex \in Nat
    /\ RemainingSteps \in Int
    /\ CompletionType \in Completions \cup {RUNNING}

-----------------------------------------------------------------------------
(* The big-step reference: what a call returns when steps are unlimited,    *)
(* and how many states consult their transitions on the way (each needs a   *)
(* step of the budget), written as one recursion on the input that is left. *)

Listed(s) == StateAsset[s].InstancedTransitions \o StateAsset[s].SharedTransitions

Opens(s, i, k) ==
    /\ k \in DOMAIN Listed(s)
    /\ LET t == Listed(s)[k]
       IN  /\ t # NULL /\ t.class = "SM_Transition" /\ t.DestinationState # NULL
           /\ (DataSource[i + 1] \in t.AcceptableInputs) # t.bReverseInputTest

FirstOpen(s, i) ==
    {k \in DOMAIN Listed(s) : Opens(s, i, k) /\ \A j \in 1 .. k - 1 : ~Opens(s, i, j)}

Ending(s, i) ==
    [state |-> s, index |-> i, completion |-> StateAsset[s].CompletionType, steps |-> 0]

After(r) ==
    [state |-> r.state, index |-> r.index, completion |-> r.completion, steps |-> r.steps + 1]

\* The outcome in state s at index i; `rest' is the reference further on.
Outcome(rest, s, i) ==
    LET asset == StateAsset[s]
        first == FirstOpen(s, i)
        skip == IF asset.class = "FGState" THEN 3 ELSE 1
    IN  IF asset.bTerminateImmediately \/ i >= Len(DataSource) THEN Ending(s, i)
        ELSE IF first # {}
             THEN After(rest[i + 1][Listed(s)[CHOOSE k \in first : TRUE].DestinationState])
        ELSE IF asset.bLoopByDefault THEN After(rest[i + skip][s])
        ELSE After(Ending(s, i))

Reference[i \in Nat] == [s \in States |-> Outcome(Reference, s, i)]

-----------------------------------------------------------------------------
(* Lemmas about the runner, for whatever module runs it.                    *)

\* The list a state searches, instanced before shared transitions, is a
\* sequence of transitions and null entries.
LEMMA TransitionsType ==
    ASSUME StateAssetOK, NEW s \in States
    PROVE  /\ DOMAIN Transitions(s) = 1 .. Len(Transitions(s))
           /\ Len(Transitions(s)) \in Nat
           /\ \A i \in DOMAIN Transitions(s) :
                Transitions(s)[i] = NULL \/ IsTransition(Transitions(s)[i])
<1> DEFINE I == StateAsset[s].InstancedTransitions
           S == StateAsset[s].SharedTransitions
<1>1. IsTransitionList(I) /\ IsTransitionList(S)
  BY DEF StateAssetOK, IsState
<1>2. PICK A, B : I \in Seq(A) /\ S \in Seq(B)
  BY <1>1 DEF IsTransitionList
<1>3. I \in Seq(A \cup B) /\ S \in Seq(A \cup B)
  BY <1>2
<1>4. Transitions(s) = I \o S
  BY DEF Transitions
<1>5. \A i \in DOMAIN I : I[i] = NULL \/ IsTransition(I[i])
  BY <1>1 DEF IsTransitionList
<1>6. \A i \in DOMAIN S : S[i] = NULL \/ IsTransition(S[i])
  BY <1>1 DEF IsTransitionList
<1> HIDE DEF I, S
<1>7. /\ Len(I) \in Nat /\ Len(S) \in Nat
      /\ DOMAIN I = 1 .. Len(I) /\ DOMAIN S = 1 .. Len(S)
      /\ DOMAIN (I \o S) = 1 .. Len(I) + Len(S)
      /\ Len(I \o S) = Len(I) + Len(S)
      /\ \A i \in 1 .. Len(I) + Len(S) :
           (I \o S)[i] = IF i <= Len(I) THEN I[i] ELSE S[i - Len(I)]
  BY <1>3
<1>8. ASSUME NEW i \in DOMAIN Transitions(s)
      PROVE  Transitions(s)[i] = NULL \/ IsTransition(Transitions(s)[i])
  <2>1. i \in 1 .. Len(I) + Len(S)
    BY <1>4, <1>7, <1>8
  <2>2. CASE i <= Len(I)
    <3>1. i \in DOMAIN I /\ Transitions(s)[i] = I[i]
      BY <1>4, <1>7, <2>1, <2>2
    <3> QED
      BY <1>5, <3>1
  <2>3. CASE ~(i <= Len(I))
    <3>1. i - Len(I) \in DOMAIN S /\ Transitions(s)[i] = S[i - Len(I)]
      BY <1>4, <1>7, <2>1, <2>3
    <3> QED
      BY <1>6, <3>1
  <2> QED
    BY <2>2, <2>3
<1> QED
  BY <1>4, <1>7, <1>8

\* A transition that succeeds is a USM_Transition: it leads to its destination
\* and consumes one atom.
LEMMA SuccessType ==
    ASSUME StateAssetOK, NEW s \in States, DataIndex \in Nat,
           NEW i \in DOMAIN Transitions(s), Succeeds(s, i)
    PROVE  LET t == Transitions(s)[i]
           IN  /\ t # NULL
               /\ t.class = "SM_Transition"
               /\ t.DestinationState \in States
               /\ TryTransition(t) = t.DestinationState
               /\ OutDataIndex(t) = DataIndex + 1
<1> DEFINE t == Transitions(s)[i]
<1>1. IsTransition(t) /\ t # NULL
  BY TransitionsType DEF Succeeds
<1>2. TryTransition(t) # NULL
  BY DEF Succeeds
<1>3. t.class # "FGInputTransition"
  BY <1>2 DEF TryTransition
<1>4. TryTransition(t) = t.DestinationState
  BY <1>2, <1>3 DEF TryTransition
<1> HIDE DEF t
<1>5. t.class = "SM_Transition" /\ t.DestinationState \in States
  BY <1>1, <1>2, <1>3, <1>4 DEF IsTransition
<1>6. OutDataIndex(t) = DataIndex + 1
  BY <1>3 DEF OutDataIndex
<1> QED
  BY <1>1, <1>4, <1>5, <1>6 DEF t

\* What one call of RunState does.  It goes on behind a valid index, spending
\* one step: by a transition, by one atom; looping, by one atom or, on an
\* FGState, by a frame.  Or it returns, without moving.
Follows(s) ==
    /\ DataIndex' = DataIndex + 1
    /\ \E i \in DOMAIN Transitions(s) :
         /\ Transitions(s)[i] # NULL
         /\ Transitions(s)[i].class = "SM_Transition"
         /\ Transitions(s)[i].DestinationState \in States
         /\ smState' = Transitions(s)[i].DestinationState

Loops(s) ==
    /\ DataIndex' = DataIndex + LoopStride(s)
    /\ smState' = s
    /\ StateAsset[s].bLoopByDefault

LEMMA StepOfRun ==
    ASSUME StateAssetOK, RunTypeOK, RunStep
    PROVE  \/ /\ IsValidIndex(DataIndex)
              /\ RemainingSteps # 0
              /\ RemainingSteps' = RemainingSteps - 1
              /\ CompletionType' = RUNNING
              /\ Follows(smState) \/ Loops(smState)
           \/ /\ UNCHANGED <<smState, DataIndex, RemainingSteps>>
              /\ CompletionType' = StateAsset[smState].CompletionType
              /\ CompletionType' \in EditableCompletions
           \/ /\ UNCHANGED <<smState, DataIndex, RemainingSteps>>
              /\ CompletionType' = "OutOfSteps"
              /\ RemainingSteps = 0
<1>1. StateAsset[smState].CompletionType \in EditableCompletions
  BY DEF StateAssetOK, IsState, RunTypeOK
<1>2. CASE EndNow
  BY <1>1, <1>2 DEF EndNow, Return
<1>3. CASE RunOutOfSteps
  BY <1>3 DEF RunOutOfSteps, Return
<1>4. CASE EndOnState
  BY <1>1, <1>4 DEF EndOnState, Return
<1>5. CASE LoopState
  BY <1>5 DEF LoopState, RunState, Loops, MayStep, MustEndNow
<1>6. CASE TakeTransition
  <2>1. IsValidIndex(DataIndex) /\ RemainingSteps # 0
    BY <1>6 DEF TakeTransition, MayStep, MustEndNow
  <2>2. PICK i \in DOMAIN Transitions(smState) :
          /\ Succeeds(smState, i)
          /\ RunState(TryTransition(Transitions(smState)[i]),
                      OutDataIndex(Transitions(smState)[i]), RemainingSteps - 1)
    BY <1>6 DEF TakeTransition, IsFirstSuccess
  <2>3. smState \in States /\ DataIndex \in Nat
    BY DEF RunTypeOK
  <2>4. Follows(smState)
    BY <2>2, <2>3, SuccessType DEF RunState, Follows
  <2> QED
    BY <2>1, <2>2, <2>4 DEF RunState
<1> QED
  BY <1>2, <1>3, <1>4, <1>5, <1>6 DEF RunStep

\* A step of a run keeps the types of its variables, whatever the assets are.
LEMMA RunStepType ==
    ASSUME StateAssetOK, RunTypeOK, RunStep
    PROVE  RunTypeOK'
<1>1. LoopStride(smState) \in Nat
  BY DEF LoopStride
<1>2. CASE CompletionType' = RUNNING /\ (Follows(smState) \/ Loops(smState))
             /\ RemainingSteps' = RemainingSteps - 1
  BY <1>1, <1>2 DEF RunTypeOK, Follows, Loops
<1>3. CASE UNCHANGED <<smState, DataIndex, RemainingSteps>>
             /\ CompletionType' \in Completions
  BY <1>3 DEF RunTypeOK
<1> QED
  BY <1>2, <1>3, StepOfRun DEF Completions


-----------------------------------------------------------------------------
(* The reference is well defined, though its definition is recursive: the   *)
(* input left gets shorter, so there is an outcome from every index.        *)

\* A non-empty set of naturals has a least one.
LEMMA LeastNumber ==
    ASSUME NEW T, T \subseteq Nat, T # {}
    PROVE  \E n \in T : \A m \in T : n <= m
<1> DEFINE S == {1 .. n : n \in T}
<1>1. S # {}
  OBVIOUS
<1>2. \A y \in S : y \in SUBSET Nat
  OBVIOUS
<1>3. \A n \in T : 1 .. n \in S
  OBVIOUS
<1>4. \A y \in S : \E n \in T : y = 1 .. n
  OBVIOUS
<1>5. S \subseteq FiniteSubsetsOf(Nat)
  <2> SUFFICES ASSUME NEW n \in T PROVE 1 .. n \in FiniteSubsetsOf(Nat)
    OBVIOUS
  <2>1. IsFiniteSet(1 .. n)
    BY FS_Interval
  <2> QED
    BY <2>1 DEF FiniteSubsetsOf
<1> HIDE DEF S
<1>6. PICK x \in S : \A y \in S : ~(<<y, x>> \in StrictSubsetOrdering(Nat))
  BY <1>1, <1>5, FS_StrictSubsetOrderingWellFounded, WFMin
<1>7. \A y \in S : ~(y \subseteq x /\ y # x)
  BY <1>2, <1>6 DEF StrictSubsetOrdering
<1>8. PICK n \in T : x = 1 .. n
  BY <1>4
<1>9. ASSUME NEW m \in T, m < n PROVE FALSE
  <2>1. m \in Nat /\ n \in Nat
    OBVIOUS
  <2>2. 1 .. m \subseteq 1 .. n /\ n \in 1 .. n /\ n \notin 1 .. m
    BY <1>9, <2>1
  <2> QED
    BY <1>3, <1>7, <1>8, <2>2
<1> QED
  BY <1>9

\* Induction from the end of the input towards its beginning.
LEMMA FromTheEnd ==
    ASSUME NEW P, NEW n \in Nat, \A i \in Nat : i >= n => i \in P,
           \A i \in Nat : (\A j \in Nat : j > i => j \in P) => i \in P
    PROVE  Nat \subseteq P
<1> DEFINE T == {m \in Nat : m <= n /\ n - m \notin P}
<1>1. CASE T = {}
  <2>1. ASSUME NEW i \in Nat, i < n PROVE i \in P
    <3>1. n - i \in Nat /\ n - i <= n /\ n - (n - i) = i
      BY <2>1
    <3> QED
      BY <1>1, <3>1
  <2> QED
    BY <2>1
<1>2. CASE T # {}
  <2>1. ASSUME NEW i \in Nat, i \notin P PROVE \E j \in Nat : j > i /\ j \notin P
    BY <2>1
  <2>2. PICK m \in T : \A k \in T : m <= k
    <3>1. T \subseteq Nat
      OBVIOUS
    <3> HIDE DEF T
    <3> QED
      BY <1>2, <3>1, LeastNumber
  <2>3. m \in Nat /\ m <= n /\ n - m \notin P /\ n - m \in Nat
    OBVIOUS
  <2>4. PICK j \in Nat : j > n - m /\ j \notin P
    BY <2>1, <2>3
  <2>5. j < n
    BY <2>4
  <2>6. n - j \in Nat /\ n - j <= n /\ n - (n - j) = j /\ n - j < m
    BY <2>3, <2>4, <2>5
  <2>7. n - j \in T
    BY <2>4, <2>6
  <2> QED
    BY <2>2, <2>3, <2>6, <2>7
<1> QED
  BY <1>1, <1>2

\* What the reference may say.
Outcomes == [state : States, index : Nat, completion : EditableCompletions, steps : Nat]

LEMMA DestinationType ==
    ASSUME StateAssetOK, NEW s \in States, NEW i, NEW k \in FirstOpen(s, i)
    PROVE  Listed(s)[k].DestinationState \in States
<1>1. k \in DOMAIN Listed(s) /\ Opens(s, i, k)
  BY DEF FirstOpen
<1>2. Listed(s) = Transitions(s)
  BY DEF Listed, Transitions
<1>3. Listed(s)[k] = NULL \/ IsTransition(Listed(s)[k])
  BY <1>1, <1>2, TransitionsType
<1>4. Listed(s)[k] # NULL /\ Listed(s)[k].DestinationState # NULL
  BY <1>1 DEF Opens
<1> QED
  BY <1>3, <1>4 DEF IsTransition

\* What one state makes of the outcomes further on, by cases.
LEMMA OutcomeCases ==
    ASSUME StateAssetOK, NEW s \in States, NEW i \in Nat
    PROVE  \/ \A R : Outcome(R, s, i) = Ending(s, i)
           \/ \A R : Outcome(R, s, i) = After(Ending(s, i))
           \/ \E j \in Nat : j > i /\ \E t \in States :
                \A R : Outcome(R, s, i) = After(R[j][t])
<1> DEFINE first == FirstOpen(s, i)
           skip == IF StateAsset[s].class = "FGState" THEN 3 ELSE 1
           k == CHOOSE k \in first : TRUE
           d == Listed(s)[k].DestinationState
<1>1. \A R : Outcome(R, s, i) =
        IF StateAsset[s].bTerminateImmediately \/ i >= Len(DataSource) THEN Ending(s, i)
        ELSE IF first # {} THEN After(R[i + 1][d])
        ELSE IF StateAsset[s].bLoopByDefault THEN After(R[i + skip][s])
        ELSE After(Ending(s, i))
  BY DEF Outcome
<1>2. first # {} => d \in States
  <2>1. first # {} => k \in first
    OBVIOUS
  <2> QED
    BY <2>1, DestinationType
<1>3. i + 1 \in Nat /\ i + 1 > i /\ i + skip \in Nat /\ i + skip > i
  OBVIOUS
<1> HIDE DEF first, skip, k, d
<1>4. CASE StateAsset[s].bTerminateImmediately \/ i >= Len(DataSource)
  BY <1>1, <1>4
<1>5. CASE ~(StateAsset[s].bTerminateImmediately \/ i >= Len(DataSource)) /\ first # {}
  <2>1. \A R : Outcome(R, s, i) = After(R[i + 1][d])
    BY <1>1, <1>5
  <2> QED
    BY <1>2, <1>3, <1>5, <2>1
<1>6. CASE /\ ~(StateAsset[s].bTerminateImmediately \/ i >= Len(DataSource))
           /\ first = {} /\ StateAsset[s].bLoopByDefault
  <2>1. \A R : Outcome(R, s, i) = After(R[i + skip][s])
    BY <1>1, <1>6
  <2> QED
    BY <1>3, <2>1
<1>7. CASE /\ ~(StateAsset[s].bTerminateImmediately \/ i >= Len(DataSource))
           /\ first = {} /\ ~StateAsset[s].bLoopByDefault
  <2>1. \A R : Outcome(R, s, i) = After(Ending(s, i))
    BY <1>1, <1>7
  <2> QED
    BY <2>1
<1> QED
  BY <1>4, <1>5, <1>6, <1>7

\* An outcome depends on the outcomes further on alone.
LEMMA OutcomeLooksAhead ==
    ASSUME StateAssetOK, NEW Q, NEW R, NEW s \in States, NEW i \in Nat,
           \A j \in Nat : j > i => \A t \in States : Q[j][t] = R[j][t]
    PROVE  Outcome(Q, s, i) = Outcome(R, s, i)
<1>1. CASE \A X : Outcome(X, s, i) = Ending(s, i)
  BY <1>1
<1>2. CASE \A X : Outcome(X, s, i) = After(Ending(s, i))
  BY <1>2
<1>3. CASE \E j \in Nat : j > i /\ \E t \in States : \A X : Outcome(X, s, i) = After(X[j][t])
  <2>1. PICK j \in Nat, t \in States : j > i /\ \A X : Outcome(X, s, i) = After(X[j][t])
    BY <1>3
  <2>2. Q[j][t] = R[j][t]
    BY <2>1
  <2> QED
    BY <2>1, <2>2
<1> QED
  BY <1>1, <1>2, <1>3, OutcomeCases

LEMMA EndingType ==
    ASSUME StateAssetOK, NEW s \in States, NEW i \in Nat
    PROVE  Ending(s, i) \in Outcomes
BY DEF Ending, Outcomes, StateAssetOK, IsState

LEMMA AfterType ==
    ASSUME NEW r \in Outcomes
    PROVE  After(r) \in Outcomes
BY DEF After, Outcomes

\* There is a function that satisfies the equation of Reference.
LEMMA ReferenceExists ==
    ASSUME StateAssetOK, Len(DataSource) \in Nat
    PROVE  \E R : R = [i \in Nat |-> [s \in States |-> Outcome(R, s, i)]]
<1> DEFINE From(R, i) ==
             \A j \in Nat : j >= i => \A s \in States : R[j][s] = Outcome(R, s, j)
           P == {i \in Nat : \E R : From(R, i)}
<1>1. ASSUME NEW i \in Nat, i >= Len(DataSource)
      PROVE  i \in P
  <2> DEFINE R == [j \in Nat |-> [s \in States |-> Ending(s, j)]]
  <2>1. ASSUME NEW j \in Nat, j >= i, NEW s \in States
        PROVE  R[j][s] = Outcome(R, s, j)
    <3>1. j >= Len(DataSource)
      BY <1>1, <2>1
    <3>2. R[j][s] = Ending(s, j)
      OBVIOUS
    <3> HIDE DEF R
    <3>3. Outcome(R, s, j) = Ending(s, j)
      BY <3>1 DEF Outcome
    <3> QED
      BY <3>2, <3>3
  <2>2. From(R, i)
    BY <2>1
  <2> HIDE DEF R
  <2> QED
    BY <2>2
<1>2. ASSUME NEW i \in Nat, i + 1 \in P
      PROVE  i \in P
  <2>1. PICK R : From(R, i + 1)
    BY <1>2
  <2> DEFINE Q == [j \in Nat |-> [s \in States |->
                       IF j > i THEN R[j][s] ELSE Outcome(R, s, j)]]
  <2>2. /\ \A j \in Nat : j > i => \A s \in States : Q[j][s] = R[j][s]
        /\ \A s \in States : Q[i][s] = Outcome(R, s, i)
    OBVIOUS
  <2> HIDE DEF Q
  <2>3. ASSUME NEW j \in Nat, j >= i, NEW s \in States
        PROVE  Q[j][s] = Outcome(Q, s, j)
    <3>1. \A k \in Nat : k > j => k > i
      BY <2>3
    <3>2. \A k \in Nat : k > j => \A t \in States : Q[k][t] = R[k][t]
      BY <2>2, <3>1
    <3>3. Outcome(Q, s, j) = Outcome(R, s, j)
      BY <3>2, OutcomeLooksAhead
    <3>4. CASE j = i
      BY <2>2, <3>3, <3>4
    <3>5. CASE j > i
      <4>1. j >= i + 1
        BY <3>5
      <4>2. R[j][s] = Outcome(R, s, j)
        BY <2>1, <4>1
      <4> QED
        BY <2>2, <3>3, <3>5, <4>2
    <3> QED
      BY <2>3, <3>4, <3>5
  <2> QED
    BY <2>3
<1>3. ASSUME NEW i \in Nat, \A j \in Nat : j > i => j \in P
      PROVE  i \in P
  <2> HIDE DEF P
  <2>1. i + 1 \in P
    BY <1>3
  <2> QED
    BY <1>2, <2>1
<1>4. 0 \in P
  <2> HIDE DEF P
  <2>1. Nat \subseteq P
    BY <1>1, <1>3, FromTheEnd
  <2> QED
    BY <2>1
<1>5. PICK R : From(R, 0)
  BY <1>4
<1> DEFINE F == [i \in Nat |-> [s \in States |-> R[i][s]]]
<1>6. ASSUME NEW i \in Nat, NEW s \in States
      PROVE  R[i][s] = Outcome(F, s, i)
  <2>1. \A j \in Nat : \A t \in States : F[j][t] = R[j][t]
    OBVIOUS
  <2>2. R[i][s] = Outcome(R, s, i)
    BY <1>5
  <2> HIDE DEF F
  <2>3. Outcome(F, s, i) = Outcome(R, s, i)
    BY <2>1, OutcomeLooksAhead
  <2> QED
    BY <2>2, <2>3
<1>7. F = [i \in Nat |-> [s \in States |-> Outcome(F, s, i)]]
  BY <1>6
<1> HIDE DEF F
<1> QED
  BY <1>7

\* The equation of Reference.
LEMMA ReferenceUnfolds ==
    ASSUME StateAssetOK, Len(DataSource) \in Nat, NEW i \in Nat, NEW s \in States
    PROVE  Reference[i][s] = Outcome(Reference, s, i)
<1>1. Reference = CHOOSE R : R = [j \in Nat |-> [t \in States |-> Outcome(R, t, j)]]
  BY DEF Reference
<1>2. Reference = [j \in Nat |-> [t \in States |-> Outcome(Reference, t, j)]]
  BY <1>1, ReferenceExists
<1> QED
  BY <1>2

\* It says what it may.
LEMMA ReferenceType ==
    ASSUME StateAssetOK, Len(DataSource) \in Nat
    PROVE  \A i \in Nat : \A s \in States : Reference[i][s] \in Outcomes
<1> DEFINE P == {i \in Nat : \A s \in States : Reference[i][s] \in Outcomes}
<1>1. ASSUME NEW i \in Nat, \A j \in Nat : j > i => j \in P
      PROVE  i \in P
  <2>1. ASSUME NEW s \in States PROVE Reference[i][s] \in Outcomes
    <3>1. Reference[i][s] = Outcome(Reference, s, i)
      BY ReferenceUnfolds
    <3>2. Ending(s, i) \in Outcomes /\ After(Ending(s, i)) \in Outcomes
      BY EndingType, AfterType
    <3>3. ASSUME NEW j \in Nat, j > i, NEW t \in States
          PROVE  After(Reference[j][t]) \in Outcomes
      BY <1>1, <3>3, AfterType
    <3> QED
      BY <3>1, <3>2, <3>3, OutcomeCases
  <2> QED
    BY <2>1
<1>2. ASSUME NEW i \in Nat, i >= Len(DataSource) PROVE i \in P
  <2>1. ASSUME NEW s \in States PROVE Reference[i][s] \in Outcomes
    <3>1. Outcome(Reference, s, i) = Ending(s, i)
      BY <1>2 DEF Outcome
    <3> QED
      BY <3>1, ReferenceUnfolds, EndingType
  <2> QED
    BY <2>1
<1>3. Nat \subseteq P
  <2> HIDE DEF P
  <2> QED
    BY <1>1, <1>2, FromTheEnd
<1> QED
  BY <1>3

\* TryTransition succeeds where the reference finds a transition open.
LEMMA SuccessOpens ==
    ASSUME StateAssetOK, NEW s \in States, IsValidIndex(DataIndex),
           NEW k \in DOMAIN Transitions(s)
    PROVE  Succeeds(s, k) <=> Opens(s, DataIndex, k)
<1> DEFINE t == Transitions(s)[k]
<1>1. Listed(s) = Transitions(s)
  BY DEF Listed, Transitions
<1>2. t = NULL \/ IsTransition(t)
  BY TransitionsType
<1>3. Atom(DataIndex) = DataSource[DataIndex + 1]
  BY DEF Atom
<1>4. CASE t = NULL
  BY <1>1, <1>4 DEF Succeeds, Opens
<1>5. CASE t # NULL /\ t.class = "FGInputTransition"
  BY <1>1, <1>5 DEF Succeeds, Opens, TryTransition
<1>6. CASE t # NULL /\ t.class = "SM_Transition"
  <2>1. TryTransition(t) # NULL
          <=> /\ t.DestinationState # NULL
              /\ (DataSource[DataIndex + 1] \in t.AcceptableInputs) # t.bReverseInputTest
    BY <1>3, <1>6 DEF TryTransition
  <2> HIDE DEF t
  <2>2. Succeeds(s, k) <=> TryTransition(t) # NULL
    BY <1>6 DEF Succeeds, t
  <2>3. Opens(s, DataIndex, k)
          <=> /\ t.DestinationState # NULL
              /\ (DataSource[DataIndex + 1] \in t.AcceptableInputs) # t.bReverseInputTest
    BY <1>1, <1>6 DEF Opens, t
  <2> QED
    BY <2>1, <2>2, <2>3
<1> QED
  BY <1>2, <1>4, <1>5, <1>6 DEF IsTransition

\* One step of a run goes the way the reference goes: what it says at the
\* state and index a step reaches is what it said before, with one step less.
LEMMA ReferenceStep ==
    ASSUME StateAssetOK, RunTypeOK, Len(DataSource) \in Nat, RunStep
    PROVE  LET now == Reference[DataIndex][smState]
           IN  \/ /\ CompletionType' = RUNNING
                  /\ now = After(Reference[DataIndex'][smState'])
               \/ /\ CompletionType' = now.completion
                  /\ smState' = now.state
                  /\ DataIndex' = now.index
                  /\ now.steps \in {0, 1} /\ (RemainingSteps = 0 => now.steps = 0)
               \/ /\ CompletionType' = "OutOfSteps" /\ RemainingSteps = 0
                  /\ now.steps > 0
<1> DEFINE now == Reference[DataIndex][smState]
<1>1. smState \in States /\ DataIndex \in Nat
  BY DEF RunTypeOK
<1>2. now = Outcome(Reference, smState, DataIndex)
  BY <1>1, ReferenceUnfolds
<1>3. MustEndNow <=> StateAsset[smState].bTerminateImmediately \/ DataIndex >= Len(DataSource)
  BY <1>1 DEF MustEndNow, IsValidIndex
<1>4. Listed(smState) = Transitions(smState)
  BY DEF Listed, Transitions
<1>5. /\ DOMAIN Transitions(smState) = 1 .. Len(Transitions(smState))
      /\ Len(Transitions(smState)) \in Nat
  BY <1>1, TransitionsType
<1>6. ~MustEndNow => \A k \in DOMAIN Transitions(smState) :
                        Succeeds(smState, k) <=> Opens(smState, DataIndex, k)
  BY <1>1, SuccessOpens DEF MustEndNow
<1>7. ~MustEndNow /\ NoneSucceeds(smState) => FirstOpen(smState, DataIndex) = {}
  BY <1>4, <1>6 DEF NoneSucceeds, FirstOpen
<1>8. CASE EndNow
  <2>1. now = Ending(smState, DataIndex)
    BY <1>2, <1>3, <1>8 DEF EndNow, Outcome
  <2> QED
    BY <1>8, <2>1 DEF EndNow, Return, Ending
<1>9. CASE EndOnState
  <2>1. /\ now = After(Ending(smState, DataIndex)) /\ RemainingSteps # 0
        /\ CompletionType' = StateAsset[smState].CompletionType
        /\ smState' = smState /\ DataIndex' = DataIndex
    BY <1>2, <1>3, <1>7, <1>9 DEF EndOnState, MayStep, Outcome, Return
  <2>2. now = [state |-> smState, index |-> DataIndex,
               completion |-> StateAsset[smState].CompletionType, steps |-> 0 + 1]
    BY <2>1 DEF After, Ending
  <2> QED
    BY <2>1, <2>2
<1>10. CASE LoopState
  <2>1. now = After(Reference[DataIndex + LoopStride(smState)][smState])
    BY <1>2, <1>3, <1>7, <1>10 DEF LoopState, MayStep, Outcome, LoopStride
  <2> QED
    BY <1>10, <2>1 DEF LoopState, RunState
<1>11. CASE TakeTransition
  <2>1. ~MustEndNow
    BY <1>11 DEF TakeTransition, MayStep
  <2>2. PICK i \in DOMAIN Transitions(smState) :
          /\ IsFirstSuccess(smState, i)
          /\ RunState(TryTransition(Transitions(smState)[i]),
                      OutDataIndex(Transitions(smState)[i]), RemainingSteps - 1)
    BY <1>11 DEF TakeTransition
  <2>3. i \in FirstOpen(smState, DataIndex)
    BY <1>4, <1>5, <1>6, <2>1, <2>2 DEF IsFirstSuccess, FirstOpen
  <2>4. \A k \in FirstOpen(smState, DataIndex) : k = i
    BY <1>4, <1>5, <2>3 DEF FirstOpen
  <2>5. (CHOOSE k \in FirstOpen(smState, DataIndex) : TRUE) = i
    BY <2>3, <2>4
  <2>6. now = After(Reference[DataIndex + 1][Transitions(smState)[i].DestinationState])
    BY <1>2, <1>3, <1>4, <2>1, <2>3, <2>5 DEF Outcome
  <2>7. /\ TryTransition(Transitions(smState)[i]) = Transitions(smState)[i].DestinationState
        /\ OutDataIndex(Transitions(smState)[i]) = DataIndex + 1
    BY <1>1, <2>2, SuccessType DEF IsFirstSuccess
  <2> QED
    BY <2>2, <2>6, <2>7 DEF RunState
<1>12. CASE RunOutOfSteps
  <2>1. ~MustEndNow /\ CompletionType' = "OutOfSteps" /\ RemainingSteps = 0
    BY <1>12 DEF RunOutOfSteps, Return
  <2>2. \E r \in Outcomes : now = After(r)
    <3> DEFINE skip == IF StateAsset[smState].class = "FGState" THEN 3 ELSE 1
               first == FirstOpen(smState, DataIndex)
               k == CHOOSE k \in first : TRUE
               d == Listed(smState)[k].DestinationState
    <3>1. now = IF first # {} THEN After(Reference[DataIndex + 1][d])
                ELSE IF StateAsset[smState].bLoopByDefault
                     THEN After(Reference[DataIndex + skip][smState])
                ELSE After(Ending(smState, DataIndex))
      BY <1>2, <1>3, <2>1 DEF Outcome
    <3>2. first # {} => d \in States
      <4>1. first # {} => k \in first
        OBVIOUS
      <4> QED
        BY <1>1, <4>1, DestinationType
    <3>3. DataIndex + 1 \in Nat /\ DataIndex + skip \in Nat
      BY <1>1
    <3> HIDE DEF skip, first, k, d
    <3>4. Reference[DataIndex + skip][smState] \in Outcomes
      BY <1>1, <3>3, ReferenceType
    <3>5. first # {} => Reference[DataIndex + 1][d] \in Outcomes
      BY <3>2, <3>3, ReferenceType
    <3>6. Ending(smState, DataIndex) \in Outcomes
      BY <1>1, EndingType
    <3> QED
      BY <3>1, <3>4, <3>5, <3>6
  <2> QED
    BY <2>1, <2>2 DEF After, Outcomes
<1> QED
  BY <1>8, <1>9, <1>10, <1>11, <1>12 DEF RunStep

\* The reference depends on the input alone.
LEMMA SameReference == DataSource' = DataSource => Reference' = Reference
BY DEF Reference, Outcome, FirstOpen, Opens
=============================================================================

----------------------------- MODULE SMRunProofs -----------------------------
(****************************************************************************)
(* Theorems about one call of RunState, for every set of assets, every      *)
(* input and every step budget.                                             *)
(****************************************************************************)
EXTENDS SMRun, TLAPS

\* Every call of RunState stands on a state asset, at a non-negative index, and
\* every result is one of EStateMachineCompletionType.
THEOREM TypeCorrect == Spec => []TypeOK
<1>1. Init => TypeOK
  BY CallerAssumption DEF Init, TypeOK, RunTypeOK
<1>2. TypeOK /\ [Next]_vars => TypeOK'
  <2>1. ASSUME TypeOK, Next PROVE TypeOK'
    <3>1. RunTypeOK'
      BY <2>1, CallerAssumption, RunStepType DEF TypeOK, Next
    <3>2. DataSource' = DataSource
      BY <2>1 DEF Next, RunStep, EndNow, RunOutOfSteps, TakeTransition,
                  LoopState, EndOnState
    <3> QED
      BY <2>1, <3>1, <3>2 DEF TypeOK, Next, callerVars
  <2>2. ASSUME TypeOK, UNCHANGED vars PROVE TypeOK'
    BY <2>2 DEF TypeOK, RunTypeOK, vars, smVars, callerVars
  <2> QED
    BY <2>1, <2>2
<1> QED
  BY <1>1, <1>2, PTL DEF Spec

\* StepOfRun in numbers: a step that goes on moves on by one, or by three if it
\* loops on an FGState.
LEMMA StepLength ==
    ASSUME TypeOK, RunStep
    PROVE  \/ /\ IsValidIndex(DataIndex)
              /\ RemainingSteps # 0
              /\ RemainingSteps' = RemainingSteps - 1
              /\ CompletionType' = RUNNING
              /\ \/ DataIndex' = DataIndex + 1
                 \/ /\ DataIndex' = DataIndex + 3
                    /\ smState' = smState
                    /\ StateAsset[smState].class = "FGState"
                    /\ StateAsset[smState].bLoopByDefault
           \/ /\ UNCHANGED <<smState, DataIndex, RemainingSteps>>
              /\ CompletionType' \in EditableCompletions
           \/ /\ UNCHANGED <<smState, DataIndex, RemainingSteps>>
              /\ CompletionType' = "OutOfSteps"
              /\ RemainingSteps = 0
<1>1. CASE Follows(smState)
  BY <1>1, CallerAssumption, StepOfRun DEF TypeOK, Follows
<1>2. CASE Loops(smState)
  BY <1>2, CallerAssumption, StepOfRun DEF TypeOK, Loops, LoopStride
<1> QED
  BY <1>1, <1>2, CallerAssumption, StepOfRun DEF TypeOK

\* No call runs without having read input since the call before.
THEOREM Advances == Spec => RunAdvances
<1>1. ASSUME TypeOK, [Next]_vars PROVE [Running' => DataIndex' > DataIndex]_vars
  <2>1. ASSUME Next, Running' PROVE DataIndex' > DataIndex
    <3>1. CompletionType' = "Running"
      BY <2>1 DEF Running, RUNNING
    <3> QED
      BY <1>1, <2>1, <3>1, StepLength
      DEF Next, TypeOK, RunTypeOK, EditableCompletions
  <2> QED
    BY <1>1, <2>1
<1> QED
  BY <1>1, TypeCorrect, PTL DEF Spec, RunAdvances

\* The index handed back to the caller is at most two past the end of its
\* array, and past the end only where a looping FGState ends the run.
THEOREM NearEnd == Spec => []IndexNearEnd
<1>1. Init => IndexNearEnd
  BY CallerAssumption DEF Init, IndexNearEnd
<1>2. TypeOK /\ IndexNearEnd /\ [Next]_vars => IndexNearEnd'
  <2>1. ASSUME TypeOK, IndexNearEnd, Next PROVE IndexNearEnd'
    <3>1. DataSource' = DataSource /\ Len(DataSource) \in Nat /\ DataIndex \in Nat
      BY <2>1 DEF Next, RunStep, EndNow, RunOutOfSteps, TakeTransition,
                  LoopState, EndOnState, TypeOK, RunTypeOK
    <3> QED
      BY <2>1, <3>1, StepLength DEF Next, IndexNearEnd, IsValidIndex
  <2>2. ASSUME IndexNearEnd, UNCHANGED vars PROVE IndexNearEnd'
    BY <2>2 DEF IndexNearEnd, vars, smVars
  <2> QED
    BY <2>1, <2>2
<1> QED
  BY <1>1, <1>2, TypeCorrect, PTL DEF Spec

\* BudgetSpent is not inductive: that a run which gave up has read as many
\* atoms as it had steps needs the number of steps spent so far.
SpentIsRead ==
    /\ budget >= 0 => RemainingSteps \in 0 .. budget
    /\ RemainingSteps <= budget
    /\ budget - RemainingSteps <= DataIndex
    /\ CompletionType = "OutOfSteps" => RemainingSteps = 0

LEMMA Spent == Spec => []SpentIsRead
<1>1. Init => SpentIsRead
  BY CallerAssumption DEF Init, SpentIsRead, RUNNING
<1>2. TypeOK /\ SpentIsRead /\ [Next]_vars => SpentIsRead'
  <2>1. ASSUME TypeOK, SpentIsRead, Next PROVE SpentIsRead'
    <3>1. budget' = budget
      BY <2>1 DEF Next, callerVars
    <3> QED
      BY <2>1, <3>1, StepLength
      DEF Next, SpentIsRead, TypeOK, RunTypeOK, RUNNING, EditableCompletions
  <2>2. ASSUME SpentIsRead, UNCHANGED vars PROVE SpentIsRead'
    BY <2>2 DEF SpentIsRead, vars, smVars, callerVars
  <2> QED
    BY <2>1, <2>2
<1> QED
  BY <1>1, <1>2, TypeCorrect, PTL DEF Spec

\* A step budget is spent one call at a time, never overspent, and used up
\* exactly when a run gives up.
THEOREM Budget == Spec => []BudgetSpent
<1>1. TypeOK /\ SpentIsRead => BudgetSpent
  BY DEF TypeOK, RunTypeOK, SpentIsRead, BudgetSpent
<1> QED
  BY <1>1, TypeCorrect, Spent, PTL

\* What the reference says at the call in progress is what it said at the
\* caller's, but for the steps spent since; what is returned is what it says.
OnReference ==
    LET ref == Reference[0][entry]
        now == Reference[DataIndex][smState]
    IN  IF Running
        THEN ref = [state |-> now.state, index |-> now.index, completion |-> now.completion,
                    steps |-> now.steps + (budget - RemainingSteps)]
        ELSE RunMatchesReference

\* Every run returns what the recursive reference says of the state and input it
\* was called with, for every graph of states, every input and every budget.
THEOREM MatchesReference == Spec => []RunMatchesReference
<1>1. Init => OnReference
  <2> SUFFICES ASSUME Init PROVE OnReference
    OBVIOUS
  <2>1. entry \in States /\ smState = entry /\ DataIndex = 0 /\ RemainingSteps = budget
        /\ budget \in Int /\ Running /\ Len(DataSource) \in Nat
    BY CallerAssumption DEF Init, Running
  <2>2. Reference[0][entry] \in Outcomes
    BY <2>1, CallerAssumption, ReferenceType
  <2> QED
    BY <2>1, <2>2 DEF OnReference, Outcomes
<1>2. TypeOK /\ SpentIsRead /\ OnReference /\ [Next]_vars => OnReference'
  <2>1. ASSUME TypeOK, SpentIsRead, OnReference, Next PROVE OnReference'
    <3> DEFINE ref == Reference[0][entry]
               now == Reference[DataIndex][smState]
               then == Reference[DataIndex'][smState']
    <3>1. /\ RunStep /\ RunTypeOK /\ Len(DataSource) \in Nat
          /\ entry \in States /\ budget \in Int /\ RemainingSteps \in Int
          /\ entry' = entry /\ budget' = budget /\ DataSource' = DataSource /\ Running
      BY <2>1 DEF Next, TypeOK, RunTypeOK, callerVars, RunStep, EndNow, RunOutOfSteps,
                  TakeTransition, LoopState, EndOnState, MayStep
    <3>2. RunTypeOK'
      BY <3>1, CallerAssumption, RunStepType
    <3>3. Reference' = Reference
      BY <3>1, SameReference
    <3>4. then \in Outcomes /\ now \in Outcomes /\ ref \in Outcomes
      BY <3>1, <3>2, CallerAssumption, ReferenceType DEF RunTypeOK
    <3>5. ref = [state |-> now.state, index |-> now.index, completion |-> now.completion,
                 steps |-> now.steps + (budget - RemainingSteps)]
      BY <2>1, <3>1 DEF OnReference
    <3>6. \/ /\ CompletionType' = RUNNING
             /\ now = After(then)
          \/ /\ CompletionType' = now.completion
             /\ smState' = now.state
             /\ DataIndex' = now.index
             /\ now.steps \in {0, 1} /\ (RemainingSteps = 0 => now.steps = 0)
          \/ /\ CompletionType' = "OutOfSteps" /\ RemainingSteps = 0
             /\ now.steps > 0
      BY <3>1, CallerAssumption, ReferenceStep
    <3>7. ref' = ref
      BY <3>1, <3>3
    <3> HIDE DEF ref, now
    <3>8. CASE CompletionType' = RUNNING /\ now = After(then)
      <4>1. RemainingSteps' = RemainingSteps - 1 /\ Running'
        BY <2>1, <3>1, <3>8, StepLength DEF Running, RUNNING, EditableCompletions
      <4>2. /\ now.state = then.state /\ now.index = then.index
            /\ now.completion = then.completion /\ now.steps = then.steps + 1
        BY <3>8 DEF After
      <4>3. then.steps \in Nat
        BY <3>4 DEF Outcomes
      <4> HIDE DEF then
      <4>4. now.steps + (budget - RemainingSteps) = then.steps + (budget - RemainingSteps')
        BY <3>1, <4>1, <4>2, <4>3
      <4>5. ref = [state |-> then.state, index |-> then.index, completion |-> then.completion,
                   steps |-> then.steps + (budget' - RemainingSteps')]
        BY <3>1, <3>5, <4>2, <4>4
      <4>6. (Reference[DataIndex][smState])' = then
        BY <3>3 DEF then
      <4> QED
        BY <3>7, <4>1, <4>5, <4>6 DEF OnReference, ref
    <3>9. CASE /\ CompletionType' = now.completion
               /\ smState' = now.state
               /\ DataIndex' = now.index
               /\ now.steps \in {0, 1} /\ (RemainingSteps = 0 => now.steps = 0)
      <4>1. CompletionType' \in EditableCompletions
        BY <3>4, <3>9 DEF Outcomes
      <4>2. ~Running'
        BY <4>1 DEF Running, RUNNING, EditableCompletions
      <4>3. ref.steps = now.steps + (budget - RemainingSteps)
        BY <3>5
      <4>4. ~(budget >= 0 /\ ref.steps > budget)
        BY <2>1, <3>1, <3>9, <4>3 DEF SpentIsRead
      <4>5. ref.completion = now.completion /\ ref.state = now.state /\ ref.index = now.index
        BY <3>5
      <4>6. RunMatchesReference'
        BY <3>1, <3>7, <3>9, <4>4, <4>5 DEF RunMatchesReference, ref
      <4> QED
        BY <4>2, <4>6 DEF OnReference
    <3>10. CASE CompletionType' = "OutOfSteps" /\ RemainingSteps = 0 /\ now.steps > 0
      <4>1. ~Running'
        BY <3>10 DEF Running, RUNNING
      <4>2. ref.steps = now.steps + (budget - RemainingSteps) /\ now.steps \in Nat
        BY <3>4, <3>5 DEF Outcomes
      <4>3. budget >= 0 /\ ref.steps > budget
        BY <2>1, <3>1, <3>10, <4>2 DEF SpentIsRead
      <4>4. RunMatchesReference'
        BY <3>1, <3>7, <3>10, <4>3 DEF RunMatchesReference, ref
      <4> QED
        BY <4>1, <4>4 DEF OnReference
    <3> QED
      BY <3>6, <3>8, <3>9, <3>10
  <2>2. ASSUME OnReference, UNCHANGED vars PROVE OnReference'
    BY <2>2, SameReference DEF OnReference, RunMatchesReference, Running, vars, smVars, callerVars
  <2> QED
    BY <2>1, <2>2
<1>3. OnReference => RunMatchesReference
  BY DEF OnReference, RunMatchesReference
<1> QED
  BY <1>1, <1>2, <1>3, TypeCorrect, Spent, PTL DEF Spec

=============================================================================

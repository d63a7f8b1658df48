-------------------------------- MODULE SMRun --------------------------------
(****************************************************************************)
(* One call of USM_State::RunState from outside, on any state asset, any    *)
(* input and any step budget, until it returns.  The runner itself is       *)
(* SMState; what is added is the caller, which keeps the state it called    *)
(* and the budget it passed.                                                *)
(****************************************************************************)
EXTENDS SMState

CONSTANTS
    Atoms,        \* the input atoms
    Streams,      \* the arrays a caller may pass as DataSource
    StepBudgets   \* the values a caller may pass as RemainingSteps

ASSUME CallerAssumption ==
    /\ StateAssetOK
    /\ Streams \subseteq Seq(Atoms)
    /\ StepBudgets \subseteq Int

VARIABLES entry, budget   \* the call the caller made

callerVars == <<entry, budget>>
vars == <<DataSource, smVars, callerVars>>

Init ==
    /\ DataSource \in Streams
    /\ entry \in States
    /\ budget \in StepBudgets
    /\ smState = entry
    /\ DataIndex = 0
    /\ RemainingSteps = budget
    /\ CompletionType = RUNNING

Next == RunStep /\ UNCHANGED callerVars

\* A call executes to its end: nothing else runs on the game thread meanwhile.
Spec == Init /\ [][Next]_vars /\ WF_vars(Next)

-----------------------------------------------------------------------------
\* The runner only ever stands on a state asset, at a non-negative index.
TypeOK ==
    /\ DataSource \in Seq(Atoms)
    /\ RunTypeOK
    /\ entry \in States
    /\ budget \in Int

\* RunState reads DataSource only behind IsValidIndex, but the DataIndex it
\* returns is used to cut the caller's array.  It may lie past the end: a
\* looping FGState jumps a whole frame from the last atoms.  It never lies
\* more than two past it, and only where such a state ends the run.
IndexNearEnd ==
    /\ DataIndex <= Len(DataSource) + 2
    /\ DataIndex > Len(DataSource) =>
           /\ StateAsset[smState].class = "FGState"
           /\ StateAsset[smState].bLoopByDefault

\* A budget is spent one call at a time and never overspent: the run gives up
\* exactly when a non-negative budget has been used up.
BudgetSpent ==
    /\ budget >= 0 => RemainingSteps \in 0 .. budget
    /\ CompletionType = "OutOfSteps" => RemainingSteps = 0 /\ DataIndex >= budget

\* A run returns what the reference returns; a step budget can only turn the
\* answer into OutOfSteps, and does so exactly when the budget is too small.
\* No budget turns a rejection into an acceptance or the reverse.
RunMatchesReference ==
    LET ref == Reference[0][entry]
    IN  ~Running =>
          IF budget >= 0 /\ ref.steps > budget
          THEN CompletionType = "OutOfSteps"
          ELSE /\ CompletionType = ref.completion
               /\ smState = ref.state
               /\ DataIndex = ref.index

\* Whatever the assets are, every call that RunState makes reads further on
\* in the input than the one before: no cycle of states runs without input.
RunAdvances == [][Running' => DataIndex' > DataIndex]_vars

=============================================================================

\* Every entry state, every input of up to four atoms over three, budgets
\* unlimited, zero and too small.
SPECIFICATION Spec
CONSTANTS
    NULL = NULL
    StateAsset <- MCStateAsset
    Atoms <- MCAtoms
    Streams <- MCStreams
    StepBudgets <- MCStepBudgets
INVARIANTS
    TypeOK
    BudgetSpent
    RunMatchesReference
PROPERTIES
    RunAdvances
CHECK_DEADLOCK FALSE

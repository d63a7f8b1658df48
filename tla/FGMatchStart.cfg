\* Every setting of the editor, every outcome of the engine's calls.
SPECIFICATION Spec
CONSTANTS
    One = One
    Two = Two
INVARIANTS
    NoFighterForgotten
PROPERTIES
    MatchGetsGoing
\* Once the match is going nothing more happens here.
CHECK_DEADLOCK FALSE

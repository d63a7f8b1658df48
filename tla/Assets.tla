------------------------------- MODULE Assets --------------------------------
(* Constructors for the assets of small instances: the editable properties  *)
(* of transitions, states, links and moves, in the order of their classes.  *)

Transition(class, inputs, reverse, dest) ==
    [class |-> class, AcceptableInputs |-> inputs,
     bReverseInputTest |-> reverse, DestinationState |-> dest]

On(inputs, dest) == Transition("SM_Transition", inputs, FALSE, dest)
Unless(inputs, dest) == Transition("SM_Transition", inputs, TRUE, dest)
FG(dest) == Transition("FGInputTransition", {}, FALSE, dest)

State(class, completion, terminate, loop, instanced, shared) ==
    [class |-> class, CompletionType |-> completion,
     bTerminateImmediately |-> terminate, bLoopByDefault |-> loop,
     InstancedTransitions |-> instanced, SharedTransitions |-> shared]

\* An FGState that loops, as they are created, and a state that accepts at once.
Reading(transitions) ==
    State("FGState", "NotAccepted", FALSE, TRUE, transitions, << >>)
Accepting ==
    State("FGState", "Accepted", TRUE, TRUE, << >>, << >>)

\* A state that ends the run if no transition applies.
Strict(transitions) ==
    State("FGState", "NotAccepted", FALSE, FALSE, transitions, << >>)

Link(move, windows, clear, machine) ==
    [Move |-> move, CancelWindows |-> windows, bClearInput |-> clear,
     InputStateMachine |-> machine]

Move(links, clearOnEntry, clearOnExit) ==
    [LinkedMoves |-> links, bClearInputOnEntry |-> clearOnEntry,
     bClearInputOnExit |-> clearOnExit]
=============================================================================

------------------------------ MODULE FGBuffer -------------------------------
(****************************************************************************)
(* What AFGDefaultPawn promises: the input buffer is one queue of frames,   *)
(* each saying where the stick was, which buttons were down and which of    *)
(* them went down since the frame before.  A tick appends a frame, forgets  *)
(* the expired ones and then either goes a way out of the current move that *)
(* is open, using up whole frames from the front or clearing the buffer, or *)
(* lets time pass in the move.                                              *)
(*                                                                          *)
(* What makes a way acceptable is left open here: it is the content's.      *)
(****************************************************************************)
EXTENDS Integers, Sequences

CONSTANTS
    Buttons,
    Directions,
    Ways,            \* the ways between moves: [from, to, windows, clears]
    FirstMove,
    Lengths,         \* how long a tick may be
    Expiration,
    LongTime         \* from here on no window changes

VARIABLES
    stick, down,     \* the player's hands
    seen,            \* the buttons down at the last frame
    frames,          \* oldest first: [stick, down, pressed, age]
    move, time,      \* the current move and the time in it
    choosing, passed \* between the two halves of a tick, and its length

vars == <<stick, down, seen, frames, move, time, choosing, passed>>

Init ==
    /\ stick \in Directions
    /\ down = {} /\ seen = {}
    /\ frames = << >>
    /\ move = FirstMove /\ time = 0
    /\ choosing = FALSE /\ passed = 0

\* Between ticks the player moves the stick or one button.
Play ==
    /\ ~choosing
    /\ \/ stick' \in Directions /\ UNCHANGED down
       \/ \E b \in Buttons : down' \in {down \cup {b}, down \ {b}} /\ UNCHANGED stick
    /\ UNCHANGED <<seen, frames, move, time, choosing, passed>>

Older(f, length) == [f EXCEPT !.age = @ + length]

IsFresh(f) == f.age <= Expiration

NewFrame == [stick |-> stick, down |-> down, pressed |-> down \ seen, age |-> 0]

Sample(length) ==
    /\ ~choosing
    /\ LET old == [i \in DOMAIN frames |-> Older(frames[i], length)]
       IN  \E expired \in 0 .. Len(frames) :
             /\ \A i \in DOMAIN frames : IsFresh(old[i]) <=> i > expired
             /\ frames' = Append(SubSeq(old, expired + 1, Len(frames)), NewFrame)
    /\ seen' = down
    /\ choosing' = TRUE
    /\ passed' = length
    /\ UNCHANGED <<stick, down, move, time>>

IsOpen(way) ==
    /\ way.from = move
    /\ way.windows = {} \/ \E w \in way.windows : w[1] <= time /\ time <= w[2]

Go(way) ==
    /\ choosing
    /\ IsOpen(way)
    /\ IF way.clears THEN frames' = << >>
       ELSE \E used \in 0 .. Len(frames) : frames' = SubSeq(frames, used + 1, Len(frames))
    /\ move' = way.to /\ time' = 0
    /\ choosing' = FALSE /\ passed' = 0
    /\ UNCHANGED <<stick, down, seen>>

Stay ==
    /\ choosing
    /\ time' = IF time + passed <= LongTime THEN time + passed ELSE LongTime
    /\ choosing' = FALSE /\ passed' = 0
    /\ UNCHANGED <<stick, down, seen, frames, move>>

Next == Play \/ (\E length \in Lengths : Sample(length)) \/ (\E way \in Ways : Go(way)) \/ Stay

Spec == Init /\ [][Next]_vars
=============================================================================

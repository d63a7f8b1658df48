---------------------------- MODULE MCFGPawnLoose ----------------------------
(* Content the editor lets a designer create and nothing in the code        *)
(* rejects: a machine that accepts in the middle of a frame (after the      *)
(* direction and the left button, one atom short), a looping UFGState in    *)
(* the middle of a frame that accepts when the input runs out, a plain      *)
(* loop-free machine, a null entry in LinkedMoves and a link without Move.  *)
EXTENDS FGPawn, Assets

MCStateAsset ==
  [ accept |-> Accepting,
    short  |-> Reading(<<On(DirectionAtoms, "left")>>),
    left   |-> Strict(<<On({"JustPressed"}, "accept")>>),
    over   |-> Reading(<<On({"Forward"}, "drain")>>),
    drain  |-> State("FGState", "Accepted", FALSE, TRUE, << >>, << >>) ]

MCLinkAsset ==
  [ toShort |-> Link("Short", {}, FALSE, "short"),
    toOver  |-> Link("Over", {}, FALSE, "over"),
    toIdle  |-> Link("Idle", {<<1, TimeCap>>}, FALSE, "accept"),
    noMove  |-> Link(NULL, {}, FALSE, "accept") ]

MCMoveAsset ==
  [ Idle  |-> Move(<<"toShort", "toOver">>, FALSE, FALSE),
    Short |-> Move(<<"toIdle", NULL>>, FALSE, FALSE),
    Over  |-> Move(<<"noMove", "toIdle">>, FALSE, FALSE) ]
=============================================================================

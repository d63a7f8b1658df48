------------------------------ MODULE MCFGPawn -------------------------------
(* A fighter whose input machines are built from USM_Transitions, which     *)
(* consume one atom each, on looping UFGStates: a jab on the left button, a *)
(* fireball on down, forward and the left button, a second punch that can   *)
(* cancel the jab in a window, and links back to Idle as in the shipped     *)
(* content (machine Accept, window open to the end).                        *)
EXTENDS FGPawnBuffer, Assets

MCYValues == {-2, 0}

AnyDirection == DirectionAtoms
Released == {"ButtonUp"}
Any == ButtonAtoms

\* Jab: a frame in which LeftFace is just pressed and TopFace is up.  The
\* machine walks over other frames: each state reads one atom of a frame, and
\* states named ..2 skip the rest of a frame that did not match.
MCStateAsset ==
  [ accept   |-> Accepting,
    jab      |-> Reading(<<On(AnyDirection, "jabLeft")>>),
    jabLeft  |-> Strict(<<On({"JustPressed"}, "jabTop"), On(Any, "jab2")>>),
    jab2     |-> Strict(<<On(Any, "jab")>>),
    jabTop   |-> Strict(<<On(Released, "accept"), On(Any, "jab")>>),
    \* Fireball: down, then forward, and forward with a press.
    down     |-> Reading(<<On({"Down"}, "downL")>>),
    downL    |-> Strict(<<On(Any, "downT")>>),
    downT    |-> Strict(<<On(Any, "fwd")>>),
    fwd      |-> Reading(<<On({"Forward"}, "fwdL")>>),
    fwdL     |-> Strict(<<On({"JustPressed"}, "fwdT"), Unless({"JustPressed"}, "fwd2")>>),
    fwd2     |-> Strict(<<On(Any, "fwd")>>),
    fwdT     |-> Strict(<<On(Any, "accept")>>) ]

MCLinkAsset ==
  [ toFireball |-> Link("Fireball", {}, TRUE, "down"),
    toJab      |-> Link("Jab", {}, FALSE, "jab"),
    jabToJab   |-> Link("Jab", {<<1, 2>>}, TRUE, "jab"),
    toIdle     |-> Link("Idle", {<<2, TimeCap>>}, FALSE, "accept"),
    noMachine  |-> Link("Idle", {}, FALSE, NULL) ]

MCMoveAsset ==
  [ Idle     |-> Move(<<"toFireball", "noMachine", "toJab">>, FALSE, FALSE),
    Jab      |-> Move(<<"jabToJab", "toIdle">>, FALSE, FALSE),
    Fireball |-> Move(<<"toIdle">>, FALSE, TRUE) ]

\* The place of each state in a frame: the content is aligned, and complete.
MCPhase ==
  [ accept |-> 0, jab |-> 0, jabLeft |-> 1, jab2 |-> 2, jabTop |-> 2, down |-> 0,
    downL |-> 1, downT |-> 2, fwd |-> 0, fwdL |-> 1, fwd2 |-> 2, fwdT |-> 2 ]

ASSUME ContentIsSound == AlignedBy(MCPhase) /\ LinksComplete

\* The jab and the fireball need a press, the way back to Idle does not.
ASSUME MovesNeedPress == {"jab", "down"} \subseteq NeedsPress /\ "accept" \notin NeedsPress

-----------------------------------------------------------------------------
\* The fireball has a link back to Idle that never closes again and needs no
\* input, so whatever the player does, the move ends.
FireballEnds == (CurrentMove = "Fireball") ~> (CurrentMove = "Idle")
=============================================================================

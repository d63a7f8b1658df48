--------------------------- MODULE MCFGPawnShipped ---------------------------
(* The moves, links and states of Content/ as they are shipped, times in    *)
(* milliseconds.  Every input machine but Accept is made of                 *)
(* UFGInputTransitions; the buttons and directions each one asks for are    *)
(* not read by the code, so they are not in the assets here.                *)
EXTENDS FGPawn, Assets

MCStateAsset ==
  [ Accept                 |-> Accepting,
    Fireball_Input1        |-> Reading(<<FG("Fireball_Input2")>>),
    Fireball_Input2        |-> Reading(<<FG("Fireball_Input3")>>),
    Fireball_Input3        |-> Reading(<<FG("Fireball_Input3"), FG("Fireball_Input4")>>),
    Fireball_Input4        |-> Reading(<<FG("Fireball_Input4"), FG("Accept")>>),
    StraightLeft_Input     |-> Reading(<<FG("Accept")>>),
    StraightRight_Input    |-> Reading(<<FG("Accept")>>),
    Dodge_Input            |-> Reading(<<FG("Accept")>>),
    DodgeToFireball_Input  |-> Reading(<<FG("Accept")>>) ]

From(x) == {<<x, TimeCap>>}

MCLinkAsset ==
  [ IdleToFireball              |-> Link("Fireball", {}, FALSE, "Fireball_Input1"),
    IdleToStraightLeft          |-> Link("StraightLeft", {}, FALSE, "StraightLeft_Input"),
    IdleToDodge                 |-> Link("Dodge", {}, TRUE, "Dodge_Input"),
    DodgeToUppercut             |-> Link("Fireball", {<<400, 900>>}, FALSE, "DodgeToFireball_Input"),
    DodgeToIdle                 |-> Link("Idle", From(1375), FALSE, "Accept"),
    FireballToStraightLeft      |-> Link("StraightLeft", {<<250, 450>>}, FALSE, "StraightLeft_Input"),
    FireballToIdle              |-> Link("Idle", From(1000), FALSE, "Accept"),
    StraightLeftToStraightRight |-> Link("StraightRight", From(250), FALSE, "StraightRight_Input"),
    StraightLeftToIdle          |-> Link("Idle", From(556), FALSE, "Accept"),
    StraightRightToStraightLeft |-> Link("StraightLeft", From(250), FALSE, "StraightLeft_Input"),
    StraightRightToIdle         |-> Link("Idle", From(625), FALSE, "Accept") ]

MCMoveAsset ==
  [ Idle          |-> Move(<<"IdleToFireball", "IdleToStraightLeft", "IdleToDodge">>, FALSE, FALSE),
    Dodge         |-> Move(<<"DodgeToUppercut", "DodgeToIdle">>, FALSE, FALSE),
    Fireball      |-> Move(<<"FireballToStraightLeft", "FireballToIdle">>, FALSE, FALSE),
    StraightLeft  |-> Move(<<"StraightLeftToStraightRight", "StraightLeftToIdle">>, FALSE, FALSE),
    StraightRight |-> Move(<<"StraightRightToStraightLeft", "StraightRightToIdle">>, FALSE, FALSE) ]

-----------------------------------------------------------------------------
\* FGInputTransition.h:16-31 on the frame sampled last: StraightLeft_Input asks
\* for LeftFace just pressed, TopFace up and the stick not down.
LastFrameIsJab ==
    LET n == Len(InputAges)
    IN  /\ n > 0
        /\ Pressed(n, "LeftFace") = "JustPressed"
        /\ Pressed(n, "TopFace") = "ButtonUp"
        /\ InputStream[FrameLen * (n - 1) + 1] \notin {"DownBack", "Down", "DownForward"}

\* "Consume 2 types of input - Direction + Button(s)": in Idle a frame that
\* fits StraightLeft_Input does not go by with no link followed.
JabIsTaken ==
    pc = "links" /\ CurrentMove = "Idle" /\ link > Len(LinkedMoves) => ~LastFrameIsJab
=============================================================================

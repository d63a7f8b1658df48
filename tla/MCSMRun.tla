------------------------------- MODULE MCSMRun -------------------------------
(* SMRun on a small graph with every feature of the assets: both classes of *)
(* states and of transitions, instanced, shared and null transitions, null  *)
(* destinations, the reversed test, cycles and all completion types.        *)
EXTENDS SMRun, Assets

MCAtoms == {"x", "y", "z"}

MCStateAsset ==
  [ s0  |-> State("SM_State", "NotAccepted", FALSE, TRUE,
                  <<NULL, FG("acc"), On({"x"}, NULL), On({"x"}, "s1")>>,
                  <<On({"x", "y"}, "s2")>>),
    s1  |-> State("FGState", "Accepted", FALSE, TRUE,
                  <<Unless({"x", "z"}, "s2")>>, << >>),
    s2  |-> State("SM_State", "Rejected", FALSE, FALSE,
                  << >>, <<NULL, On({"y"}, "s0"), On({"x"}, "acc")>>),
    acc |-> State("FGState", "Accepted", TRUE, TRUE,
                  <<On({"x", "y", "z"}, "s0")>>, << >>) ]

MCStreams == UNION {[1 .. n -> MCAtoms] : n \in 0 .. 4}

MCStepBudgets == {-1, 0, 1, 3}

=============================================================================

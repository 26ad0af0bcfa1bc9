------------------------- MODULE MCHouseholdBrowser -------------------------
(* A counter for a household: every add succeeds, whatever it adds to, so a *)
(* second effect of one intent is never refused by the domain.              *)
EXTENDS HouseholdBrowser, TLC

CONSTANTS add, Nothing

MCStates == 0..MaxVersion
MCCommands == {add}
MCPreviewOnly == {}
MCEffect == [s \in MCStates |-> [c \in MCCommands |-> IF s < MaxVersion THEN s + 1 ELSE Nothing]]
MCBaseEligible == [s \in MCStates |-> MCCommands]

MCAsked ==
    [kind : MutationKinds, id : RequestIds, base : 0..MaxVersion-1, ops : {<<add>>}]
    \cup {r \in [kind : {"planner_undo"}, id : RequestIds, base : 0..MaxVersion-1, target : 1..MaxVersion] :
            r.base = r.target}
    \cup [kind : {"workspace_bootstrap"}, id : RequestIds, install : {0}]

MCSymmetry == Permutations(RequestIds) \cup Permutations(Browsers)
=============================================================================

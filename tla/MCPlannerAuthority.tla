------------------------- MODULE MCPlannerAuthority -------------------------
(* A small household for TLC: a state says which entries are on the plan, a *)
(* command adds one entry and is refused where the entry already stands,   *)
(* and peek is a query that only a preview may carry.                      *)
EXTENDS PlannerAuthority, TLC

CONSTANTS a, b, peek, Nothing

MCEntries == {a, b}
MCCommands == {a, b, peek}
MCPreviewOnly == {peek}
MCStates == [MCEntries -> BOOLEAN]
MCEffect == [s \in MCStates |->
               [c \in MCCommands |->
                  IF c = peek THEN s ELSE IF s[c] THEN Nothing ELSE [s EXCEPT ![c] = TRUE]]]
\* Once b stands, a is no longer eligible on the base state.
MCBaseEligible == [s \in MCStates |-> IF s[b] THEN {b, peek} ELSE MCCommands]

\* Every kind of request under every ID: payloads that differ under one ID,
\* batches that fail at the first, the second and no operation or before any
\* of them, undo of the newest and of an older change, a seed and an import
\* that cannot be read.
MCBatches == {<<a>>, <<b, a>>, <<a, peek>>}
MCEmpty == [c \in MCEntries |-> FALSE]
MCAsked ==
    [kind : MutationKinds, id : RequestIds, base : 0..MaxVersion-1, ops : MCBatches]
    \cup {r \in [kind : {"planner_undo"}, id : RequestIds, base : 0..MaxVersion-1, target : 1..MaxVersion] :
            r.base \in {r.target, r.target + 1}}
    \cup [kind : {"workspace_bootstrap"}, id : RequestIds, install : {MCEmpty, Nothing}]

MCSymmetry == Permutations(RequestIds)
=============================================================================

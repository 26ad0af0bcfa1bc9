---------------------------- MODULE MCToolCalls ----------------------------
(* A small household for TLC, and two turns of one entry each: an apply and *)
(* a query that reuses its call ID, then the import of an approved week    *)
(* and the import of a recipe, which comes one over the limit.             *)
EXTENDS Integers, TLC

CONSTANTS a, b, Nothing

MCEntries == {a, b}
MCCommands == {a, b}
MCStates == [MCEntries -> BOOLEAN]
MCEffect == [s \in MCStates |->
               [c \in MCCommands |-> IF s[c] THEN Nothing ELSE [s EXCEPT ![c] = TRUE]]]
MCBaseEligible == [s \in MCStates |-> MCCommands]

Apply == "native_codex_apply_planner_operations_v1"
Import == "native_codex_import_approved_week_v1"
MCKinds == {Apply, Import, "planner_command"}

Ask(kind, id, base, entry) == [kind |-> kind, id |-> id, base |-> base, ops |-> <<entry>>]

Add == [turn |-> 1, call |-> 1, tool |-> "apply", request |-> Ask(Apply, 1, 0, a)]
AddOther == [turn |-> 2, call |-> 2, tool |-> "importRecipe", request |-> Ask(Apply, 2, 0, b)]
Week == [turn |-> 2, call |-> 1, tool |-> "importApprovedWeek", request |-> Ask(Import, 3, 0, b)]
Look == [turn |-> 1, call |-> 1, tool |-> "preview"]

MCOneCall == {Add}
MCCallbacks == {Add, AddOther, Week, Look}
MCMalformed == {}
\* The week is exhausted as long as a is not on the plan.
MCCovers == [s \in MCStates |-> IF s[a] THEN {} ELSE {Week}]
MCNoCovers == [s \in MCStates |-> {}]

MCEmpty == [c \in MCEntries |-> FALSE]
MCInitial == {MCEmpty, Nothing}
MCAsked ==
    {c.request : c \in {Add, AddOther, Week}}
    \cup {[kind |-> "planner_undo", id |-> 4, base |-> 1, target |-> 1]}
=============================================================================

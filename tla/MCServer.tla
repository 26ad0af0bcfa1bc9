------------------------------- MODULE MCServer -------------------------------
(* The parts of the server that answer at once, for TLC: the household       *)
(* commands, the tools that Codex calls, and the connection they come over.  *)
(* A command reads no state of the connection, and here a tool call changes  *)
(* a household of its own, so a behaviour moves one of them.                 *)
EXTENDS MCHousehold, MCToolCalls, PlannerToolCalls, NativeSession

serverVars == <<householdVars, vars, sessionVars>>

\* The other parts wait in one initial state.
Resting ==
    /\ WeeksInit /\ RecipesInit /\ CatalogueInit /\ TimersInit /\ written = <<>>
ServerInit ==
    /\ Init /\ SessionInit
    /\ \/ HouseholdInit /\ current = Nothing
       \/ part = "calls" /\ Resting
       \/ part = "session" /\ Resting /\ current = Nothing

RunCommand == HouseholdNext /\ UNCHANGED <<vars, sessionVars>>
ServeCalls == part = "calls" /\ Next /\ UNCHANGED <<householdVars, sessionVars>>
MoveSession == part = "session" /\ SessionNext /\ UNCHANGED <<householdVars, vars>>

ServerSpec ==
    ServerInit /\ [][RunCommand \/ ServeCalls \/ MoveSession]_serverVars
=============================================================================

----------------------------- MODULE MCCodexHost -----------------------------
(* What the planner carries on for the app-server, for TLC: an apply that is *)
(* delivered to two hosts; a message that is sent again under the same       *)
(* request ID, under another one, and with another payload; two callers that *)
(* hold an execution of the Codex executable when that changes.  They share  *)
(* no state, so a behaviour moves one of them.                               *)
EXTENDS PlannerToolCalls, MCToolCalls

VARIABLES
    part,   \* what moves: "calls", "messages" or "runtime"
    selection, starting, admitted, receipts, fence, op, listing, status, maker,
    nativeActive, history, wire, calls, failures, answered,
    disk, config, contract, planners, spoiled, published, accepted, bundles, torn, readiness,
    execution, evaluation, replacement, spawns, closed, started, reevaluated

CONSTANTS Nobody, Awaited, Failed

Message == [id |-> "s1", thread |-> 1, client |-> "c1", base |-> 1]
MCResent == {Message, [Message EXCEPT !.id = "s2"], [Message EXCEPT !.client = "c2"]}
Messages ==
    INSTANCE CodexThreads WITH
        Sends <- MCResent, News <- {},
        MaxThreads <- 1, Existing <- 1, MaxCalls <- 3, MaxRevision <- 1, MaxFailures <- 1,
        MaxReceipts <- 1, active <- nativeActive

\* Two callers, and one update or edit.
Runtime ==
    INSTANCE CodexRuntime WITH
        Builds <- {1, 2}, Installed <- {1}, Follows <- {<<1, 2>>}, Contracts <- {"x"},
        Compatible <- {<<1, "x">>, <<2, "x">>}, Callers <- {1, 2},
        MaxBundles <- 3, MaxRestarts <- 0, MaxChanges <- 1, MaxPlanners <- 0,
        Nothing <- Nobody

ASSUME Runtime!RuntimeAssumption

messageVars ==
    <<selection, starting, admitted, receipts, fence, op, listing, status, maker,
      nativeActive, history, wire, calls, failures, answered>>
runtimeVars ==
    <<disk, config, contract, planners, spoiled, published, accepted, bundles, torn, readiness,
      execution, evaluation, replacement, spawns, closed, started, reevaluated>>

HostInit ==
    /\ part \in {"calls", "messages", "runtime"}
    /\ Init /\ Messages!Init /\ Runtime!RuntimeInit
    /\ part # "calls" => current = Nothing
Serve(action) == part = "calls" /\ action /\ UNCHANGED <<part, messageVars, runtimeVars>>
Pass(action) == part = "messages" /\ action /\ UNCHANGED <<part, vars, runtimeVars>>
Trust(action) == part = "runtime" /\ action /\ UNCHANGED <<part, vars, messageVars>>
ServeCalls == Serve(Next)
PassMessages == Pass(Messages!Next)
ManageExecutable == Trust(Runtime!RuntimeNext)
hostVars == <<part, vars, messageVars, runtimeVars>>

\* The fairness of each part. As one part moves, a condition on the actions of
\* several stands for one on each.
TakeUp == (\E h \in Hosts, c \in Callbacks : Serve(Recover(h, c))) \/ Pass(Messages!Read(1))
Settle == (\E h \in Hosts, c \in Callbacks : Serve(Finish(h, c))) \/ Pass(Messages!CompleteAdmission)
HostFairness ==
    /\ SF_hostVars(TakeUp) /\ SF_hostVars(Settle)
    /\ SF_hostVars(Pass(Messages!HistoryDisagrees))
    /\ \A r \in MCResent : SF_hostVars(Pass(Messages!SubmitSend(r)))
    /\ WF_hostVars(Pass(Messages!Proceed) \/ Trust(Runtime!Evaluate))
    /\ \A c \in {1, 2} : WF_hostVars(Trust(Runtime!Caller(c)))

HostSpec == HostInit /\ [][ServeCalls \/ PassMessages \/ ManageExecutable]_hostVars /\ HostFairness

LandedSettles == Messages!LandedSettles
\* A runtime that waits stays at its first evaluation.
StartsEnd == part = "runtime" => Runtime!StartsEnd
=============================================================================

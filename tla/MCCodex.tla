------------------------------- MODULE MCCodex -------------------------------
(* The conversations that are shared with the app-server, the executable     *)
(* that it runs, and the copies it is run from, for TLC.  None reads another *)
(* one's state, so a behaviour moves one of them.                            *)
EXTENDS MCCodexThreads, CodexRuntime, ExecutableSnapshots

VARIABLE part   \* what moves: "threads", "runtime", "callers" or "snapshots"

\* Builds that follow each other, of which the third is not accepted; for the other
\* release only the first is.
MCFollows == {<<1, 2>>, <<2, 3>>, <<3, 4>>}
MCCompatible == {<<1, "x">>, <<2, "x">>, <<4, "x">>, <<1, "y">>}

\* Two callers that share what they run, and two builds put in each other's place.
Shared ==
    INSTANCE CodexRuntime WITH
        Builds <- {1, 2}, Installed <- {1}, Follows <- {<<1, 2>>, <<2, 1>>},
        Contracts <- {"x"}, Compatible <- {<<1, "x">>, <<2, "x">>},
        Callers <- {1, 2}, MaxBundles <- 3, MaxRestarts <- 0, MaxChanges <- 2, MaxPlanners <- 0

ASSUME Shared!RuntimeAssumption

threadVars == vars
codexVars == <<part, threadVars, runtimeVars, snapshotVars>>

\* The other parts wait in one initial state.
CodexInit ==
    /\ part \in {"threads", "runtime", "callers", "snapshots"}
    /\ Init /\ SnapshotInit
    /\ IF part = "callers" THEN Shared!RuntimeInit ELSE RuntimeInit
    /\ part # "runtime" => contract = "x"
    /\ part # "snapshots" => executable = "b1"

Converse == part = "threads" /\ Next /\ UNCHANGED <<part, runtimeVars, snapshotVars>>
ManageExecutable == part = "runtime" /\ RuntimeNext /\ UNCHANGED <<part, threadVars, snapshotVars>>
ShareExecutable == part = "callers" /\ Shared!RuntimeNext /\ UNCHANGED <<part, threadVars, snapshotVars>>
CopyExecutable == part = "snapshots" /\ SnapshotNext /\ UNCHANGED <<part, threadVars, runtimeVars>>

CodexSpec ==
    CodexInit
    /\ [][Converse \/ ManageExecutable \/ ShareExecutable \/ CopyExecutable]_codexVars
=============================================================================

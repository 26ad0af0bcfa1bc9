-------------------------------- MODULE MCHost --------------------------------
(* What runs around the planner on its machine, for TLC: the lease that its  *)
(* processes contend for, the commands that promote and recover it, and the  *)
(* upgrade of its database at a start.  The last two only need that whoever  *)
(* runs holds the lease, and a promotion takes a start as one step, so a     *)
(* behaviour moves one of the three.                                         *)
EXTENDS RuntimeOwnership, ReleaseLifecycle, StoreMigration

VARIABLE part   \* what moves: "lease", "release" or "store"

hostVars == <<part, vars, releaseVars, storeVars>>

\* Each waits in one initial state while another moves.
ReleaseWaits == slots["previous"] = NoApp /\ data.schema = "old" /\ healthy = {4}
StoreWaits == file.version = CurrentSchema /\ born.sound /\ ~born.embedded
HostInit ==
    /\ Init /\ ReleaseInit /\ StoreInit
    /\ \/ part = "lease" /\ ReleaseWaits /\ StoreWaits
       \/ part = "release" /\ StoreWaits
       \/ part = "store" /\ ReleaseWaits
Contend(action) == part = "lease" /\ action /\ UNCHANGED <<part, releaseVars, storeVars>>
Run(action) == part = "release" /\ action /\ UNCHANGED <<part, vars, storeVars>>
Open(action) == part = "store" /\ action /\ UNCHANGED <<part, vars, releaseVars>>
ContendForLease == Contend(Next)
RunCommands == Run(ReleaseNext)
OpenStore == Open(StoreNext)

\* The fairness of each part.  As one part moves, a condition on the actions of
\* several stands for one on each.
HostFairness ==
    /\ \A p \in Procs : WF_hostVars(Contend(Acquire(p) \/ End(p)))
    /\ SF_hostVars(Contend(\E p \in Procs : Probe(p)) \/ Run(Recover))
    /\ WF_hostVars(Run(Command) \/ Open(Progress))
    /\ WF_hostVars(Run(StartService)) /\ WF_hostVars(Run(BecomesReady))

HostSpec == HostInit /\ [][ContendForLease \/ RunCommands \/ OpenStore]_hostVars /\ HostFairness

\* A store that waits is not asked for anything.
StoreOpens == part = "store" => Opens
=============================================================================

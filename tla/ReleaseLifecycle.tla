--------------------------- MODULE ReleaseLifecycle ---------------------------
(***************************************************************************)
(* Promotion and recovery of the installed planner                         *)
(* (scripts/support/production-release.mjs), wired as direct-deploy.mjs    *)
(* and recover-deployment.mjs wire it: four directories under              *)
(* ~/meal-planner, the launchd service that always starts `app', and the   *)
(* schema transition of the household's database.                          *)
(*                                                                         *)
(* One command runs at a time (RuntimeOwnership shows the lease that       *)
(* makes it so).  Each action is one call the command awaits: it may fail  *)
(* there, or be killed before the next one.  The service and the household *)
(* go on by themselves in between.                                         *)
(***************************************************************************)
EXTENDS Naturals, Sequences

CONSTANTS
    Installs,      \* how many releases are installed at first: 1 or 2
    Schemas,       \* the schema of the database at first: "old" or "current"
    Candidates,    \* builds to promote; one that is gone stands for a new one
    Broken,        \* which builds may be unable to become ready
    MaxTroubles,   \* bound: calls that fail by accident, kills and restarts
    MaxVersion     \* bound: planner version of the database

NoApp == 0
Builds == {1, 2} \cup Candidates
Slots == {"app", "previous", "staging", "retiring"}

ASSUME ReleaseAssumption ==
    /\ Installs \subseteq {1, 2} /\ Candidates \subseteq Nat \ 0..2
    /\ Schemas \subseteq {"old", "current"}
    /\ {MaxTroubles, MaxVersion} \subseteq Nat

VARIABLES
    slots,      \* the build in each of the four directories
    svc,        \* the launchd job: loaded, the build its process runs, ready
    data,       \* the database: schema and planner version
    op,         \* the command that runs, or the last one
    healthy,    \* builds that become ready over a database they support
    modern,     \* builds that carry the current schema
    troubles

releaseVars == <<slots, svc, data, op, healthy, modern, troubles>>
world == <<healthy, modern>>

Present(s) == slots[s] # NoApp
App == slots["app"]

Down == [loaded |-> FALSE, run |-> NoApp, ready |-> FALSE]
Loaded == [Down EXCEPT !.loaded = TRUE]

\* A command that has not started: where it is, what it is doing there, the
\* renames it still has to do, what it read and what it can restore; and for
\* the properties, the slots it began with, the build it took to be ready,
\* and whether a call failed by accident.
Resting == [at |-> "idle", kind |-> "none", phase |-> "none", moves |-> <<>>,
            plan |-> [schema |-> "none", version |-> 0], handle |-> NoApp,
            begun |-> [s \in Slots |-> NoApp], accepted |-> NoApp, hurt |-> FALSE,
            result |-> "none"]

Moves == [from : Slots, to : Slots]
Places == {"idle", "prepare", "preflight", "halt", "transition", "restore",
           "normalize", "move", "boot", "wait", "probe", "clean"}
Phases == {"none", "select", "undo", "normalize", "establish", "fallback", "keep", "reverse"}
Results == {"none", "refused", "selected", "restored", "lost", "kept", "failed", "incomplete"}

ReleaseTypeOK ==
    /\ slots \in [Slots -> Builds \cup {NoApp}]
    /\ svc \in [loaded : BOOLEAN, run : Builds \cup {NoApp}, ready : BOOLEAN]
    /\ svc.ready => svc.run # NoApp
    /\ data \in [schema : {"old", "current"}, version : 1..MaxVersion]
    /\ op \in [at : Places, kind : {"none", "promote", "recover"}, phase : Phases,
               moves : UNION {[1..n -> Moves] : n \in 0..3},
               plan : [schema : {"none", "old", "current"}, version : 0..MaxVersion],
               handle : 0..MaxVersion, begun : [Slots -> Builds \cup {NoApp}],
               accepted : Builds \cup {NoApp}, hurt : BOOLEAN, result : Results]
    /\ op.at = "move" <=> op.moves # <<>>
    /\ healthy \subseteq Builds /\ modern \subseteq Builds
    /\ troubles \in 0..MaxTroubles

ReleaseInit ==
    \E n \in Installs, schema \in Schemas, broken \in SUBSET Broken :
        /\ slots = [s \in Slots |-> CASE s = "app" -> n
                                      [] s = "previous" -> n - 1
                                      [] OTHER -> NoApp]
        /\ healthy = Builds \ broken
        /\ modern = IF schema = "current" THEN Builds ELSE Candidates
        /\ data = [schema |-> schema, version |-> 1]
        /\ svc = IF n \in healthy THEN [loaded |-> TRUE, run |-> n, ready |-> TRUE] ELSE Loaded
        /\ op = Resting
        /\ troubles = 0

-----------------------------------------------------------------------------
(* Where a command goes next *)

Put(from, to) == [from |-> from, to |-> to]
MoveIf(from, to) == IF Present(from) THEN <<Put(from, to)>> ELSE <<>>

Ended(result) == [op EXCEPT !.at = "idle", !.phase = "none", !.moves = <<>>, !.result = result]
FaultHaltKeepsMoves(phase) == [op EXCEPT !.at = "halt", !.phase = phase]
Halt(phase) == [op EXCEPT !.at = "halt", !.phase = phase, !.moves = <<>>]

\* After the last rename of a phase.
Renamed == [select |-> "boot", undo |-> "boot", normalize |-> "probe",
            fallback |-> "boot", keep |-> "clean", reverse |-> "boot"]
Rename(phase, moves) ==
    [op EXCEPT !.phase = phase, !.moves = moves,
               !.at = IF moves = <<>> THEN Renamed[phase] ELSE "move"]

\* Where the exception of a call made in each phase is caught.
Caught ==
    CASE op.phase = "select" -> [Halt("undo") EXCEPT !.hurt = FALSE]
      [] op.phase = "undo" -> Ended("lost")
      [] op.phase = "establish" -> IF Present("previous") THEN Halt("fallback") ELSE Ended("failed")
      [] op.phase = "fallback" ->
           IF Present("app") /\ Present("previous") /\ ~Present("retiring")
             THEN Rename("reverse", <<>>) ELSE Halt("reverse")
      [] op.phase = "keep" -> Ended("incomplete")
      [] op.phase \in {"normalize", "reverse"} -> Ended("failed")

\* A call fails by accident.
Trouble == troubles < MaxTroubles /\ troubles' = troubles + 1
Hurt(next) == [next EXCEPT !.hurt = TRUE]

\* The readiness probe asks a job that is loaded.
ProbeReady == svc.loaded /\ svc.ready

\* What recovery makes of the four directories (recoveryTopologyDecision).
Decision ==
    LET has(S) == S = {s \in Slots : Present(s)} IN
    CASE ~Present("app") /\ ~Present("previous") -> "no-fixed-slot"
      [] has({"app", "staging", "retiring"}) -> "restore-older-previous"
      [] ~Present("app") /\ Present("previous") /\ Present("staging") -> "restore-interrupted-candidate-selection"
      [] has({"app", "previous", "retiring"}) -> "completed-candidate-selection"
      [] has({"previous", "retiring"}) -> "reverse-interrupted-fallback"
      [] has({"app", "retiring"}) -> "complete-ready-fallback"
      [] has({"previous"}) -> "restore-sole-previous"
      [] OTHER -> "keep-app"

MovesFor(decision) ==
    CASE decision \in {"restore-older-previous", "complete-ready-fallback"} -> <<Put("retiring", "previous")>>
      [] decision = "restore-interrupted-candidate-selection" ->
           <<Put("previous", "app")>> \o MoveIf("retiring", "previous")
      [] decision = "completed-candidate-selection" ->
           IF ProbeReady THEN <<>>
           ELSE <<Put("app", "staging"), Put("previous", "app"), Put("retiring", "previous")>>
      [] decision = "reverse-interrupted-fallback" -> <<Put("retiring", "app")>>
      [] decision = "restore-sole-previous" -> <<Put("previous", "app")>>
      [] OTHER -> <<>>

FaultKeepApp(decision) == MovesFor(IF Decision = decision THEN "keep-app" ELSE Decision)
FaultLeaveRetired == FaultKeepApp("restore-older-previous")
FaultKeepCandidate == FaultKeepApp("completed-candidate-selection")

NormalMoves == MovesFor(Decision)

\* How a failed promotion puts the slots back (restorePromotionTopology).
FaultUndoInOrder ==
    IF Present("previous") /\ ~Present("staging")
      THEN <<Put("previous", "app"), Put("app", "staging")>> ELSE <<>>

UndoMoves ==
    CASE Present("app") /\ Present("previous") /\ ~Present("staging") ->
           <<Put("app", "staging"), Put("previous", "app")>> \o MoveIf("retiring", "previous")
      [] ~Present("app") /\ Present("previous") ->
           <<Put("previous", "app")>> \o MoveIf("retiring", "previous")
      [] Present("app") /\ ~Present("previous") /\ Present("retiring") -> <<Put("retiring", "previous")>>
      [] OTHER -> <<>>

-----------------------------------------------------------------------------
(* Promotion, up to the selection of the candidate *)

FaultClearRetiring ==
    /\ op.at = "idle"
    /\ slots' = [slots EXCEPT !["staging"] = NoApp, !["retiring"] = NoApp]
    /\ op' = [Resting EXCEPT !.at = "prepare", !.kind = "promote", !.phase = "select", !.begun = slots]
    /\ UNCHANGED <<svc, data, world, troubles>>

\* Refused while a retiring directory waits for recovery.
Promote ==
    /\ op.at = "idle"
    /\ ~Present("retiring")
    /\ slots' = [slots EXCEPT !["staging"] = NoApp]
    /\ op' = [Resting EXCEPT !.at = "prepare", !.kind = "promote", !.phase = "select", !.begun = slots]
    /\ UNCHANGED <<svc, data, world, troubles>>

Prepare ==
    /\ op.at = "prepare"
    /\ \E b \in Candidates \ ({slots[s] : s \in Slots} \cup {svc.run}) :
         slots' = [slots EXCEPT !["staging"] = b]
    /\ op' = [op EXCEPT !.at = "preflight"]
    /\ UNCHANGED <<svc, data, world, troubles>>

Preflight ==
    /\ op.at = "preflight"
    /\ op' = [Halt("select") EXCEPT !.plan = data]
    /\ UNCHANGED <<slots, svc, data, world, troubles>>

\* Preparation or preflight finds the candidate wanting.
RejectCandidate ==
    /\ op.at \in {"prepare", "preflight"}
    /\ slots' = [slots EXCEPT !["staging"] = NoApp]
    /\ op' = Ended("refused")
    /\ UNCHANGED <<svc, data, world, troubles>>

SelectMoves ==
    MoveIf("previous", "retiring") \o MoveIf("app", "previous") \o <<Put("staging", "app")>>

\* The stopped service's database is what preflight saw, and is migrated if
\* its schema is old.  The promotion remembers the version it backed up.
Transition ==
    /\ op.at = "transition"
    /\ data = op.plan
    /\ data' = [data EXCEPT !.schema = "current"]
    /\ op' = [Rename("select", SelectMoves) EXCEPT
                !.handle = IF data.schema = "old" THEN data.version ELSE NoApp]
    /\ UNCHANGED <<slots, svc, world, troubles>>

\* A migration that fails is taken back, unless that fails as well.
Migrates == op.plan.schema = "old"

TransitionFails ==
    /\ op.at = "transition"
    /\ \/ data # op.plan /\ op' = Caught /\ UNCHANGED <<data, troubles>>
       \/ Trouble /\ op' = Caught /\ UNCHANGED data
       \/ Trouble /\ Migrates /\ op' = Hurt(Caught) /\ data' = [data EXCEPT !.schema = "current"]
    /\ UNCHANGED <<slots, svc, world>>

\* Puts the backup back under the version it was taken at; a database that
\* has moved on is left alone.
Backup == [schema |-> "old", version |-> op.handle]
FaultRestoreAnyway == op.handle # NoApp
Restorable == op.handle # NoApp /\ data.version = op.handle
DataMigrated == Migrates /\ data.schema = "current"

RestoreData ==
    /\ op.at = "restore"
    /\ DataMigrated => Restorable
    /\ data' = IF DataMigrated THEN Backup ELSE data
    /\ op' = Rename("undo", UndoMoves)
    /\ UNCHANGED <<slots, svc, world, troubles>>

RestoreDataFails ==
    /\ op.at = "restore"
    /\ Migrates
    /\ \/ DataMigrated /\ ~Restorable /\ op' = Caught /\ UNCHANGED troubles
       \/ Trouble /\ op' = Hurt(Caught)
    /\ UNCHANGED <<slots, svc, data, world>>

-----------------------------------------------------------------------------
(* Recovery, and the calls both commands make *)

Recovery == [Resting EXCEPT !.at = "normalize", !.kind = "recover", !.phase = "normalize", !.begun = slots]

Recover ==
    /\ op.at = "idle"
    /\ op' = Recovery
    /\ UNCHANGED <<slots, svc, data, world, troubles>>

Normalize ==
    /\ op.at = "normalize"
    /\ op' = IF Decision = "no-fixed-slot" THEN Ended("failed") ELSE Rename("normalize", NormalMoves)
    /\ UNCHANGED <<slots, svc, data, world, troubles>>

\* What follows once the service is known to be stopped.
Stopped ==
    CASE op.phase = "select" -> [op EXCEPT !.at = "transition"]
      [] op.phase = "undo" -> [op EXCEPT !.at = "restore"]
      [] op.phase = "establish" -> [op EXCEPT !.at = "boot"]
      [] op.phase = "fallback" -> Rename("fallback", <<Put("app", "retiring"), Put("previous", "app")>>)
      [] op.phase = "reverse" -> Rename("reverse", MoveIf("app", "previous") \o MoveIf("retiring", "app"))

Quiesce ==
    /\ op.at = "halt"
    /\ svc' = Down
    /\ op' = Stopped
    /\ UNCHANGED <<slots, data, world, troubles>>

\* The fence reports that something still runs: the job, a process that
\* outlives it, or nothing any more.  A promotion that cannot stop the service
\* recovers instead.
StillThere == {svc, [svc EXCEPT !.loaded = FALSE], Down}

FaultTrustBootout ==
    /\ op.at = "halt"
    /\ Trouble
    /\ svc' = [svc EXCEPT !.loaded = FALSE]
    /\ op' = Stopped
    /\ UNCHANGED <<slots, data, world>>

QuiesceFails ==
    /\ op.at = "halt"
    /\ Trouble
    /\ svc' \in StillThere
    /\ op' = Hurt(CASE op.phase = "select" -> Recovery
                    [] op.phase = "undo" -> Ended("lost")
                    [] OTHER -> Ended("failed"))
    /\ UNCHANGED <<slots, data, world>>

\* rename(2) refuses a directory that is missing and a name that is taken.
Movable(m) == Present(m.from) /\ ~Present(m.to)

Move ==
    /\ op.at = "move"
    /\ LET m == Head(op.moves) IN
         /\ Movable(m)
         /\ slots' = [slots EXCEPT ![m.to] = slots[m.from], ![m.from] = NoApp]
    /\ op' = Rename(op.phase, Tail(op.moves))
    /\ UNCHANGED <<svc, data, world, troubles>>

MoveFails ==
    /\ op.at = "move"
    /\ \/ ~Movable(Head(op.moves)) /\ op' = Caught /\ UNCHANGED troubles
       \/ Trouble /\ op' = Hurt(Caught)
    /\ UNCHANGED <<slots, svc, data, world>>

\* The selected app is only booted over a schema it carries.  An old app over
\* the current schema gets the backup of this promotion back, or no boot.
Fits == (App \in modern) <=> (data.schema = "current")
NeedsBackup == App \notin modern /\ data.schema = "current"
Bootable == ~svc.loaded /\ Present("app") /\ (Fits \/ (NeedsBackup /\ Restorable))

Bootstrap ==
    /\ op.at = "boot"
    /\ Bootable
    /\ data' = IF Fits THEN data ELSE Backup
    /\ svc' = [svc EXCEPT !.loaded = TRUE]
    /\ op' = [op EXCEPT !.at = "wait"]
    /\ UNCHANGED <<slots, world, troubles>>

BootstrapFails ==
    /\ op.at = "boot"
    /\ \/ ~Bootable /\ op' = Caught /\ UNCHANGED troubles
       \/ Trouble /\ op' = Hurt(Caught)
    /\ UNCHANGED <<slots, svc, data, world>>

\* What follows once the selected app counts as ready.
Accepted ==
    LET ready == [op EXCEPT !.accepted = App] IN
    CASE op.phase = "fallback" -> [ready EXCEPT !.phase = "keep", !.at = "move",
                                                !.moves = <<Put("retiring", "previous")>>]
      [] op.phase = "reverse" -> [Ended("failed") EXCEPT !.accepted = App]
      [] OTHER -> [ready EXCEPT !.at = "clean"]

Ready ==
    /\ op.at \in {"wait", "probe"}
    /\ ProbeReady
    /\ op' = Accepted
    /\ UNCHANGED <<slots, svc, data, world, troubles>>

\* A probe that finds the service not ready has it stopped and booted again.
NotReady ==
    /\ op.at = "probe"
    /\ ~ProbeReady
    /\ op' = Halt("establish")
    /\ UNCHANGED <<slots, svc, data, world, troubles>>

\* The wait for readiness ends; a healthy app was too slow.
TimesOut ==
    /\ op.at = "wait"
    /\ ~ProbeReady
    /\ IF App \in healthy THEN Trouble /\ op' = Hurt(Caught)
                          ELSE op' = Caught /\ UNCHANGED troubles
    /\ UNCHANGED <<slots, svc, data, world>>

\* A restored promotion leaves the retiring directory alone.
Residue == {s \in {"retiring", "staging"} : Present(s) /\ (s = "retiring" => op.phase # "undo")}

Clean ==
    /\ op.at = "clean"
    /\ Residue # {}
    /\ LET s == IF "retiring" \in Residue THEN "retiring" ELSE "staging" IN
         slots' = [slots EXCEPT ![s] = NoApp]
    /\ UNCHANGED <<op, svc, data, world, troubles>>

CleanFails ==
    /\ op.at = "clean"
    /\ Trouble
    /\ op' = Hurt(Ended("incomplete"))
    /\ UNCHANGED <<slots, svc, data, world>>

FinishCommand ==
    /\ op.at = "clean"
    /\ Residue = {}
    /\ op' = Ended(CASE op.phase = "select" -> "selected"
                   [] op.phase = "undo" -> "restored"
                   [] OTHER -> "kept")
    /\ UNCHANGED <<slots, svc, data, world, troubles>>

-----------------------------------------------------------------------------
(* Kills, launchd and the household *)

Kill ==
    /\ op.at # "idle"
    /\ Trouble
    /\ op' = Resting
    /\ UNCHANGED <<slots, svc, data, world>>

\* The machine restarts, and launchd loads the job again.
Restart ==
    /\ Trouble
    /\ op' = Resting
    /\ svc' = Loaded
    /\ UNCHANGED <<slots, data, world>>

\* launchd starts whatever is in `app'.  A build that carries the current
\* schema migrates the database it opens; an older one refuses a newer schema.
StartService ==
    /\ svc.loaded /\ svc.run = NoApp
    /\ Present("app")
    /\ App \in modern \/ data.schema = "old"
    /\ svc' = [svc EXCEPT !.run = App]
    /\ data' = IF App \in modern THEN [data EXCEPT !.schema = "current"] ELSE data
    /\ UNCHANGED <<slots, op, world, troubles>>

BecomesReady ==
    /\ svc.run \in healthy
    /\ ~svc.ready
    /\ svc' = [svc EXCEPT !.ready = TRUE]
    /\ UNCHANGED <<slots, data, op, world, troubles>>

\* A process ends by accident, or because its job is gone.
Dies ==
    /\ svc.run # NoApp
    /\ IF svc.loaded THEN Trouble ELSE UNCHANGED troubles
    /\ svc' = [svc EXCEPT !.run = NoApp, !.ready = FALSE]
    /\ UNCHANGED <<slots, data, op, world>>

\* The household changes its plan through whatever process serves it.
Write ==
    /\ svc.run # NoApp
    /\ data.version < MaxVersion
    /\ data' = [data EXCEPT !.version = @ + 1]
    /\ UNCHANGED <<slots, svc, op, world, troubles>>

Command ==
    \/ Prepare \/ Preflight \/ RejectCandidate \/ Transition \/ TransitionFails
    \/ RestoreData \/ RestoreDataFails \/ Normalize \/ Quiesce \/ QuiesceFails
    \/ Move \/ MoveFails \/ Bootstrap \/ BootstrapFails \/ Ready \/ NotReady
    \/ TimesOut \/ Clean \/ CleanFails \/ FinishCommand

ReleaseNext ==
    \/ Promote \/ Recover \/ Command
    \/ Kill \/ Restart \/ StartService \/ BecomesReady \/ Dies \/ Write

ReleaseSpec == ReleaseInit /\ [][ReleaseNext]_releaseVars

\* Calls return, launchd starts its job, a healthy build becomes ready, and
\* somebody runs make recover again and again.
FairReleaseSpec ==
    /\ ReleaseSpec
    /\ WF_releaseVars(Command) /\ WF_releaseVars(StartService) /\ WF_releaseVars(BecomesReady) /\ SF_releaseVars(Recover)

-----------------------------------------------------------------------------
(* Properties *)

\* What a promotion reports is what happened.  "selected": its candidate is in
\* `app' and the app it replaced in `previous'.  "restored": both directories
\* are as it found them.  "lost", the household without its service: a second
\* call failed while the first failure was undone, the app it began with did not
\* carry the database or could not become ready then either, or the household
\* has written to the migrated database, which is then kept (RR1, RR6).
Carries(b, schema) == b \in modern <=> schema = "current"
LostForAReason ==
    \/ op.hurt
    \/ op.begun["app"] \notin healthy
    \/ ~Carries(op.begun["app"], op.plan.schema)
    \/ op.handle # NoApp /\ data.version # op.handle

PromotionOutcome ==
    op.at = "idle" /\ op.kind = "promote" /\ op.begun["app"] # NoApp =>
        /\ op.result = "selected" => App = op.accepted /\ slots["previous"] = op.begun["app"]
        /\ op.result = "restored" => \A s \in {"app", "previous"} : slots[s] = op.begun[s]
        /\ op.result = "lost" => LostForAReason

\* Readiness that a promotion takes for its candidate's, or for the restored
\* app's, is not another process's (RR3).
PromotionProvesItsApp ==
    [][op.kind = "promote" /\ op'.accepted # op.accepted /\ op'.accepted # NoApp
         => svc.run = App]_releaseVars

\* No promotion and no recovery takes the household's writes back (RR6).
NoWriteLost == [][data'.version >= data.version]_releaseVars

\* What a promotion takes for ready is its own, and nothing the family wrote is lost.
PromotionSound == PromotionProvesItsApp /\ NoWriteLost

\* Outside `staging' nothing is deleted before the selected app is accepted.
KeptUntilReady ==
    [][\A s \in Slots \ {"staging"} :
         Present(s) /\ (\A t \in Slots : slots'[t] # slots[s]) => op.accepted = App /\ App # NoApp]_releaseVars

\* Where two releases are installed, one of them can always be selected.
SomeFixedSlot == Present("app") \/ Present("previous")
PairKeepsAFixedSlot == Present("previous") => []SomeFixedSlot

\* Where two working releases of the current schema are installed, recovery
\* brings a ready service back whatever failed before.
Sturdy == Present("previous") /\ data.schema = "current" /\ slots["app"] \in healthy /\ slots["previous"] \in healthy
RecoveryServes == Sturdy => []<>ProbeReady

\* Refuted: a recovery that met no accident, begun while a fixed slot held a
\* build that could serve the database, ends with a ready service.
Usable(b) == b \in healthy /\ Carries(b, data.schema)
RecoveredIfUsable ==
    op.at = "idle" /\ op.kind = "recover" /\ ~op.hurt /\ op.result # "none"
       /\ (Usable(op.begun["app"]) \/ Usable(op.begun["previous"])) => op.accepted # NoApp
=============================================================================

---------------------------- MODULE CodexRuntime ----------------------------
(***************************************************************************)
(* Which Codex executable the planner trusts, and when it may run it.      *)
(*                                                                         *)
(* Codex updates itself: the file behind the fixed launcher changes while  *)
(* the planner runs.  The managed runtime therefore evaluates the file it  *)
(* finds - identity, generated schema, capability probe, readback of the   *)
(* deployment - and hands out an execution that is bound to exactly that   *)
(* file and configuration.  Every start checks both again; a change sends  *)
(* all callers of that execution through one further evaluation.  What was *)
(* accepted is remembered on disk and spares the probe after a restart.    *)
(*                                                                         *)
(* JavaScript runs a callback to its end, and the promises it settles      *)
(* before anything else: each action is the code between two waits, and    *)
(* the end of an evaluation reaches all who wait for it at once.           *)
(***************************************************************************)
EXTENDS Integers, FiniteSets

CONSTANTS
  Builds,       \* contents of the executable
  Installed,    \* those that the first planner may find
  Follows,      \* the pairs of a build and one that an updater may put in its place
  Contracts,    \* what releases of the planner require of Codex
  Compatible,   \* the pairs <<build, contract>> that the probe accepts
  Callers,      \* sessions that start app-servers
  MaxBundles,   \* resource policy: schema bundles kept
  MaxRestarts,  \* retries of an evaluation whose executable changed
  MaxChanges,   \* bound: updates of the executable, edits of its configuration, failed copies
  MaxPlanners,  \* bound: planner processes, one after the other
  Nothing, Awaited, Failed

ASSUME RuntimeAssumption ==
  /\ Installed \subseteq Builds
  /\ Follows \subseteq Builds \X Builds
  /\ Compatible \subseteq Builds \X Contracts
  /\ MaxBundles \in Nat /\ MaxBundles >= 3
  /\ MaxRestarts \in Nat
  /\ MaxChanges \in Nat /\ MaxPlanners \in Nat

VARIABLES
  disk,         \* the executable behind the launcher: its content and the stamp of its file
  config,       \* the version of the Codex configuration
  contract,     \* what the running release of the planner requires
  planners,     \* planner processes so far
  spoiled,      \* copies of the executable that failed when it was about to run
  published,    \* compatibility-v1.json: the schema bundle it names
  accepted,     \* last-accepted-v1.json
  bundles,      \* the schema bundles on disk
  torn,         \* those of them that a removal has left in part
  readiness,    \* #readiness
  execution,    \* #execution
  evaluation,   \* #evaluation
  replacement,  \* #replacementByExecution
  spawns,       \* the calls of spawnAppServer
  closed,       \* #closed
  started,      \* the app-server started last, for the properties
  reevaluated   \* evaluations that a changed execution caused, for the properties

outside == <<disk, config, contract, planners, spoiled>>
cache == <<bundles, torn>>
evidence == <<published, accepted, cache>>
observed == <<started, reevaluated>>
runtimeVars == <<outside, evidence, readiness, execution, evaluation, replacement, spawns, closed, observed>>

Identity == [build : Builds, stamp : 0..MaxChanges]

\* Executions are objects.  Only an update, an edit or a failed copy met by a caller puts
\* an end to one, so that what it was made after tells it from those before and after it.
Execution == [identity : Identity, config : 0..MaxChanges, spoiled : 0..MaxChanges]
Ordinal(e) == e.identity.stamp + e.config + e.spoiled

\* What stands for no execution is none.
ASSUME MarksAssumption ==
  /\ {Nothing, Awaited, Failed} \cap Execution = {}
  /\ Nothing \notin {Awaited, Failed}

Ordinals == 0..(3 * MaxChanges)
Evaluation == [stage : {"validate", "capture", "schema", "prune", "publish", "probe",
                        "readback", "accept", "remember", "ready", "aborted"},
               attempt : 0..MaxRestarts, identity : Identity \cup {Nothing},
               bundle : Builds \cup {Nothing}, config : 0..MaxChanges, signedIn : BOOLEAN]
SpawnCall == [at : {"idle", "wait", "check", "open", "bind"},
         execution : Execution \cup {Nothing}, retried : BOOLEAN]

RuntimeTypeOK ==
  /\ disk \in Identity /\ config \in 0..MaxChanges
  /\ contract \in Contracts /\ planners \in 0..MaxPlanners /\ spoiled \in 0..MaxChanges
  /\ published \in Builds \cup {Nothing}
  /\ accepted \in [identity : Identity, contract : Contracts] \cup {Nothing}
  /\ bundles \subseteq Builds /\ torn \subseteq bundles
  /\ readiness \in {"checking", "compatible", "incompatible", "unauthenticated", "unavailable"}
  /\ execution \in Execution \cup {Nothing}
  /\ evaluation \in Evaluation \cup {Nothing}
  /\ replacement \in [Ordinals -> Execution \cup {Nothing, Awaited, Failed}]
  /\ spawns \in [Callers -> SpawnCall]
  /\ closed \in BOOLEAN
  /\ started \in (Builds \X Contracts) \cup {Nothing}
  /\ reevaluated \in [Ordinals -> Nat]

NoCall == [at |-> "idle", execution |-> Nothing, retried |-> FALSE]
Begun == [stage |-> "validate", attempt |-> 0, identity |-> Nothing, bundle |-> Nothing,
          config |-> 0, signedIn |-> FALSE]
NoReplacement == [o \in Ordinals |-> Nothing]
NeverReevaluated == [o \in Ordinals |-> 0]

\* A planner that starts evaluates before anybody can call it.
RuntimeInit ==
  /\ disk \in [build : Installed, stamp : {0}] /\ config = 0
  /\ contract \in Contracts /\ planners = 0 /\ spoiled = 0
  /\ published = Nothing /\ accepted = Nothing /\ bundles = {} /\ torn = {}
  /\ readiness = "checking" /\ execution = Nothing /\ evaluation = Begun
  /\ replacement = NoReplacement
  /\ spawns = [c \in Callers |-> NoCall]
  /\ closed = FALSE
  /\ started = Nothing /\ reevaluated = NeverReevaluated

-----------------------------------------------------------------------------
(* One evaluation. *)

AtStage(stage) == evaluation # Nothing /\ evaluation.stage = stage

\* The step that was under way when close aborted the evaluation ends; the next
\* check of the signal ends the evaluation.
Advance(e, stage) == [e EXCEPT !.stage = IF closed THEN "aborted" ELSE stage]
ProceedTo(stage) ==
  /\ evaluation' = Advance(evaluation, stage)
  /\ UNCHANGED <<outside, readiness, execution, replacement, spawns, closed, observed>>

\* The evaluation settles, and with it the replacements and the calls that wait for it.
SettleEvaluation(s, e) ==
  LET got == IF closed THEN Nothing ELSE e IN
  /\ evaluation' = Nothing
  /\ execution' = got
  /\ readiness' = IF ~closed THEN s ELSE IF readiness = "checking" THEN "unavailable" ELSE readiness
  /\ replacement' = [o \in Ordinals |->
       IF replacement[o] # Awaited THEN replacement[o]
       ELSE IF got = Nothing THEN Failed ELSE got]
  /\ spawns' = [c \in Callers |->
       IF spawns[c].at # "wait" THEN spawns[c]
       ELSE IF got = Nothing THEN NoCall ELSE [spawns[c] EXCEPT !.at = "check", !.execution = got]]
  /\ UNCHANGED <<outside, closed, observed>>

\* publishFinal of a disposition other than compatible keeps the last accepted one.
Conclude(s, named) ==
  /\ published' = named
  /\ SettleEvaluation(s, Nothing)
  /\ UNCHANGED <<accepted, cache>>

\* A step fails or is aborted, or the evaluation's deadline passes; the evidence
\* says so unless it cannot be written either.
Fail ==
  /\ evaluation # Nothing
  /\ \E named \in {published, evaluation.bundle} : Conclude("unavailable", named)

\* The executable is no longer the one under evaluation, or cannot be copied to be run,
\* which the launcher takes for a change; the evaluation starts over.
Changed == disk # evaluation.identity
StartOver ==
  /\ evaluation # Nothing
  /\ evaluation.stage \in {"capture", "schema", "probe", "readback"}
  /\ IF evaluation.attempt < MaxRestarts
     THEN /\ evaluation' = Advance([evaluation EXCEPT !.attempt = @ + 1, !.identity = Nothing,
                                                    !.bundle = Nothing], "capture")
          /\ UNCHANGED <<outside, evidence, readiness, execution, replacement, spawns, closed, observed>>
     ELSE Conclude("unavailable", evaluation.bundle)

\* validateDeployment, publishChecking(null)
Validate ==
  /\ AtStage("validate")
  /\ published' = Nothing
  /\ ProceedTo("capture")
  /\ UNCHANGED <<accepted, cache>>

\* captureIdentity opens and hashes the file, runs a copy of it for its version, and
\* looks whether the file is still the same.
Capture ==
  /\ AtStage("capture")
  /\ evaluation' = Advance([evaluation EXCEPT !.identity = disk], "schema")
  /\ UNCHANGED <<outside, evidence, readiness, execution, replacement, spawns, closed, observed>>

Fits == <<evaluation.identity.build, contract>> \in Compatible

\* The generated schema, or later the probe, lacks something that is required.
Incompatible ==
  /\ AtStage("schema") \/ AtStage("probe")
  /\ ~Changed /\ ~Fits
  /\ Conclude("incompatible", evaluation.bundle)

\* The generated schema gets its name in the cache.  A whole bundle of that name is the
\* same; one that a removal has torn gives way only if it is empty, and otherwise the
\* evaluation fails.
Generate ==
  /\ AtStage("schema") /\ ~Changed
  /\ bundles' = bundles \cup {evaluation.identity.build}
  /\ torn' = torn \ {evaluation.identity.build}
  /\ ProceedTo("prune")
  /\ UNCHANGED <<published, accepted>>

\* pruneSchemaBundles: what the evidence on disk names stays, and of the others the
\* newest, as long as there is room.  Which are the newest is left open, as a removal
\* that fails makes a directory newer.
FaultProtected(bundle) == {bundle, published}
Protected(bundle) == {bundle, published} \cup (IF accepted = Nothing THEN {} ELSE {accepted.identity.build})

Kept(bundle) ==
  LET names == Protected(bundle) \ {Nothing} IN
  {keep \in SUBSET bundles :
     /\ names \cap bundles \subseteq keep
     /\ Cardinality(keep \cup names) <= MaxBundles
     /\ keep = bundles \/ Cardinality(keep \cup names) = MaxBundles}

PruneBundles ==
  /\ AtStage("prune")
  /\ bundles' \in Kept(evaluation.identity.build) /\ torn' = torn \cap bundles'
  /\ evaluation' = Advance([evaluation EXCEPT !.bundle = evaluation.identity.build], "publish")
  /\ UNCHANGED <<outside, published, accepted, readiness, execution, replacement, spawns, closed,
                 observed>>

\* A removal fails, or the planner ends before all are done: some bundles are left, whole
\* or in part, and the evaluation gets no further.  External: removals that go on after
\* another one has failed are over before a later evaluation gets to the cache, as that
\* one runs the executable twice before.
PruneInPart ==
  /\ AtStage("prune")
  /\ \E keep \in Kept(evaluation.identity.build) :
       \E left \in SUBSET (bundles \ keep) \ {{}} : \E broken \in SUBSET left :
         /\ bundles' = keep \cup left
         /\ torn' = (torn \cap bundles') \cup broken
  /\ evaluation' = [evaluation EXCEPT !.stage = "aborted"]
  /\ UNCHANGED <<outside, published, accepted, readiness, execution, replacement, spawns, closed,
                 observed>>

\* readReusablePositive: the probe is spared for the same file and the same contract.
FaultReusable == accepted # Nothing /\ accepted.identity = evaluation.identity
Reusable == accepted # Nothing /\ accepted.identity = evaluation.identity /\ accepted.contract = contract

PublishSchema ==
  /\ AtStage("publish")
  /\ published' = evaluation.bundle
  /\ ProceedTo(IF Reusable THEN "readback" ELSE "probe")
  /\ UNCHANGED <<accepted, cache>>

Probe ==
  /\ AtStage("probe") /\ ~Changed /\ Fits
  /\ ProceedTo("readback")
  /\ UNCHANGED evidence

\* readDeployment: the configuration that the executable itself reads.
ReadBack ==
  /\ AtStage("readback") /\ ~Changed
  /\ \E signedIn \in BOOLEAN :
       evaluation' = Advance([evaluation EXCEPT !.config = config, !.signedIn = signedIn], "accept")
  /\ UNCHANGED <<outside, evidence, readiness, execution, replacement, spawns, closed, observed>>

\* publishFinal writes two files, one after the other.
Accept ==
  /\ AtStage("accept")
  /\ published' = evaluation.bundle
  /\ evaluation' = [evaluation EXCEPT !.stage = "remember"]
  /\ UNCHANGED <<outside, accepted, cache, readiness, execution, replacement, spawns, closed, observed>>

RememberAccepted ==
  /\ AtStage("remember")
  /\ accepted' = [identity |-> evaluation.identity, contract |-> contract]
  /\ ProceedTo("ready")
  /\ UNCHANGED <<published, cache>>

Ready ==
  /\ AtStage("ready")
  /\ IF evaluation.signedIn
     THEN SettleEvaluation("compatible", [identity |-> evaluation.identity, config |-> evaluation.config,
                                          spoiled |-> spoiled])
     ELSE SettleEvaluation("unauthenticated", Nothing)
  /\ UNCHANGED evidence

-----------------------------------------------------------------------------
(* The calls of spawnAppServer. *)

\* evaluate(): an evaluation under way is joined.
Join ==
  /\ evaluation' = IF evaluation = Nothing THEN Begun ELSE evaluation
  /\ readiness' = IF evaluation = Nothing THEN "checking" ELSE readiness

Sees(c, e) == [spawns EXCEPT ![c].at = "check", ![c].execution = e]
Waits(c) == [spawns EXCEPT ![c].at = "wait", ![c].execution = Nothing]
Ends(c) == [spawns EXCEPT ![c] = NoCall]

Spawn(c) ==
  /\ spawns[c] = NoCall /\ ~closed
  /\ IF execution # Nothing
     THEN spawns' = Sees(c, execution) /\ UNCHANGED <<evaluation, readiness>>
     ELSE spawns' = Waits(c) /\ Join
  /\ UNCHANGED <<outside, evidence, execution, replacement, closed, observed>>

\* As if the replacement were not remembered for the other callers.
FaultBeginReplacement(e) ==
  /\ ~closed
  /\ execution' = IF execution = e THEN Nothing ELSE execution
  /\ IF execution \in {e, Nothing}
     THEN /\ Join
          /\ reevaluated' = IF evaluation # Nothing THEN reevaluated
                            ELSE [reevaluated EXCEPT ![Ordinal(e)] = @ + 1]
     ELSE UNCHANGED <<evaluation, readiness, reevaluated>>
  /\ UNCHANGED replacement

\* beginReplacement(observed): the first caller that sees the change invalidates the
\* execution and starts the evaluation whose outcome all of its callers share.
BeginReplacement(e) ==
  /\ replacement[Ordinal(e)] = Nothing /\ ~closed
  /\ IF execution = e
     THEN /\ execution' = Nothing
          /\ Join
          /\ replacement' = [replacement EXCEPT ![Ordinal(e)] = Awaited]
          /\ reevaluated' = [reevaluated EXCEPT ![Ordinal(e)] = @ + 1]
     ELSE IF execution # Nothing
     THEN /\ replacement' = [replacement EXCEPT ![Ordinal(e)] = execution]
          /\ UNCHANGED <<execution, evaluation, readiness, reevaluated>>
     ELSE /\ Join
          /\ reevaluated' = IF evaluation # Nothing THEN reevaluated
                            ELSE [reevaluated EXCEPT ![Ordinal(e)] = @ + 1]
          /\ UNCHANGED <<execution, replacement>>

Replaced(e) ==
  \/ BeginReplacement(e)
  \/ /\ replacement[Ordinal(e)] # Nothing \/ closed
     /\ UNCHANGED <<execution, evaluation, readiness, replacement, reevaluated>>

FaultFollowed(c, e) ==
  LET r == replacement'[Ordinal(e)] IN
  IF r \in {Awaited, Failed, Nothing} THEN [Waits(c) EXCEPT ![c].retried = TRUE]
  ELSE [Sees(c, r) EXCEPT ![c].retried = TRUE]

\* What beginReplacement returned, for the caller that waits for it.
Followed(c, e) ==
  LET r == replacement'[Ordinal(e)] IN
  IF r = Failed \/ (closed /\ r = Nothing) THEN Ends(c)
  ELSE IF r \in {Awaited, Nothing} THEN [Waits(c) EXCEPT ![c].retried = TRUE]
  ELSE [Sees(c, r) EXCEPT ![c].retried = TRUE]

\* The caller is sent through one replacement; a second change is left to the next one.
Reevaluate(c) ==
  LET e == spawns[c].execution IN
  /\ Replaced(e)
  /\ spawns' = IF spawns[c].retried THEN Ends(c) ELSE Followed(c, e)
  /\ UNCHANGED <<disk, config, contract, planners, evidence, closed, started>>

\* The execution no longer describes the file or its configuration.
Stale(c) ==
  LET e == spawns[c].execution IN
  /\ \/ spawns[c].at = "check" /\ config # e.config
     \/ spawns[c].at = "open" /\ disk # e.identity
     \/ spawns[c].at = "bind" /\ disk.build # e.identity.build
  /\ Reevaluate(c)
  /\ UNCHANGED spoiled

\* createBoundExecutableSnapshot calls whatever keeps it from a copy a change.
CopyFails(c) ==
  /\ spawns[c].at = "bind" /\ disk.stamp + config + spoiled < MaxChanges
  /\ spoiled' = spoiled + 1
  /\ Reevaluate(c)

\* revalidateDeploymentProvenance; what keeps a file from being read counts as an edit.
Check(c) ==
  /\ spawns[c].at = "check" /\ config = spawns[c].execution.config
  /\ spawns' = [spawns EXCEPT ![c].at = "open"]
  /\ UNCHANGED <<outside, evidence, readiness, execution, evaluation, replacement, closed, observed>>

\* spawnAcceptedCodexProcess: the file must still be the accepted one ...
Open(c) ==
  /\ spawns[c].at = "open" /\ disk = spawns[c].execution.identity
  /\ spawns' = [spawns EXCEPT ![c].at = "bind"]
  /\ UNCHANGED <<outside, evidence, readiness, execution, evaluation, replacement, closed, observed>>

\* ... and what runs is a copy with the accepted bytes, whatever the file is by then.
Run(c) ==
  /\ spawns[c].at = "bind"
  /\ started' = <<spawns[c].execution.identity.build, contract>>
  /\ spawns' = Ends(c)
  /\ UNCHANGED <<outside, evidence, readiness, execution, evaluation, replacement, closed, reevaluated>>

\* The caller aborts, or the start fails for another reason.
AbandonCall(c) ==
  /\ spawns[c] # NoCall
  /\ spawns' = Ends(c)
  /\ UNCHANGED <<outside, evidence, readiness, execution, evaluation, replacement, closed, observed>>

-----------------------------------------------------------------------------
(* The runtime's end, and the world outside. *)

Close ==
  /\ ~closed
  /\ closed' = TRUE
  /\ execution' = Nothing
  /\ readiness' = IF readiness = "checking" /\ evaluation = Nothing THEN "unavailable" ELSE readiness
  /\ UNCHANGED <<outside, evidence, evaluation, replacement, spawns, observed>>

\* The planner process ends, at whatever point, and another release may follow it.
RestartPlanner(required) ==
  /\ planners < MaxPlanners
  /\ planners' = planners + 1
  /\ contract' = required
  /\ readiness' = "checking" /\ execution' = Nothing /\ evaluation' = Begun
  /\ replacement' = NoReplacement
  /\ spawns' = [c \in Callers |-> NoCall]
  /\ closed' = FALSE
  /\ started' = Nothing /\ reevaluated' = NeverReevaluated
  /\ UNCHANGED <<disk, config, spoiled, evidence>>

inside == <<evidence, readiness, execution, evaluation, replacement, spawns, closed, observed>>

Update(build) ==
  /\ disk.stamp + config + spoiled < MaxChanges /\ <<disk.build, build>> \in Follows
  /\ disk' = [build |-> build, stamp |-> disk.stamp + 1]
  /\ UNCHANGED <<config, contract, planners, spoiled, inside>>

Edit ==
  /\ disk.stamp + config + spoiled < MaxChanges
  /\ config' = config + 1
  /\ UNCHANGED <<disk, contract, planners, spoiled, inside>>

Evaluate ==
  \/ Fail \/ StartOver \/ Validate \/ Capture \/ Incompatible
  \/ Generate \/ PruneBundles \/ PruneInPart \/ PublishSchema \/ Probe \/ ReadBack
  \/ Accept \/ RememberAccepted \/ Ready

Caller(c) == Stale(c) \/ Check(c) \/ Open(c) \/ Run(c)

\* A closed runtime stays so until its process ends.
StaysClosed ==
  /\ closed /\ evaluation = Nothing /\ \A c \in Callers : spawns[c] = NoCall
  /\ UNCHANGED runtimeVars

RuntimeNext ==
  \/ Evaluate
  \/ \E c \in Callers : Spawn(c) \/ Caller(c) \/ CopyFails(c) \/ AbandonCall(c)
  \/ Close
  \/ \E required \in Contracts : RestartPlanner(required)
  \/ \E build \in Builds : Update(build)
  \/ Edit
  \/ StaysClosed

\* Every step of an evaluation has a time limit, and so has the whole of it; a
\* caller's next step is its own.
RuntimeSpec == RuntimeInit /\ [][RuntimeNext]_runtimeVars /\ WF_runtimeVars(Evaluate) /\ \A c \in Callers : WF_runtimeVars(Caller(c))

-----------------------------------------------------------------------------
(* Properties. *)

\* Every app-server runs a build that the probe accepted for the contract of the
\* release that starts it, whatever the updater does between probe and start.
RunsOnlyAccepted == started # Nothing => started \in Compatible

\* The schema bundles that the evidence on disk names are on disk and whole, whatever a
\* prune removes and wherever it stops; and while there is something to run, no more
\* bundles are kept than the policy allows.
BundlesKept ==
  /\ {published, IF accepted = Nothing THEN Nothing ELSE accepted.identity.build} \ {Nothing}
       \subseteq bundles \ torn
  /\ execution # Nothing => Cardinality(bundles) <= MaxBundles

\* All who held an execution when it changed share one reevaluation, also when it fails.
OneReevaluation == \A o \in DOMAIN reevaluated : reevaluated[o] <= 1

\* No status stays "checking", and no caller waits for ever.
StartsEnd ==
  /\ []<>(readiness # "checking")
  /\ \A c \in Callers : []<>(spawns[c].at = "idle")
=============================================================================

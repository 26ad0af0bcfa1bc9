---------------------------- MODULE StoreMigration ----------------------------
(***************************************************************************)
(* How a start of the planner brings its database to the schema it knows   *)
(* (openPlannerStore, server/store/sqlite-store.ts; the transformations of *)
(* lib/household-persistence-upgrade.ts).                                  *)
(*                                                                         *)
(* The file is upgraded over several transactions, and the process may     *)
(* fail or be killed between any two of them.  A connection that is closed *)
(* leaves the file alone; a killed one leaves its WAL and SHM files beside *)
(* it.  The lease keeps every other process away.                          *)
(*                                                                         *)
(* Of the stored JSON the model keeps which upgrades it has had.           *)
(***************************************************************************)
EXTENDS Naturals

CONSTANTS
    Births,        \* schemas the file may have at first; 0 is no file
    MaxMishaps     \* bound: failures by accident, and kills

CurrentSchema == 13    \* CURRENT_SCHEMA_VERSION

\* The plan and every undo state: one prep queue per date, ingredient
\* occurrences, an ingredient catalogue, and the recipe of a cooked meal frozen.
Plan == {"queues", "occurrences", "catalogue", "frozen"}
\* The answers stored of planner tools: the occurrences that an apply resolved,
\* and the catalogue beside what was read back.
Answers == {"resolved", "pages"}

ASSUME MigrationAssumption == Births \subseteq 0..CurrentSchema /\ MaxMishaps \in Nat

VARIABLES
    file,      \* the database: schema, sidecar files, upgrades of its JSON
    copies,    \* the backups beside it, whole or not
    born,      \* the file as it was at first, and whether it can be upgraded
    start,     \* the start under way: where it is, and the schema it read
    mishaps

storeVars == <<file, copies, born, start, mishaps>>

\* The upgrades that the programs of schema v had done as they wrote.
Since == [u \in Plan \cup Answers |->
    CASE u = "queues" -> 9 [] u \in {"occurrences", "resolved"} -> 10
      [] u \in {"catalogue", "pages"} -> 11 [] OTHER -> 13]
Written(v, upgrades) == {u \in upgrades : v = 0 \/ Since[u] <= v}

Content(f) == [version |-> f.version, plan |-> f.plan, answers |-> f.answers]
Off == [at |-> "off", from |-> 0, copied |-> FALSE]

StartPlaces == {"off", "checkOld", "check9", "open", "copy", "copying", "write9", "readback",
           "migrate", "normalize", "upgrade", "validate", "serving"}

StoreTypeOK ==
    /\ file \in [version : 0..CurrentSchema, sidecars : BOOLEAN, plan : SUBSET Plan,
                 answers : SUBSET Answers]
    /\ copies \subseteq [content : [version : 0..CurrentSchema, plan : SUBSET Plan,
                                    answers : SUBSET Answers], whole : BOOLEAN]
    /\ start \in [at : StartPlaces, from : 0..CurrentSchema, copied : BOOLEAN]
    /\ mishaps \in 0..MaxMishaps

\* An old plan may have no queue to collapse, and nothing that is ambiguous.
\* Answers of the embedded Codex exist since schema 3.
StoreInit ==
    \E v \in Births, queues \in SUBSET {"queues"}, sound \in BOOLEAN, embedded \in BOOLEAN :
        /\ file = [version |-> v, sidecars |-> FALSE, plan |-> Written(v, Plan) \cup queues,
                   answers |-> Written(v, Answers)]
        /\ born = [content |-> Content(file), sound |-> sound, embedded |-> embedded]
        /\ ~sound => v \in 1..9
        /\ embedded => v >= 3
        /\ copies = {}
        /\ start = Off
        /\ mishaps = 0

-----------------------------------------------------------------------------
(* The transformations                                                     *)

\* normalizeLegacyPrepSessions
Collapsed(plan) == plan \cup {"queues"}
\* normalizeLegacyHouseholdState
NormalizedPlan(plan) == Collapsed(plan) \cup {"occurrences", "catalogue"}
\* normalizeLegacyHouseholdPayload
NormalizedAnswers(answers) == answers \cup {"pages"}
\* upgradeHouseholdStateToIngredientOccurrences
UpgradedPlan(plan) == plan \cup {"occurrences"}
\* upgradeHouseholdPayloadToIngredientOccurrences
UpgradedAnswers(answers) == answers \cup {"resolved", "pages"}

\* normalizeStoredLegacyHouseholdState
Normalized(f) == [f EXCEPT !.plan = NormalizedPlan(@), !.answers = NormalizedAnswers(@)]

\* applyV9IngredientOccurrenceUpgrade
Upgraded(f) == [f EXCEPT !.plan = UpgradedPlan(@), !.answers = UpgradedAnswers(@)]

\* backfillStoredCookedMealFreeze
Frozen(f) == [f EXCEPT !.plan = @ \cup {"frozen"}]

\* Fault: the SQL of migration 11 alone.
FaultNormalizeAtTheEnd(v, f) == IF v = 13 THEN Frozen(f) ELSE f

\* What migration v does to the JSON in its own transaction.
Migrated(v, f) ==
    CASE v = 11 -> Normalized(f)
      [] v = 13 -> Frozen(f)
      [] OTHER -> f

-----------------------------------------------------------------------------
(* One start                                                               *)

Mishap == mishaps < MaxMishaps /\ mishaps' = mishaps + 1
Reach(place) == start' = [start EXCEPT !.at = place]
\* The connections are closed, which checkpoints the WAL and removes it.
CloseStore == start' = Off /\ file' = [file EXCEPT !.sidecars = FALSE]

\* Fault: schemas above 9 are sent through the upgrade of schema 9.
FaultUpgradeNewer(v) == IF v \in 1..8 THEN "checkOld" ELSE IF v = 0 THEN "open" ELSE "check9"

\* The schema that is read first, without a writer.
FirstPlace(v) == CASE v \in 1..8 -> "checkOld" [] v = 9 -> "check9" [] OTHER -> "open"

Begin ==
    /\ start.at = "off"
    /\ Reach(FirstPlace(file.version))
    /\ UNCHANGED <<file, copies, born, mishaps>>

\* preflightPreV9HouseholdNormalization: on the closed file, or a copy of it
\* where sidecars exist.
CheckOld ==
    /\ start.at = "checkOld"
    /\ Reach(IF born.sound THEN "open" ELSE "off")
    /\ UNCHANGED <<file, copies, born, mishaps>>

\* preflightV9IngredientOccurrenceUpgrade refuses sidecars, a file without a
\* household, and a plan that is no valid plan of schema 9.
Upgradable9 ==
    /\ file.version = 9 /\ ~file.sidecars
    /\ born.content.version # 0 /\ born.sound /\ "queues" \in file.plan
Check9 ==
    /\ start.at = "check9"
    /\ IF Upgradable9
         THEN Reach("copy") /\ file' = [file EXCEPT !.sidecars = TRUE]
         ELSE Reach("off") /\ UNCHANGED file
    /\ UNCHANGED <<copies, born, mishaps>>

\* Fault: only a plan that is normalized is copied first.
FaultCopyOldOnly(v) == v \in 1..9

\* An existing file of an older schema is copied before it is changed.
NeedsCopy(v) == v \in 1..CurrentSchema-1

OpenWriter ==
    /\ start.at = "open"
    /\ file' = [file EXCEPT !.sidecars = TRUE]
    /\ start' = [start EXCEPT !.from = file.version,
                              !.at = IF NeedsCopy(file.version) /\ ~start.copied THEN "copy" ELSE "migrate"]
    /\ UNCHANGED <<copies, born, mishaps>>

\* createSnapshot: VACUUM INTO a new name, under the write reservation.
Copy(whole) == [content |-> Content(file), whole |-> whole]
BeginCopy ==
    /\ start.at = "copy"
    /\ copies' = copies \cup {Copy(FALSE)}
    /\ Reach("copying")
    /\ UNCHANGED <<file, born, mishaps>>

\* The copy is checkpointed, synced, checked and, at schema 9, compared.
FinishCopy ==
    /\ start.at = "copying"
    /\ copies' = (copies \ {Copy(FALSE)}) \cup {Copy(TRUE)}
    /\ start' = [start EXCEPT !.copied = TRUE, !.at = IF file.version = 9 /\ start.from = 0
                                                        THEN "write9" ELSE "migrate"]
    /\ UNCHANGED <<file, born, mishaps>>

\* migratePlannerStoreV9ToV10: the data and the ledger in one transaction.
Write9 ==
    /\ start.at = "write9"
    /\ file' = [Upgraded(file) EXCEPT !.version = 10]
    /\ Reach("readback")
    /\ UNCHANGED <<copies, born, mishaps>>

\* The reservation is closed and the committed file read back.
Readback ==
    /\ start.at = "readback"
    /\ file' = [file EXCEPT !.sidecars = FALSE]
    /\ Reach("open")
    /\ UNCHANGED <<copies, born, mishaps>>

\* applyMigrations: each in its own transaction.
Migrate ==
    /\ start.at = "migrate" /\ file.version < CurrentSchema
    /\ LET v == file.version + 1
       IN file' = [Migrated(v, file) EXCEPT !.version = v]
    /\ UNCHANGED <<copies, born, start, mishaps>>

\* Only a start that found a schema before 10 upgrades the rows that older
\* programs have written.
FinishMigrations ==
    /\ start.at = "migrate" /\ file.version = CurrentSchema
    /\ Reach(IF start.from < 10 THEN "normalize" ELSE "validate")
    /\ UNCHANGED <<file, copies, born, mishaps>>

NormalizeRows ==
    /\ start.at = "normalize"
    /\ file' = Normalized(file)
    /\ Reach("upgrade")
    /\ UNCHANGED <<copies, born, mishaps>>

Upgrade ==
    /\ start.at = "upgrade"
    /\ file' = Upgraded(file)
    /\ Reach("validate")
    /\ UNCHANGED <<copies, born, mishaps>>

\* validateStoredPlannerToolCalls looks at the answers of the embedded Codex;
\* those of the native one are looked at when they are read.
Validate ==
    /\ start.at = "validate"
    /\ IF born.embedded /\ file.answers # Answers THEN CloseStore ELSE Reach("serving") /\ UNCHANGED file
    /\ UNCHANGED <<copies, born, mishaps>>

Progress ==
    \/ Begin \/ CheckOld \/ Check9 \/ OpenWriter \/ BeginCopy \/ FinishCopy \/ Write9
    \/ Readback \/ Migrate \/ FinishMigrations \/ NormalizeRows \/ Upgrade \/ Validate

-----------------------------------------------------------------------------
Stop ==
    /\ start.at = "serving"
    /\ CloseStore
    /\ UNCHANGED <<copies, born, mishaps>>

\* A step fails: its transaction is rolled back, its copy removed, all closed.
FailStart ==
    /\ start.at \in StartPlaces \ {"off", "serving"}
    /\ Mishap
    /\ IF start.at \in {"checkOld", "check9", "open"} THEN start' = Off /\ UNCHANGED file ELSE CloseStore
    /\ copies' = IF start.at = "copying" THEN copies \ {Copy(FALSE)} ELSE copies
    /\ UNCHANGED born

KillStart ==
    /\ start.at # "off"
    /\ Mishap
    /\ start' = Off
    /\ UNCHANGED <<file, copies, born>>

StoreNext == Progress \/ Stop \/ FailStart \/ KillStart

StoreSpec == StoreInit /\ [][StoreNext]_storeVars
\* The service manager starts the planner again and again (KeepAlive).
FairStoreSpec == StoreSpec /\ WF_storeVars(Progress)

-----------------------------------------------------------------------------
(* Properties                                                              *)

\* Whatever failed or was killed, the file as it was found is still there,
\* itself or in a verified copy (createVerifiedMigrationBackup).
OriginalKept ==
    born.content.version # 0 /\ Content(file) # born.content =>
        [content |-> born.content, whole |-> TRUE] \in copies

\* A planner that serves has the current schema, and its plan and every undo
\* state have had every upgrade, over however many starts (BOOT-09).
ServedIsCurrent == start.at = "serving" => file.version = CurrentSchema /\ file.plan = Plan

\* No start loses the household or serves half of an upgrade.
UpgradesSafe == OriginalKept /\ ServedIsCurrent

\* A file that has reached schema 10 undisturbed is served again and again.
Opens == born.content.version \in 10..CurrentSchema => []<>(start.at = "serving")

\* Refuted: a start upgrades the answers stored by older programs before it
\* checks or serves them.
AnswersUpgraded == start.at \in {"validate", "serving"} => file.answers = Answers
=============================================================================

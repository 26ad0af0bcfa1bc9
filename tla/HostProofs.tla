------------------------------ MODULE HostProofs ------------------------------
(***************************************************************************)
(* What a start may do to the database, what promotion and recovery may do *)
(* to the installed applications and report of it, and who holds the       *)
(* writer lease: proofs for StoreMigration, ReleaseLifecycle and           *)
(* RuntimeOwnership, for any number of starts, processes, failures and     *)
(* kills.                                                                  *)
(***************************************************************************)
EXTENDS RuntimeOwnership, ReleaseLifecycle, StoreMigration, SequenceTheorems, TLAPS

-----------------------------------------------------------------------------
(* The upgrade of the database.                                             *)
(*                                                                          *)
(* The file moves through several transactions, any of which may be the     *)
(* last of its start.  What keeps the original is that each place from      *)
(* which the content is changed is reached by way of a finished copy, of    *)
(* this start, or of an earlier one that has left the content changed.      *)

FileStates == [version : 0..13, sidecars : BOOLEAN, plan : SUBSET Plan, answers : SUBSET Answers]
StartTypes == [at : StartPlaces, from : 0..13, copied : BOOLEAN]
Contentful == [version : 0..CurrentSchema, plan : SUBSET Plan, answers : SUBSET Answers]
Original == [content |-> born.content, whole |-> TRUE]
Safe == born.content.version = 0 \/ Original \in copies

\* The places at which the next transaction changes the content.
Writing == {"write9", "readback", "migrate", "normalize", "upgrade"}

StoreTyped ==
  /\ file \in FileStates /\ start \in StartTypes
  /\ copies \subseteq [content : Contentful, whole : BOOLEAN] /\ born.content \in Contentful
  /\ mishaps \in 0..MaxMishaps
\* A schema says which upgrades the plan and the undo states have had.
SchemaTells ==
  /\ file.version >= 11 => {"queues", "occurrences", "catalogue"} \subseteq file.plan
  /\ file.version = CurrentSchema => file.plan = Plan
OriginalSafe ==
  /\ Safe \/ Content(file) = born.content
  /\ file.version = 0 => born.content.version = 0
  /\ start.copied => Safe
  /\ start.at \in Writing =>
       Safe \/ (start.at = "migrate" /\ start.from = CurrentSchema /\ file.version = CurrentSchema)
Migrated13 == start.at \in {"normalize", "upgrade", "validate", "serving"} => file.version = CurrentSchema

StoreInv == StoreTyped /\ SchemaTells /\ OriginalSafe /\ Migrated13

USE DEF CurrentSchema, Plan, Answers

LEMMA StoreInitSound == StoreInit => StoreInv
<1> SUFFICES ASSUME StoreInit PROVE StoreInv
  OBVIOUS
<1>1. PICK v \in Births, queues \in SUBSET {"queues"}, sound \in BOOLEAN, embedded \in BOOLEAN :
        /\ file = [version |-> v, sidecars |-> FALSE, plan |-> Written(v, Plan) \cup queues,
                   answers |-> Written(v, Answers)]
        /\ born = [content |-> Content(file), sound |-> sound, embedded |-> embedded]
        /\ copies = {} /\ start = Off /\ mishaps = 0
  BY DEF StoreInit
<1>2. v \in 0..13 /\ MaxMishaps \in Nat
  BY MigrationAssumption
<1>3. StoreTyped
  <2>1. Written(v, Plan) \subseteq Plan /\ Written(v, Answers) \subseteq Answers
    BY DEF Written
  <2>2. file \in FileStates
    BY <1>1, <1>2, <2>1 DEF FileStates
  <2>3. born.content \in Contentful
    BY <1>1, <2>2 DEF Content, Contentful, FileStates
  <2>4. start \in StartTypes
    BY <1>1 DEF Off, StartPlaces, StartTypes
  <2> QED
    BY <1>1, <1>2, <2>2, <2>3, <2>4 DEF StoreTyped
<1>4. SchemaTells
  <2>1. Written(v, Plan) \subseteq file.plan /\ file.version = v
    BY <1>1
  <2>2. v >= 11 => {"queues", "occurrences", "catalogue"} \subseteq Written(v, Plan)
    BY <1>2 DEF Written, Since
  <2>3. v = 13 => Plan \subseteq Written(v, Plan)
    BY <1>2 DEF Written, Since
  <2>4. file.plan \subseteq Plan
    BY <1>3 DEF StoreTyped, FileStates
  <2> QED
    BY <2>1, <2>2, <2>3, <2>4 DEF SchemaTells
<1>5. OriginalSafe /\ Migrated13
  BY <1>1 DEF OriginalSafe, Migrated13, Content, Off, Writing
<1> QED
  BY <1>3, <1>4, <1>5 DEF StoreInv

\* A step that leaves the content and the copies alone, and enters no new place of writing.
LEMMA StoreCalm ==
  ASSUME StoreInv, Content(file)' = Content(file), UNCHANGED born,
         \A c \in copies : c.whole => c \in copies',
         start'.copied => start.copied,
         start'.at \in Writing => start.at \in Writing /\ Safe
  PROVE  SchemaTells' /\ OriginalSafe'
<1>1. file'.version = file.version /\ file'.plan = file.plan
  BY DEF Content
<1>3. Safe \/ Content(file)' = born.content
  BY DEF StoreInv, OriginalSafe
<1>2. Safe => Safe'
  BY DEF Safe, Original
<1>4. SchemaTells'
  BY <1>1 DEF StoreInv, SchemaTells
<1>5. (Safe \/ Content(file) = born.content)'
  BY <1>2, <1>3
<1>6. (file.version = 0 => born.content.version = 0)' /\ (start.copied => Safe)' /\ (start.at \in Writing => Safe)'
  BY <1>1, <1>2 DEF StoreInv, OriginalSafe
<1> QED
  BY <1>4, <1>5, <1>6 DEF OriginalSafe

\* The WAL comes and goes without the content.
LEMMA SidecarsAlone ==
  ASSUME NEW f \in FileStates, NEW g, g = f \/ \E b \in BOOLEAN : g = [f EXCEPT !.sidecars = b]
  PROVE  g \in FileStates /\ Content(g) = Content(f) /\ g.version = f.version
  BY DEF FileStates, Content

LEMMA StoreStepSound ==
  ASSUME StoreInv, StoreNext
  PROVE  StoreInv'
<1> USE MigrationAssumption
<1>0. /\ StoreTyped /\ SchemaTells /\ OriginalSafe /\ Migrated13
      /\ file \in FileStates /\ start \in StartTypes
  BY DEF StoreInv, StoreTyped
<1>1. CASE Begin
  <2>1. start' = [start EXCEPT !.at = FirstPlace(file.version)] /\ UNCHANGED <<file, copies, born, mishaps>>
    BY <1>1 DEF Begin, Reach
  <2>2. FirstPlace(file.version) \in {"checkOld", "check9", "open"}
    BY DEF FirstPlace
  <2> QED
    BY <2>1, <2>2, <1>0, StoreCalm DEF StoreInv, StoreTyped, StartPlaces, StartTypes, Writing, Migrated13, Content
<1>2. CASE CheckOld
  BY <1>2, <1>0, StoreCalm
  DEF CheckOld, Reach, StoreInv, StoreTyped, StartPlaces, StartTypes, Writing, Migrated13, Content
<1>3. CASE Check9
  <2>1. /\ start'.at \in {"copy", "off"} /\ (start'.copied => start.copied)
        /\ start' \in StartTypes
        /\ start'.at = "serving" => start.at \in {"validate", "serving"}
        /\ UNCHANGED <<copies, born, mishaps>>
    BY <1>3, <1>0 DEF Check9, Reach, CloseStore, Off, StartPlaces, StartTypes
  <2>2. file' = file \/ \E b \in BOOLEAN : file' = [file EXCEPT !.sidecars = b]
    BY <1>3 DEF Check9, CloseStore
  <2>3. file' \in FileStates /\ Content(file)' = Content(file) /\ file'.version = file.version
    BY <2>2, <1>0, SidecarsAlone
  <2>4. SchemaTells' /\ OriginalSafe'
    BY <2>1, <2>3, StoreCalm DEF Writing, Content
  <2> QED
    BY <2>1, <2>3, <2>4, <1>0 DEF StoreInv, StoreTyped, Migrated13, FileStates
<1>4. CASE OpenWriter
  <2>1. /\ file' = [file EXCEPT !.sidecars = TRUE] /\ UNCHANGED <<copies, born, mishaps>>
        /\ start'.from = file.version /\ start'.copied = start.copied
        /\ start'.at = IF NeedsCopy(file.version) /\ ~start.copied THEN "copy" ELSE "migrate"
        /\ start' \in StartTypes
    BY <1>4, <1>0 DEF OpenWriter, FileStates, StartPlaces, StartTypes
  <2>2. StoreTyped' /\ Migrated13'
    BY <2>1, <1>0, SidecarsAlone DEF StoreTyped, Migrated13, StartTypes
  <2>3. SchemaTells' /\ Content(file)' = Content(file) /\ (Safe' <=> Safe) /\ file'.version = file.version
    BY <2>1, <1>0 DEF SchemaTells, Content, Safe, Original, FileStates
  <2>4. OriginalSafe'
    <3>1. CASE file.version = 0
      BY <3>1, <2>1, <2>3, <1>0 DEF OriginalSafe, Safe, Content
    <3>2. CASE file.version = 13
      BY <3>2, <2>1, <2>3, <1>0 DEF OriginalSafe, NeedsCopy, Content
    <3>3. CASE file.version \in 1..12
      BY <3>3, <2>1, <2>3, <1>0 DEF OriginalSafe, NeedsCopy, Writing, Content
    <3> QED
      BY <3>1, <3>2, <3>3, <1>0 DEF FileStates
  <2> QED
    BY <2>2, <2>3, <2>4 DEF StoreInv
<1>5. CASE BeginCopy
  <2>1. /\ start' = [start EXCEPT !.at = "copying"] /\ start.at = "copy" /\ UNCHANGED <<file, born, mishaps>>
        /\ copies' = copies \cup {Copy(FALSE)}
    BY <1>5 DEF BeginCopy, Reach
  <2>2. Content(file) \in Contentful
    BY <1>0 DEF Content, Contentful, FileStates
  <2>3. StoreTyped'
    <3>1. Copy(FALSE) \in [content : Contentful, whole : BOOLEAN]
      BY <2>2 DEF Copy
    <3> QED
      BY <2>1, <3>1, <1>0 DEF StoreTyped, StartPlaces, StartTypes
  <2>4. SchemaTells' /\ OriginalSafe'
    BY <2>1, <1>0, StoreCalm DEF Writing, StartTypes, Content
  <2> QED
    BY <2>1, <2>3, <2>4, <1>0 DEF StoreInv, Migrated13
<1>6. CASE FinishCopy
  <2>1. /\ start.at = "copying" /\ UNCHANGED <<file, born, mishaps>>
        /\ copies' = (copies \ {Copy(FALSE)}) \cup {Copy(TRUE)}
        /\ start' \in [at : {"write9", "migrate"}, from : 0..13, copied : {TRUE}]
    BY <1>6, <1>0 DEF FinishCopy, StartTypes
  <2>2. StoreTyped' /\ Migrated13' /\ SchemaTells'
    <3>1. Content(file) \in Contentful
      BY <1>0 DEF Content, Contentful, FileStates
    <3> QED
      <4>1. Copy(TRUE) \in [content : Contentful, whole : BOOLEAN]
        BY <3>1 DEF Copy
      <4> QED
        BY <2>1, <4>1, <1>0 DEF StoreTyped, StartPlaces, StartTypes, Migrated13, SchemaTells
  <2>3. Safe'
    BY <2>1, <1>0 DEF OriginalSafe, Safe, Original, Copy
  <2> QED
    BY <2>1, <2>2, <2>3, <1>0 DEF StoreInv, OriginalSafe
<1>7. CASE Write9
  <2>1. /\ start.at = "write9" /\ start' = [start EXCEPT !.at = "readback"] /\ UNCHANGED <<copies, born, mishaps>>
        /\ file' = [file EXCEPT !.version = 10, !.plan = UpgradedPlan(@), !.answers = UpgradedAnswers(@)]
    BY <1>7, <1>0 DEF Write9, Reach, Upgraded
  <2>2. Safe /\ (Safe' <=> Safe)
    BY <2>1, <1>0 DEF OriginalSafe, Writing, Safe, Original
  <2>3. file' \in FileStates /\ file'.version = 10
    <3>1. file' = [version |-> 10, sidecars |-> file.sidecars, plan |-> UpgradedPlan(file.plan),
                   answers |-> UpgradedAnswers(file.answers)]
      BY <2>1, <1>0 DEF FileStates
    <3> QED
      BY <3>1, <1>0 DEF UpgradedPlan, UpgradedAnswers, FileStates
  <2>4. StoreTyped' /\ SchemaTells' /\ Migrated13'
    BY <2>1, <2>3, <1>0 DEF StoreTyped, StartPlaces, StartTypes, SchemaTells, Migrated13, FileStates
  <2> QED
    BY <2>1, <2>2, <2>3, <2>4, <1>0 DEF StoreInv, OriginalSafe
<1>8. CASE Readback
  <2>1. /\ start'.at \in {"open"} /\ (start'.copied => start.copied)
        /\ start' \in StartTypes /\ UNCHANGED <<copies, born, mishaps>>
    BY <1>8, <1>0 DEF Readback, Reach, StartPlaces, StartTypes
  <2>2. file' = file \/ \E b \in BOOLEAN : file' = [file EXCEPT !.sidecars = b]
    BY <1>8 DEF Readback
  <2>3. file' \in FileStates /\ Content(file)' = Content(file) /\ file'.version = file.version
    BY <2>2, <1>0, SidecarsAlone
  <2>4. SchemaTells' /\ OriginalSafe'
    BY <2>1, <2>3, StoreCalm DEF Writing, Content
  <2> QED
    BY <2>1, <2>3, <2>4, <1>0 DEF StoreInv, StoreTyped, Migrated13
<1>9. CASE Migrate
  <2>1. /\ start.at = "migrate" /\ file.version < 13 /\ UNCHANGED <<copies, born, start, mishaps>>
        /\ file' = [Migrated(file.version + 1, file) EXCEPT !.version = file.version + 1]
    BY <1>9 DEF Migrate
  <2>2. Safe /\ (Safe' <=> Safe)
    BY <2>1, <1>0 DEF OriginalSafe, Writing, Safe, Original
  <2>3. /\ file' \in [version : 1..13, sidecars : BOOLEAN, plan : SUBSET Plan, answers : SUBSET Answers]
        /\ file'.version = file.version + 1 /\ file.plan \subseteq file'.plan
        /\ file'.version = 11 => {"queues", "occurrences", "catalogue"} \subseteq file'.plan
        /\ file'.version = 13 => "frozen" \in file'.plan
    <3>1. CASE file.version + 1 = 11
      <4>1. file' = [Normalized(file) EXCEPT !.version = 11]
        BY <3>1, <2>1 DEF Migrated
      <4>2. Normalized(file) = [file EXCEPT !.plan = NormalizedPlan(file.plan), !.answers = NormalizedAnswers(file.answers)]
        BY DEF Normalized
      <4>3. file' = [version |-> 11, sidecars |-> file.sidecars, plan |-> NormalizedPlan(file.plan),
                     answers |-> NormalizedAnswers(file.answers)]
        BY <4>1, <4>2, <1>0 DEF FileStates
      <4> QED
        BY <4>3, <3>1, <1>0 DEF NormalizedPlan, NormalizedAnswers, Collapsed, FileStates
    <3>2. CASE file.version + 1 = 13
      <4>1. file' = [Frozen(file) EXCEPT !.version = 13]
        BY <3>2, <2>1 DEF Migrated
      <4>2. Frozen(file) = [file EXCEPT !.plan = file.plan \cup {"frozen"}]
        BY DEF Frozen
      <4>3. file' = [version |-> 13, sidecars |-> file.sidecars, plan |-> file.plan \cup {"frozen"},
                     answers |-> file.answers]
        BY <4>1, <4>2, <1>0 DEF FileStates
      <4> QED
        BY <4>3, <3>2, <1>0 DEF FileStates
    <3>3. CASE file.version + 1 \notin {11, 13}
      BY <3>3, <2>1, <1>0 DEF Migrated, FileStates
    <3> QED
      BY <3>1, <3>2, <3>3
  <2>4. StoreTyped' /\ SchemaTells' /\ Migrated13'
    BY <2>1, <2>3, <1>0 DEF StoreTyped, FileStates, SchemaTells, Migrated13
  <2> QED
    BY <2>1, <2>2, <2>3, <2>4, <1>0 DEF StoreInv, OriginalSafe
<1>10. CASE FinishMigrations
  <2>1. /\ start.at = "migrate" /\ file.version = 13 /\ UNCHANGED <<file, copies, born, mishaps>>
        /\ start' = [start EXCEPT !.at = IF start.from < 10 THEN "normalize" ELSE "validate"]
    BY <1>10 DEF FinishMigrations, Reach
  <2>2. start'.at \in Writing => Safe
    BY <2>1, <1>0 DEF OriginalSafe, Writing
  <2> QED
    BY <2>1, <2>2, <1>0, StoreCalm DEF StoreInv, StoreTyped, StartPlaces, StartTypes, Writing, Migrated13, Content
<1>11. CASE NormalizeRows
  <2>1. /\ start.at = "normalize" /\ start' = [start EXCEPT !.at = "upgrade"] /\ UNCHANGED <<copies, born, mishaps>>
        /\ file' = [file EXCEPT !.plan = NormalizedPlan(@), !.answers = NormalizedAnswers(@)]
    BY <1>11, <1>0 DEF NormalizeRows, Reach, Normalized
  <2>2. Safe /\ (Safe' <=> Safe)
    BY <2>1, <1>0 DEF OriginalSafe, Writing, Safe, Original
  <2>3. StoreTyped' /\ SchemaTells' /\ Migrated13'
    BY <2>1, <1>0
    DEF NormalizedPlan, NormalizedAnswers, Collapsed, StoreTyped, FileStates, StartPlaces, StartTypes, SchemaTells, Migrated13
  <2> QED
    BY <2>1, <2>2, <2>3, <1>0 DEF StoreInv, OriginalSafe, Migrated13
<1>12. CASE Upgrade
  <2>1. /\ start.at = "upgrade" /\ start' = [start EXCEPT !.at = "validate"] /\ UNCHANGED <<copies, born, mishaps>>
        /\ file' = [file EXCEPT !.plan = UpgradedPlan(@), !.answers = UpgradedAnswers(@)]
    BY <1>12, <1>0 DEF Upgrade, Reach, Upgraded
  <2>2. Safe /\ (Safe' <=> Safe)
    BY <2>1, <1>0 DEF OriginalSafe, Writing, Safe, Original
  <2>3. StoreTyped' /\ SchemaTells' /\ Migrated13'
    BY <2>1, <1>0 DEF UpgradedPlan, UpgradedAnswers, StoreTyped, FileStates, StartPlaces, StartTypes, SchemaTells, Migrated13
  <2> QED
    BY <2>1, <2>2, <2>3, <1>0 DEF StoreInv, OriginalSafe, Migrated13
<1>13. CASE Validate
  <2>1. /\ start'.at \in {"off", "serving"} /\ (start'.copied => start.copied)
        /\ start' \in StartTypes
        /\ start'.at = "serving" => start.at \in {"validate", "serving"}
        /\ UNCHANGED <<copies, born, mishaps>>
    <3>1. start.at = "validate" /\ UNCHANGED <<copies, born, mishaps>>
          /\ (start' = Off \/ start' = [start EXCEPT !.at = "serving"])
      BY <1>13 DEF Validate, CloseStore, Reach
    <3> QED
      <4>1. CASE start' = Off
        BY <3>1, <4>1 DEF Off, StartPlaces, StartTypes
      <4>2. CASE start' = [start EXCEPT !.at = "serving"]
        BY <3>1, <4>2, <1>0 DEF StartPlaces, StartTypes
      <4> QED
        BY <3>1, <4>1, <4>2
  <2>2. file' = file \/ \E b \in BOOLEAN : file' = [file EXCEPT !.sidecars = b]
    BY <1>13 DEF Validate, CloseStore
  <2>3. file' \in FileStates /\ Content(file)' = Content(file) /\ file'.version = file.version
    BY <2>2, <1>0, SidecarsAlone
  <2>4. SchemaTells' /\ OriginalSafe'
    BY <2>1, <2>3, StoreCalm DEF Writing, Content
  <2> QED
    BY <2>1, <2>3, <2>4, <1>0 DEF StoreInv, StoreTyped, Migrated13, FileStates
<1>14. CASE Stop
  <2>1. /\ start'.at \in {"off"} /\ (start'.copied => start.copied)
        /\ start' \in StartTypes
        /\ start'.at = "serving" => start.at \in {"validate", "serving"}
        /\ UNCHANGED <<copies, born, mishaps>>
    BY <1>14, <1>0 DEF Stop, Reach, CloseStore, Off, StartPlaces, StartTypes
  <2>2. file' = file \/ \E b \in BOOLEAN : file' = [file EXCEPT !.sidecars = b]
    BY <1>14 DEF Stop, CloseStore
  <2>3. file' \in FileStates /\ Content(file)' = Content(file) /\ file'.version = file.version
    BY <2>2, <1>0, SidecarsAlone
  <2>4. SchemaTells' /\ OriginalSafe'
    BY <2>1, <2>3, StoreCalm DEF Writing, Content
  <2> QED
    BY <2>1, <2>3, <2>4, <1>0 DEF StoreInv, StoreTyped, Migrated13, FileStates
<1>15. CASE FailStart
  <2>1. start' = Off /\ born' = born /\ copies' \in {copies, copies \ {Copy(FALSE)}} /\ mishaps' \in 0..MaxMishaps
    BY <1>15, <1>0 DEF FailStart, CloseStore, Mishap, StoreTyped
  <2>2. file' = file \/ \E b \in BOOLEAN : file' = [file EXCEPT !.sidecars = b]
    BY <1>15 DEF FailStart, CloseStore
  <2>3. file' \in FileStates /\ Content(file)' = Content(file) /\ file'.version = file.version
    BY <2>2, <1>0, SidecarsAlone
  <2>4. \A c \in copies : c.whole => c \in copies'
    BY <2>1 DEF Copy
  <2>5. SchemaTells' /\ OriginalSafe'
    BY <2>1, <2>3, <2>4, StoreCalm DEF Content, Writing, Off
  <2> QED
    BY <2>1, <2>3, <2>5, <1>0 DEF Off, StoreInv, StoreTyped, StartPlaces, StartTypes, Migrated13, Copy
<1>16. CASE KillStart
  <2>1. mishaps' \in 0..MaxMishaps
    BY <1>16, <1>0 DEF KillStart, Mishap, StoreTyped
  <2> QED
    BY <2>1, <1>16, <1>0, StoreCalm
    DEF KillStart, Off, StoreInv, StoreTyped, StartPlaces, StartTypes, Writing, Migrated13, Content
<1> QED
  BY <1>1, <1>2, <1>3, <1>4, <1>5, <1>6, <1>7, <1>8, <1>9, <1>10, <1>11, <1>12, <1>13, <1>14, <1>15, <1>16
  DEF StoreNext, Progress

\* The household is never lost and never served half upgraded, however many starts an
\* upgrade takes and wherever each of them fails or is killed: openPlannerStore and its
\* migrations in sqlite-store.ts.
THEOREM UpgradesAlwaysSafe == StoreSpec => []UpgradesSafe
<1>1. StoreInv /\ [StoreNext]_storeVars => StoreInv'
  <2> SUFFICES ASSUME StoreInv, [StoreNext]_storeVars PROVE StoreInv'
    OBVIOUS
  <2>1. CASE StoreNext
    BY <2>1, StoreStepSound
  <2>2. CASE UNCHANGED storeVars
    BY <2>2 DEF storeVars, StoreInv, StoreTyped, SchemaTells, OriginalSafe, Migrated13, Safe, Original,
       Content
  <2> QED
    BY <2>1, <2>2
<1>2. StoreInv => UpgradesSafe
  <2> SUFFICES ASSUME StoreInv PROVE UpgradesSafe
    OBVIOUS
  <2>1. ServedIsCurrent
    BY DEF StoreInv, Migrated13, SchemaTells, ServedIsCurrent
  <2>2. OriginalKept
    BY DEF StoreInv, OriginalSafe, Safe, Original, OriginalKept
  <2> QED
    BY <2>1, <2>2 DEF UpgradesSafe
<1> QED
  BY StoreInitSound, <1>1, <1>2, PTL DEF StoreSpec

-----------------------------------------------------------------------------
(* Promotion.                                                               *)
(*                                                                          *)
(* Between the stop of the old service and the start of the selected app    *)
(* the job is not loaded, so that launchd has nothing to start: what        *)
(* becomes ready afterwards was started from what `app' holds by then.      *)

Ops == [at : Places, kind : {"none", "promote", "recover"}, phase : Phases, moves : Seq(Moves),
        plan : [schema : {"none", "old", "current"}, version : Nat], handle : Nat,
        begun : [Slots -> Nat], accepted : Nat, hurt : BOOLEAN, result : Results]
Services == [loaded : BOOLEAN, run : Nat, ready : BOOLEAN]

USE DEF NoApp

LEMMA HaltFields ==
  ASSUME op \in Ops, NEW phase \in Phases
  PROVE  /\ Halt(phase) \in Ops /\ Halt(phase).at = "halt" /\ Halt(phase).phase = phase
         /\ Halt(phase).kind = op.kind /\ Halt(phase).accepted = op.accepted
<1> DEFINE a == [op EXCEPT !.at = "halt"]
           b == [a EXCEPT !.phase = phase]
<1>1. a \in Ops /\ a.at = "halt" /\ a.kind = op.kind /\ a.accepted = op.accepted
  BY DEF Ops, Places
<1> HIDE DEF a
<1>2. b \in Ops /\ b.at = "halt" /\ b.phase = phase /\ b.kind = op.kind /\ b.accepted = op.accepted
  BY <1>1 DEF Ops
<1>3. Halt(phase) = [b EXCEPT !.moves = <<>>]
  BY DEF Halt, a
<1> HIDE DEF b
<1> DEFINE none == <<>>
<1>4. none \in Seq(Moves)
  OBVIOUS
<1>5. Halt(phase) = [b EXCEPT !.moves = none]
  BY <1>3
<1> HIDE DEF none
<1> QED
  BY <1>2, <1>4, <1>5 DEF Ops

LEMMA EndedFields ==
  ASSUME op \in Ops, NEW result \in Results
  PROVE  /\ Ended(result) \in Ops /\ Ended(result).at = "idle" /\ Ended(result).phase = "none"
         /\ Ended(result).kind = op.kind /\ Ended(result).accepted = op.accepted
<1> DEFINE a == [op EXCEPT !.at = "idle"]
           b == [a EXCEPT !.phase = "none"]
           none == <<>>
           d == [b EXCEPT !.moves = none]
<1>0. none \in Seq(Moves)
  OBVIOUS
<1>1. a \in Ops /\ a.at = "idle" /\ a.kind = op.kind /\ a.accepted = op.accepted
  BY DEF Ops, Places
<1> HIDE DEF a
<1>2. b \in Ops /\ b.at = "idle" /\ b.phase = "none" /\ b.kind = op.kind /\ b.accepted = op.accepted
  BY <1>1 DEF Ops, Phases
<1> HIDE DEF b
<1>4. Ended(result) = [d EXCEPT !.result = result]
  BY DEF Ended, d, b, a
<1> HIDE DEF none
<1>3. d \in Ops /\ d.at = "idle" /\ d.phase = "none" /\ d.kind = op.kind /\ d.accepted = op.accepted
  BY <1>0, <1>2 DEF Ops
<1> HIDE DEF d
<1> QED
  BY <1>3, <1>4 DEF Ops

LEMMA HurtFields ==
  ASSUME NEW o \in Ops
  PROVE  /\ Hurt(o) \in Ops /\ Hurt(o).at = o.at /\ Hurt(o).phase = o.phase
         /\ Hurt(o).kind = o.kind /\ Hurt(o).accepted = o.accepted
  BY DEF Hurt, Ops

LEMMA RenameFields ==
  ASSUME op \in Ops, NEW phase \in {"select", "undo", "normalize", "fallback", "keep", "reverse"}, NEW moves \in Seq(Moves)
  PROVE  /\ Rename(phase, moves) \in Ops /\ Rename(phase, moves).phase = phase
         /\ Rename(phase, moves).at \in {"move", "boot", "probe", "clean"}
         /\ phase \in {"select", "undo"} => Rename(phase, moves).at \in {"move", "boot"}
         /\ Rename(phase, moves).kind = op.kind /\ Rename(phase, moves).accepted = op.accepted
         /\ Rename(phase, moves).at = "move" => moves # <<>> /\ Rename(phase, moves).moves = moves
         /\ moves = <<>> => Rename(phase, moves).at = Renamed[phase]
<1> DEFINE next == IF moves = <<>> THEN Renamed[phase] ELSE "move"
           a == [op EXCEPT !.phase = phase]
           b == [a EXCEPT !.moves = moves]
<1>1. next \in {"move", "boot", "probe", "clean"} /\ (phase \in {"select", "undo"} => next \in {"move", "boot"})
  BY DEF Renamed
<1>5. (next = "move" => moves # <<>>) /\ (moves = <<>> => next = Renamed[phase])
  BY DEF Renamed
<1> HIDE DEF next
<1>2. a \in Ops /\ a.phase = phase /\ a.kind = op.kind /\ a.accepted = op.accepted
  BY DEF Ops, Phases
<1> HIDE DEF a
<1>3. b \in Ops /\ b.phase = phase /\ b.kind = op.kind /\ b.accepted = op.accepted /\ b.moves = moves
  BY <1>2 DEF Ops
<1>4. Rename(phase, moves) = [b EXCEPT !.at = next]
  BY DEF Rename, a, b, next
<1> HIDE DEF b
<1> QED
  BY <1>1, <1>3, <1>4, <1>5 DEF Ops, Places

HaltPhases == {"select", "undo", "establish", "fallback", "reverse"}
RenamePhases == {"select", "undo", "normalize", "fallback", "keep", "reverse"}

\* Which phases each place belongs to; a promotion neither normalizes nor probes.
Shape(o) ==
  /\ o \in Ops
  /\ o.at # "idle" => o.phase # "none"
  /\ o.at = "halt" => o.phase \in HaltPhases
  /\ o.at = "move" => o.moves # <<>> /\ o.phase \in RenamePhases
  /\ o.kind = "promote" => o.phase \in {"none", "select", "undo"} /\ o.at \notin {"probe", "normalize"}

\* While a promotion has the service stopped, nothing runs; what runs then is the app.
StoppedAt == {"transition", "restore", "move", "boot"}
ServiceOf(o) ==
  o.kind = "promote" =>
    /\ o.at \in StoppedAt => ~svc.loaded /\ svc.run = NoApp
    /\ o.at = "wait" => svc.run \in {NoApp, App}

ReleaseInv ==
  /\ slots \in [Slots -> Nat] /\ svc \in Services
  /\ data \in [schema : {"old", "current"}, version : Nat]
  /\ healthy \subseteq Nat \ {0}
  /\ svc.ready => svc.run # NoApp
  /\ Shape(op) /\ ServiceOf(op)

LEMMA RestingFields ==
  Resting \in Ops /\ Resting.at = "idle" /\ Resting.kind = "none" /\ Resting.phase = "none" /\ Resting.accepted = NoApp
  BY DEF Resting, Ops, Places, Phases, Results

LEMMA MovesTyped ==
  /\ UndoMoves \in Seq(Moves) /\ NormalMoves \in Seq(Moves) /\ SelectMoves \in Seq(Moves)
  /\ \A a, b \in Slots : <<Put(a, b)>> \in Seq(Moves) /\ MoveIf(a, b) \in Seq(Moves)
<1>1. \A a, b \in Slots : Put(a, b) \in Moves
  BY DEF Put, Moves
<1>2. \A a, b \in Slots : <<Put(a, b)>> \in Seq(Moves) /\ MoveIf(a, b) \in Seq(Moves)
  BY <1>1 DEF MoveIf
<1>3. \A r, q \in Seq(Moves) : r \o q \in Seq(Moves)
  OBVIOUS
<1>4. SelectMoves \in Seq(Moves)
  BY <1>2, <1>3 DEF SelectMoves, Slots
<1>5. UndoMoves \in Seq(Moves)
  BY <1>1, <1>2, <1>3 DEF UndoMoves, Slots
<1>6. NormalMoves \in Seq(Moves)
  BY <1>1, <1>2, <1>3 DEF NormalMoves, MovesFor, Slots
<1> QED
  BY <1>2, <1>4, <1>5, <1>6

\* A call that fails leaves a promotion stopping the service again, or over.
LEMMA CaughtFields ==
  ASSUME Shape(op), op.at # "idle"
  PROVE  /\ Shape(Caught) /\ Caught.kind = op.kind /\ Caught.accepted = op.accepted
         /\ op.kind = "promote" => Caught.at \in {"halt", "idle"}
<1> USE DEF Shape, HaltPhases, RenamePhases
<1>0. op \in Ops /\ op.phase \in Phases \ {"none"}
  BY DEF Ops
<1>1. CASE op.phase = "select"
  <2> DEFINE h == Halt("undo")
  <2>1. h \in Ops /\ h.at = "halt" /\ h.phase = "undo" /\ h.kind = op.kind /\ h.accepted = op.accepted
    BY <1>0, HaltFields DEF Phases
  <2>2. Caught = [h EXCEPT !.hurt = FALSE]
    BY <1>1 DEF Caught
  <2> HIDE DEF h
  <2> QED
    BY <2>1, <2>2 DEF Ops
<1>2. CASE op.phase = "undo"
  BY <1>2, <1>0, EndedFields DEF Caught, Results
<1>3. CASE op.phase \in {"establish", "keep", "normalize", "reverse"}
  BY <1>3, <1>0, EndedFields, HaltFields DEF Caught, Results, Phases
<1>4. CASE op.phase = "fallback"
  <2>1. Rename("reverse", <<>>) \in Ops /\ Rename("reverse", <<>>).at = "boot" /\ Rename("reverse", <<>>).phase = "reverse"
        /\ Rename("reverse", <<>>).kind = op.kind /\ Rename("reverse", <<>>).accepted = op.accepted
    <3>1. <<>> \in Seq(Moves)
      OBVIOUS
    <3> QED
      BY <3>1, <1>0, RenameFields DEF Renamed
  <2>2. Caught \in {Rename("reverse", <<>>), Halt("reverse")}
    BY <1>4 DEF Caught
  <2> QED
    BY <1>4, <2>1, <2>2, <1>0, HaltFields DEF Phases
<1> QED
  BY <1>0, <1>1, <1>2, <1>3, <1>4 DEF Phases

\* How a command begins.
LEMMA BegunFields ==
  ASSUME slots \in [Slots -> Nat]
  PROVE  /\ Recovery \in Ops /\ Recovery.at = "normalize" /\ Recovery.kind = "recover" /\ Recovery.phase = "normalize"
         /\ Recovery.accepted = NoApp
         /\ LET o == [Resting EXCEPT !.at = "prepare", !.kind = "promote", !.phase = "select", !.begun = slots] IN
              o \in Ops /\ o.at = "prepare" /\ o.kind = "promote" /\ o.phase = "select" /\ o.accepted = NoApp
<1> DEFINE o(place, kind, phase) == [Resting EXCEPT !.at = place, !.kind = kind, !.phase = phase, !.begun = slots]
<1>1. ASSUME NEW place \in Places, NEW kind \in {"promote", "recover"}, NEW phase \in Phases
      PROVE  /\ o(place, kind, phase) \in Ops /\ o(place, kind, phase).at = place /\ o(place, kind, phase).kind = kind
             /\ o(place, kind, phase).phase = phase /\ o(place, kind, phase).accepted = NoApp
  <2> DEFINE a == [Resting EXCEPT !.at = place]
             b == [a EXCEPT !.kind = kind]
             d == [b EXCEPT !.phase = phase]
  <2>1. a \in Ops /\ a.at = place /\ a.accepted = NoApp
    BY RestingFields DEF Ops
  <2> HIDE DEF a
  <2>2. b \in Ops /\ b.at = place /\ b.kind = kind /\ b.accepted = NoApp
    BY <2>1 DEF Ops
  <2> HIDE DEF b
  <2>3. d \in Ops /\ d.at = place /\ d.kind = kind /\ d.phase = phase /\ d.accepted = NoApp
    BY <2>2 DEF Ops
  <2>4. o(place, kind, phase) = [d EXCEPT !.begun = slots]
    BY DEF a, b, d
  <2> HIDE DEF d, o
  <2> QED
    BY <2>3, <2>4 DEF Ops
<1>2. Recovery = o("normalize", "recover", "normalize")
  BY DEF Recovery
<1> QED
  BY <1>1, <1>2 DEF Places, Phases

\* What follows a stop: the promotion goes on where nothing runs.
LEMMA StoppedFields ==
  ASSUME Shape(op), op.at = "halt"
  PROVE  /\ Shape(Stopped) /\ Stopped.kind = op.kind /\ Stopped.accepted = op.accepted
         /\ op.kind = "promote" => Stopped.at \in StoppedAt
<1> USE DEF Shape
<1>0. op \in Ops /\ op.phase \in HaltPhases
  OBVIOUS
<1>1. CASE op.phase \in {"select", "undo", "establish"}
  BY <1>0, <1>1 DEF Stopped, Ops, Places, StoppedAt
<1>2. CASE op.phase \in {"fallback", "reverse"}
  <2> DEFINE fall == <<Put("app", "retiring"), Put("previous", "app")>>
             back == MoveIf("app", "previous") \o MoveIf("retiring", "app")
  <2>1. fall \in Seq(Moves) /\ back \in Seq(Moves)
    <3>1. Put("app", "retiring") \in Moves /\ Put("previous", "app") \in Moves
      BY DEF Put, Moves, Slots
    <3>2. MoveIf("app", "previous") \in Seq(Moves) /\ MoveIf("retiring", "app") \in Seq(Moves)
      BY MovesTyped DEF Slots
    <3> QED
      BY <3>1, <3>2
  <2>2. Stopped = Rename("fallback", fall) \/ Stopped = Rename("reverse", back)
    BY <1>2 DEF Stopped
  <2> HIDE DEF fall, back
  <2> QED
    <3>1. ASSUME NEW phase \in {"fallback", "reverse"}, NEW moves \in Seq(Moves), Stopped = Rename(phase, moves)
          PROVE  Shape(Stopped) /\ Stopped.kind = op.kind /\ Stopped.accepted = op.accepted
      <4>1. op.kind # "promote"
        BY <1>2
      <4> QED
        BY <3>1, <4>1, <1>0, RenameFields DEF RenamePhases
    <3> QED
      BY <1>2, <2>1, <2>2, <3>1
<1> QED
  BY <1>0, <1>1, <1>2 DEF HaltPhases

LEMMA AcceptedFields ==
  ASSUME Shape(op), op.at \in {"wait", "probe"}, App \in Nat
  PROVE  /\ Shape(Accepted) /\ Accepted.kind = op.kind
         /\ op.kind = "promote" => Accepted.at = "clean"
<1> USE DEF Shape
<1> DEFINE ready == [op EXCEPT !.accepted = App]
<1>1. ready \in Ops /\ ready.kind = op.kind /\ ready.phase = op.phase
  BY DEF Ops
<1> HIDE DEF ready
<1>2. CASE op.phase = "fallback"
  <2> DEFINE keep == [ready EXCEPT !.phase = "keep"]
             move == [keep EXCEPT !.at = "move"]
             back == <<Put("retiring", "previous")>>
  <2>1. back \in Seq(Moves) /\ back # <<>>
    BY MovesTyped DEF Slots
  <2>2. keep \in Ops /\ keep.kind = op.kind /\ keep.phase = "keep"
    BY <1>1 DEF Ops, Phases
  <2> HIDE DEF keep
  <2>3. move \in Ops /\ move.kind = op.kind /\ move.phase = "keep" /\ move.at = "move"
    BY <2>2 DEF Ops, Places
  <2>4. Accepted = [move EXCEPT !.moves = back]
    BY <1>2 DEF Accepted, move, keep, ready
  <2> HIDE DEF move, back
  <2> QED
    BY <1>2, <2>1, <2>3, <2>4 DEF Ops, RenamePhases
<1>3. CASE op.phase = "reverse"
  <2> DEFINE over == Ended("failed")
  <2>1. over \in Ops /\ over.at = "idle" /\ over.kind = op.kind /\ over.phase = "none"
    BY EndedFields DEF Results
  <2>2. Accepted = [over EXCEPT !.accepted = App]
    BY <1>3 DEF Accepted
  <2> HIDE DEF over
  <2> QED
    BY <1>3, <2>1, <2>2 DEF Ops
<1>4. CASE op.phase \notin {"fallback", "reverse"}
  <2>1. Accepted = [ready EXCEPT !.at = "clean"]
    BY <1>4 DEF Accepted, ready
  <2> QED
    BY <1>1, <1>4, <2>1 DEF Ops, Places
<1> QED
  BY <1>2, <1>3, <1>4

\* What a step must show: the invariant, and both promises of a promotion.
Proves == op.kind = "promote" /\ op'.accepted # op.accepted /\ op'.accepted # NoApp => svc.run = App
StepSound == ReleaseInv' /\ data'.version >= data.version /\ Proves

\* The command goes on without the service, the slots or the household's writes.
LEMMA CommandGoesOn ==
  ASSUME ReleaseInv, UNCHANGED <<slots, svc, healthy>>,
         data' \in [schema : {"old", "current"}, version : Nat], data'.version = data.version,
         NEW o, op' = o, Shape(o), o.kind \in {op.kind, "recover", "none"}, o.accepted \in {op.accepted, NoApp},
         o.kind = "promote" => \/ o.at \in {"idle", "halt", "preflight", "clean"}
                               \/ op.at \in StoppedAt /\ o.at \in StoppedAt
  PROVE  StepSound
<1>1. ReleaseInv'
  BY DEF ReleaseInv, Shape, ServiceOf, StoppedAt
<1> QED
  BY <1>1 DEF StepSound, Proves, ReleaseInv

\* The command goes on after it prepared or cleared `staging' beside the service.
LEMMA StagingChanges ==
  ASSUME ReleaseInv, UNCHANGED <<svc, data, healthy>>, NEW b \in Nat, slots' = [slots EXCEPT !["staging"] = b],
         NEW o, op' = o, Shape(o), o.kind \in {op.kind, "promote"}, o.accepted \in {op.accepted, NoApp},
         o.at \in {"idle", "prepare", "preflight"}
  PROVE  StepSound
<1>1. slots' \in [Slots -> Nat]
  BY DEF ReleaseInv, Slots
<1>2. Shape(op)' /\ ServiceOf(op)'
  BY DEF Shape, ServiceOf, StoppedAt
<1>3. data.version \in Nat
  BY DEF ReleaseInv
<1> QED
  BY <1>1, <1>2, <1>3 DEF StepSound, Proves, ReleaseInv

LEMMA ReleaseStepSound ==
  ASSUME ReleaseInv, ReleaseNext
  PROVE  StepSound
<1> USE ReleaseAssumption DEF world
<1>0. /\ slots \in [Slots -> Nat] /\ svc \in Services /\ App \in Nat
      /\ data \in [schema : {"old", "current"}, version : Nat]
      /\ Shape(op) /\ op \in Ops /\ ServiceOf(op)
  BY DEF ReleaseInv, Shape, Slots, App
<1>1. CASE Promote
  <2> DEFINE o == [Resting EXCEPT !.at = "prepare", !.kind = "promote", !.phase = "select", !.begun = slots]
  <2>1. o \in Ops /\ o.at = "prepare" /\ o.kind = "promote" /\ o.phase = "select" /\ o.accepted = NoApp
    BY <1>0, BegunFields
  <2>2. op' = o /\ slots' = [slots EXCEPT !["staging"] = NoApp] /\ UNCHANGED <<svc, data, healthy>>
    BY <1>1 DEF Promote
  <2> HIDE DEF o
  <2>3. Shape(o)
    BY <2>1 DEF Shape
  <2> QED
    BY <2>1, <2>2, <2>3, StagingChanges
<1>2. CASE Recover
  <2>1. op' = Recovery /\ UNCHANGED <<slots, svc, data, healthy>>
    BY <1>2 DEF Recover
  <2>2. Shape(Recovery) /\ Recovery.kind = "recover" /\ Recovery.accepted = NoApp
    BY <1>0, BegunFields DEF Shape
  <2> QED
    BY <2>1, <2>2, <1>0, CommandGoesOn
<1>3. CASE Prepare
  <2>1. /\ op.at = "prepare" /\ op' = [op EXCEPT !.at = "preflight"] /\ UNCHANGED <<svc, data, healthy>>
        /\ \E b \in Nat : slots' = [slots EXCEPT !["staging"] = b]
    BY <1>3 DEF Prepare
  <2> QED
    <3> DEFINE o == [op EXCEPT !.at = "preflight"]
    <3>1. o \in Ops /\ o.at = "preflight" /\ o.kind = op.kind /\ o.phase = op.phase /\ o.accepted = op.accepted
      BY <1>0 DEF Ops, Places
    <3>2. op' = o
      BY <2>1
    <3> HIDE DEF o
    <3>3. Shape(o)
      BY <3>1, <2>1, <1>0 DEF Shape
    <3> QED
      BY <2>1, <3>1, <3>2, <3>3, StagingChanges
<1>4. CASE Preflight
  <2> DEFINE h == Halt("select")
  <2>1. h \in Ops /\ h.at = "halt" /\ h.phase = "select" /\ h.kind = op.kind /\ h.accepted = op.accepted
    BY <1>0, HaltFields DEF Phases
  <2>2. op' = [h EXCEPT !.plan = data] /\ UNCHANGED <<slots, svc, data, healthy>>
    BY <1>4 DEF Preflight
  <2> HIDE DEF h
  <2>3. ASSUME NEW o, o = [h EXCEPT !.plan = data] PROVE Shape(o) /\ o.kind = op.kind /\ o.accepted = op.accepted /\ o.at = "halt"
    BY <2>1, <2>3, <1>0 DEF Shape, Ops, HaltPhases
  <2> QED
    BY <2>2, <2>3, <1>0, CommandGoesOn
<1>5. CASE RejectCandidate
  <2> DEFINE o == Ended("refused")
  <2>1. o \in Ops /\ o.at = "idle" /\ o.phase = "none" /\ o.kind = op.kind /\ o.accepted = op.accepted
    BY <1>0, EndedFields DEF Results
  <2>2. op' = o /\ slots' = [slots EXCEPT !["staging"] = NoApp] /\ UNCHANGED <<svc, data, healthy>>
    BY <1>5 DEF RejectCandidate
  <2> HIDE DEF o
  <2>3. Shape(o)
    BY <2>1, <1>0 DEF Shape
  <2> QED
    BY <2>1, <2>2, <2>3, StagingChanges
<1>6. CASE Transition
  <2> DEFINE r == Rename("select", SelectMoves)
  <2>1. PICK handle \in Nat : op' = [r EXCEPT !.handle = handle]
    BY <1>6, <1>0 DEF Transition
  <2>2. r \in Ops /\ r.phase = "select" /\ r.at \in {"move", "boot"} /\ r.kind = op.kind /\ r.accepted = op.accepted
        /\ (r.at = "move" => r.moves # <<>>)
    BY <1>0, RenameFields, MovesTyped
  <2> HIDE DEF r
  <2>3. op.at = "transition" /\ data' = [data EXCEPT !.schema = "current"] /\ UNCHANGED <<slots, svc, healthy>>
    BY <1>6 DEF Transition
  <2>4. ASSUME NEW o, o = [r EXCEPT !.handle = handle]
        PROVE  Shape(o) /\ o.kind = op.kind /\ o.accepted = op.accepted /\ o.at \in StoppedAt
    BY <2>2, <2>4, <1>0 DEF Shape, Ops, RenamePhases, StoppedAt
  <2>5. op.at \in StoppedAt
    BY <2>3 DEF StoppedAt
  <2> QED
    BY <2>1, <2>3, <2>4, <2>5, <1>0, CommandGoesOn
<1>7. CASE TransitionFails \/ RestoreDataFails \/ MoveFails \/ BootstrapFails \/ TimesOut
  <2>1. op.at # "idle" /\ UNCHANGED <<slots, svc, healthy>> /\ op' \in {Caught, Hurt(Caught)}
        /\ (data' = data \/ data' = [data EXCEPT !.schema = "current"])
    BY <1>7 DEF TransitionFails, RestoreDataFails, MoveFails, BootstrapFails, TimesOut
  <2>2. Shape(Caught) /\ Caught.kind = op.kind /\ Caught.accepted = op.accepted
        /\ (op.kind = "promote" => Caught.at \in {"halt", "idle"})
    BY <2>1, <1>0, CaughtFields
  <2>3. Shape(Hurt(Caught)) /\ Hurt(Caught).kind = op.kind /\ Hurt(Caught).accepted = op.accepted
        /\ (op.kind = "promote" => Hurt(Caught).at \in {"halt", "idle"})
    <3>1. Caught \in Ops
      BY <2>2 DEF Shape
    <3>2. Hurt(Caught).moves = Caught.moves
      BY <3>1 DEF Hurt, Ops
    <3> QED
      BY <3>1, <3>2, <2>2, HurtFields DEF Shape
  <2> QED
    BY <2>1, <2>2, <2>3, <1>0, CommandGoesOn
<1>8. CASE RestoreData
  <2> DEFINE r == Rename("undo", UndoMoves)
  <2>1. op.at = "restore" /\ op' = r /\ UNCHANGED <<slots, svc, healthy>>
        /\ (data' = data \/ (data.version = op.handle /\ data' = [schema |-> "old", version |-> op.handle]))
    BY <1>8 DEF RestoreData, Restorable, Backup
  <2>2. r \in Ops /\ r.phase = "undo" /\ r.at \in {"move", "boot"} /\ r.kind = op.kind /\ r.accepted = op.accepted
        /\ (r.at = "move" => r.moves # <<>>)
    BY <1>0, RenameFields, MovesTyped
  <2> HIDE DEF r
  <2>3. Shape(r) /\ r.at \in StoppedAt /\ op.at \in StoppedAt
    BY <2>1, <2>2, <1>0 DEF Shape, RenamePhases, StoppedAt
  <2>4. data' \in [schema : {"old", "current"}, version : Nat] /\ data'.version = data.version
    BY <2>1, <1>0
  <2> QED
    BY <2>1, <2>2, <2>3, <2>4, <1>0, CommandGoesOn
<1>9. CASE Normalize
  <2>1. op.at = "normalize" /\ op' \in {Ended("failed"), Rename("normalize", NormalMoves)}
        /\ UNCHANGED <<slots, svc, data, healthy>>
    BY <1>9 DEF Normalize
  <2>2. op.kind # "promote"
    BY <2>1, <1>0 DEF Shape
  <2>3. Shape(Ended("failed")) /\ Ended("failed").kind = op.kind /\ Ended("failed").accepted = op.accepted
    BY <1>0, <2>2, EndedFields DEF Shape, Results
  <2>4. Shape(Rename("normalize", NormalMoves)) /\ Rename("normalize", NormalMoves).kind = op.kind
        /\ Rename("normalize", NormalMoves).accepted = op.accepted
    <3> DEFINE phase == "normalize"
               moves == NormalMoves
               r == Rename(phase, moves)
    <3>1. phase \in RenamePhases /\ phase # "none" /\ moves \in Seq(Moves)
      BY MovesTyped DEF RenamePhases
    <3> HIDE DEF moves, phase
    <3>2. r \in Ops /\ r.phase = phase /\ r.kind = op.kind /\ r.accepted = op.accepted
          /\ r.at \in {"move", "boot", "probe", "clean"} /\ (r.at = "move" => r.moves # <<>>)
      BY <3>1, <1>0, RenameFields DEF RenamePhases
    <3>3. Shape(r)
      <4> HIDE DEF r
      <4> QED
        BY <2>2, <3>1, <3>2 DEF Shape
    <3> QED
      BY <3>2, <3>3 DEF phase, moves
  <2> QED
    BY <2>1, <2>2, <2>3, <2>4, <1>0, CommandGoesOn
<1>10. CASE Quiesce
  <2>1. op.at = "halt" /\ svc' = Down /\ op' = Stopped /\ UNCHANGED <<slots, data, healthy>>
    BY <1>10 DEF Quiesce
  <2>2. Shape(Stopped) /\ Stopped.kind = op.kind /\ Stopped.accepted = op.accepted
        /\ (op.kind = "promote" => Stopped.at \in StoppedAt)
    BY <2>1, <1>0, StoppedFields
  <2>3. Down \in Services /\ ~Down.loaded /\ Down.run = NoApp /\ ~Down.ready
    BY DEF Down, Services
  <2> QED
    BY <2>1, <2>2, <2>3, <1>0 DEF StepSound, ReleaseInv, Shape, ServiceOf, Proves, App, StoppedAt
<1>11. CASE QuiesceFails
  <2>1. PICK o \in {Recovery, Ended("lost"), Ended("failed")} : op' = Hurt(o)
    BY <1>11 DEF QuiesceFails
  <2>2. Shape(o) /\ o.kind \in {op.kind, "recover"} /\ o.accepted \in {op.accepted, NoApp}
        /\ (o.kind = "promote" => o.at = "idle")
    BY <1>0, BegunFields, EndedFields DEF Shape, Results
  <2>3. Shape(Hurt(o)) /\ Hurt(o).kind \in {op.kind, "recover"} /\ Hurt(o).accepted \in {op.accepted, NoApp}
        /\ (Hurt(o).kind = "promote" => Hurt(o).at = "idle")
    <3>1. o \in Ops
      BY <2>2 DEF Shape
    <3>2. Hurt(o).moves = o.moves
      BY <3>1 DEF Hurt, Ops
    <3> QED
      BY <3>1, <3>2, <2>2, HurtFields DEF Shape
  <2>4. UNCHANGED <<slots, data, healthy>> /\ svc' \in Services /\ (svc'.ready => svc'.run # NoApp)
    <3>1. UNCHANGED <<slots, data, healthy>> /\ svc' \in StillThere
      BY <1>11 DEF QuiesceFails
    <3>2. svc.ready => svc.run # NoApp
      BY DEF ReleaseInv
    <3>3. [svc EXCEPT !.loaded = FALSE] \in Services /\ [svc EXCEPT !.loaded = FALSE].run = svc.run
          /\ [svc EXCEPT !.loaded = FALSE].ready = svc.ready
      BY <1>0 DEF Services
    <3>4. Down \in Services /\ ~Down.ready
      BY DEF Down, Services
    <3>5. CASE svc' = svc
      BY <3>1, <3>2, <3>5, <1>0
    <3>6. CASE svc' = [svc EXCEPT !.loaded = FALSE]
      BY <3>1, <3>2, <3>3, <3>6
    <3>7. CASE svc' = Down
      BY <3>1, <3>4, <3>7
    <3> QED
      BY <3>1, <3>5, <3>6, <3>7 DEF StillThere
  <2> QED
    BY <2>1, <2>3, <2>4, <1>0 DEF StepSound, ReleaseInv, Shape, ServiceOf, Proves, App, StoppedAt
<1>12. CASE Move
  <2> DEFINE m == Head(op.moves)
             r == Rename(op.phase, Tail(op.moves))
  <2>1. op.at = "move" /\ op' = r /\ UNCHANGED <<svc, data, healthy>>
        /\ slots' = [slots EXCEPT ![m.to] = slots[m.from], ![m.from] = NoApp]
    BY <1>12 DEF Move
  <2>2. op.phase \in RenamePhases /\ op.moves \in Seq(Moves) /\ op.moves # <<>>
    BY <2>1, <1>0 DEF Shape, Ops
  <2>3. Tail(op.moves) \in Seq(Moves) /\ m \in Moves
    BY <2>2
  <2>4. r \in Ops /\ r.phase = op.phase /\ r.kind = op.kind /\ r.accepted = op.accepted
        /\ r.at \in {"move", "boot", "probe", "clean"} /\ (r.at = "move" => r.moves # <<>>)
        /\ (op.phase \in {"select", "undo"} => r.at \in {"move", "boot"})
    <3> DEFINE tail == Tail(op.moves)
    <3>1. tail \in Seq(Moves)
      BY <2>3
    <3> HIDE DEF tail
    <3>2. ASSUME NEW phase \in {"select", "undo", "normalize", "fallback", "keep", "reverse"}
          PROVE  LET q == Rename(phase, tail) IN
                   /\ q \in Ops /\ q.phase = phase /\ q.kind = op.kind /\ q.accepted = op.accepted
                   /\ q.at \in {"move", "boot", "probe", "clean"} /\ (q.at = "move" => q.moves # <<>>)
                   /\ (phase \in {"select", "undo"} => q.at \in {"move", "boot"})
      BY <3>1, <1>0, RenameFields
    <3> QED
      BY <2>2, <3>2 DEF RenamePhases, tail
  <2> HIDE DEF r, m
  <2>5. slots' \in [Slots -> Nat]
    BY <2>1, <2>3, <1>0 DEF Moves
  <2>6. Shape(r)
    BY <2>1, <2>2, <2>4, <1>0 DEF Shape, RenamePhases
  <2>7. op.kind = "promote" => r.at \in StoppedAt /\ op.at \in StoppedAt
    BY <2>1, <2>2, <2>4, <1>0 DEF Shape, StoppedAt, RenamePhases
  <2> QED
    BY <2>1, <2>4, <2>5, <2>6, <2>7, <1>0 DEF StepSound, ReleaseInv, Shape, ServiceOf, Proves, App, StoppedAt
<1>13. CASE Bootstrap
  <2>1. op.at = "boot" /\ op' = [op EXCEPT !.at = "wait"] /\ svc' = [svc EXCEPT !.loaded = TRUE]
        /\ UNCHANGED <<slots, healthy>>
        /\ (data' = data \/ (data.version = op.handle /\ data' = [schema |-> "old", version |-> op.handle]))
    BY <1>13 DEF Bootstrap, Bootable, Restorable, Backup
  <2>2. data' \in [schema : {"old", "current"}, version : Nat] /\ data'.version = data.version
    BY <2>1, <1>0
  <2>3. op' \in Ops /\ op'.at = "wait" /\ op'.kind = op.kind /\ op'.phase = op.phase /\ op'.accepted = op.accepted
    BY <2>1, <1>0 DEF Ops, Places
  <2>4. svc' \in Services /\ svc'.run = svc.run /\ svc'.ready = svc.ready
    BY <2>1, <1>0 DEF Services
  <2> QED
    BY <2>1, <2>2, <2>3, <2>4, <1>0 DEF StepSound, ReleaseInv, Shape, ServiceOf, Proves, App, StoppedAt
<1>14. CASE Ready
  <2>1. op.at \in {"wait", "probe"} /\ svc.ready /\ op' = Accepted /\ UNCHANGED <<slots, svc, data, healthy>>
    BY <1>14 DEF Ready, ProbeReady
  <2>2. Shape(Accepted) /\ Accepted.kind = op.kind /\ (op.kind = "promote" => Accepted.at = "clean")
    BY <2>1, <1>0, AcceptedFields
  <2>3. op.kind = "promote" => svc.run = App
    BY <2>1, <1>0 DEF ServiceOf, ReleaseInv, Shape
  <2> QED
    BY <2>1, <2>2, <2>3, <1>0 DEF StepSound, ReleaseInv, Shape, ServiceOf, Proves, App, StoppedAt
<1>15. CASE NotReady
  <2>1. op.at = "probe" /\ op' = Halt("establish") /\ UNCHANGED <<slots, svc, data, healthy>>
    BY <1>15 DEF NotReady
  <2>2. Shape(Halt("establish")) /\ Halt("establish").kind = op.kind /\ Halt("establish").accepted = op.accepted
        /\ op.kind # "promote"
    BY <2>1, <1>0, HaltFields DEF Shape, Phases, HaltPhases
  <2> QED
    BY <2>1, <2>2, <1>0, CommandGoesOn
<1>16. CASE Clean
  <2>1. UNCHANGED <<op, svc, data, healthy>> /\ op.at = "clean" /\ slots' \in [Slots -> Nat]
    BY <1>16, <1>0 DEF Clean
  <2> QED
    BY <2>1, <1>0 DEF StepSound, ReleaseInv, Shape, ServiceOf, Proves, App, StoppedAt
<1>17. CASE CleanFails
  <2>1. op' = Hurt(Ended("incomplete")) /\ UNCHANGED <<slots, svc, data, healthy>>
    BY <1>17 DEF CleanFails
  <2>2. Ended("incomplete") \in Ops /\ Ended("incomplete").at = "idle" /\ Ended("incomplete").phase = "none"
        /\ Ended("incomplete").kind = op.kind /\ Ended("incomplete").accepted = op.accepted
    BY <1>0, EndedFields DEF Results
  <2>3. Shape(Hurt(Ended("incomplete"))) /\ Hurt(Ended("incomplete")).kind = op.kind
        /\ Hurt(Ended("incomplete")).accepted = op.accepted /\ Hurt(Ended("incomplete")).at = "idle"
    BY <2>2, HurtFields DEF Shape
  <2> QED
    BY <2>1, <2>3, <1>0, CommandGoesOn
<1>18. CASE FinishCommand
  <2>1. PICK result \in Results : op' = Ended(result)
    BY <1>18 DEF FinishCommand, Results
  <2>2. Shape(Ended(result)) /\ Ended(result).kind = op.kind /\ Ended(result).accepted = op.accepted
        /\ Ended(result).at = "idle"
    BY <1>0, EndedFields DEF Shape
  <2>3. UNCHANGED <<slots, svc, data, healthy>>
    BY <1>18 DEF FinishCommand
  <2> QED
    BY <2>1, <2>2, <2>3, <1>0, CommandGoesOn
<1>19. CASE Kill
  <2>1. op' = Resting /\ UNCHANGED <<slots, svc, data, healthy>>
    BY <1>19 DEF Kill
  <2> QED
    BY <2>1, <1>0, RestingFields DEF StepSound, ReleaseInv, Shape, ServiceOf, Proves, App
<1>20. CASE Restart
  <2>1. op' = Resting /\ svc' = Loaded /\ UNCHANGED <<slots, data, healthy>>
    BY <1>20 DEF Restart
  <2>2. Loaded \in Services /\ ~Loaded.ready
    BY DEF Loaded, Down, Services
  <2> QED
    BY <2>1, <2>2, <1>0, RestingFields DEF StepSound, ReleaseInv, Shape, ServiceOf, Proves, App
<1>21. CASE StartService
  <2>1. svc.loaded /\ svc.run = NoApp /\ svc' = [svc EXCEPT !.run = App] /\ UNCHANGED <<slots, op, healthy>>
        /\ App # NoApp /\ (data' = data \/ data' = [data EXCEPT !.schema = "current"])
    BY <1>21 DEF StartService, Present, App
  <2>2. data' \in [schema : {"old", "current"}, version : Nat] /\ data'.version = data.version
    BY <2>1, <1>0
  <2>3. svc' \in Services /\ svc'.run = App /\ svc'.loaded = svc.loaded
    BY <2>1, <1>0 DEF Services
  <2> QED
    BY <2>1, <2>2, <2>3, <1>0 DEF StepSound, ReleaseInv, Shape, ServiceOf, Proves, App
<1>22. CASE BecomesReady
  <2>1. svc.run \in healthy /\ svc' = [svc EXCEPT !.ready = TRUE] /\ UNCHANGED <<slots, data, op, healthy>>
    BY <1>22 DEF BecomesReady
  <2>2. svc' \in Services /\ svc'.run = svc.run /\ svc'.loaded = svc.loaded /\ svc.run # NoApp
    BY <2>1, <1>0 DEF Services, ReleaseInv
  <2> QED
    BY <2>1, <2>2, <1>0 DEF StepSound, ReleaseInv, Shape, ServiceOf, Proves, App
<1>23. CASE Dies
  <2>1. svc' = [svc EXCEPT !.run = NoApp, !.ready = FALSE] /\ UNCHANGED <<slots, data, op, healthy>>
    BY <1>23 DEF Dies
  <2> DEFINE a == [svc EXCEPT !.run = NoApp]
  <2>2. a \in Services /\ a.run = NoApp /\ a.loaded = svc.loaded
    BY <1>0 DEF Services
  <2>3. svc' = [a EXCEPT !.ready = FALSE]
    BY <2>1
  <2> HIDE DEF a
  <2>4. svc' \in Services /\ svc'.run = NoApp /\ svc'.loaded = svc.loaded /\ ~svc'.ready
    BY <2>2, <2>3 DEF Services
  <2> QED
    BY <2>1, <2>4, <1>0 DEF StepSound, ReleaseInv, Shape, ServiceOf, Proves, App
<1>24. CASE Write
  <2>1. data' = [data EXCEPT !.version = @ + 1] /\ UNCHANGED <<slots, svc, op, healthy>>
    BY <1>24 DEF Write
  <2>2. data.version \in Nat /\ \A n \in Nat : n + 1 \in Nat /\ n + 1 >= n
    BY <1>0
  <2>3. data' \in [schema : {"old", "current"}, version : Nat] /\ data'.version = data.version + 1
    BY <2>1, <2>2, <1>0
  <2>4. data'.version >= data.version
    BY <2>2, <2>3
  <2> QED
    BY <2>1, <2>3, <2>4, <1>0 DEF StepSound, ReleaseInv, Shape, ServiceOf, Proves, App
<1> QED
  BY <1>1, <1>2, <1>3, <1>4, <1>5, <1>6, <1>7, <1>8, <1>9, <1>10, <1>11, <1>12, <1>13, <1>14, <1>15, <1>16,
     <1>17, <1>18, <1>19, <1>20, <1>21, <1>22, <1>23, <1>24 DEF ReleaseNext, Command

LEMMA ReleaseInitSound == ReleaseInit => ReleaseInv
<1> SUFFICES ASSUME ReleaseInit PROVE ReleaseInv
  OBVIOUS
<1> USE ReleaseAssumption
<1>1. PICK n \in Installs, schema \in Schemas, broken \in SUBSET Broken :
        /\ slots = [s \in Slots |-> CASE s = "app" -> n [] s = "previous" -> n - 1 [] OTHER -> NoApp]
        /\ healthy = Builds \ broken
        /\ data = [schema |-> schema, version |-> 1]
        /\ svc = IF n \in healthy THEN [loaded |-> TRUE, run |-> n, ready |-> TRUE] ELSE Loaded
        /\ op = Resting
  BY DEF ReleaseInit
<1>2. n \in {1, 2} /\ schema \in {"old", "current"}
  OBVIOUS
<1>3. slots \in [Slots -> Nat]
  BY <1>1, <1>2
<1>4. healthy \subseteq Nat \ {0}
  BY <1>1 DEF Builds
<1>5. svc \in Services /\ (svc.ready => svc.run # NoApp)
  <2>1. Loaded \in Services /\ ~Loaded.ready
    BY DEF Loaded, Down, Services
  <2>2. [loaded |-> TRUE, run |-> n, ready |-> TRUE] \in Services
    BY <1>2 DEF Services
  <2> QED
    BY <1>1, <1>2, <2>1, <2>2
<1>6. data \in [schema : {"old", "current"}, version : Nat]
  BY <1>1, <1>2
<1> QED
  BY <1>1, <1>3, <1>4, <1>5, <1>6, RestingFields DEF ReleaseInv, Shape, ServiceOf

\* While no command, launchd or household step is taken, nothing is promised anew.
LEMMA ReleaseStutters ==
  ASSUME ReleaseInv, UNCHANGED releaseVars
  PROVE  StepSound
<1>1. UNCHANGED <<slots, svc, data, op, healthy>>
  BY DEF releaseVars
<1>2. data.version \in Nat
  BY DEF ReleaseInv
<1>3. data'.version >= data.version
  BY <1>1, <1>2
<1> QED
  BY <1>1, <1>3 DEF StepSound, ReleaseInv, Shape, ServiceOf, Proves, App

\* However a promotion, a recovery, launchd and the household interleave, and whatever
\* fails or is killed: the readiness a promotion takes for its app's is that app's, and
\* the version of the database never goes back (production-release.mjs, promoteProduction
\* and recoverProduction).
THEOREM PromotionsAlwaysSound == ReleaseSpec => PromotionSound
<1>1. ReleaseInv /\ [ReleaseNext]_releaseVars => ReleaseInv'
  BY ReleaseStepSound, ReleaseStutters DEF StepSound
<1>2. ReleaseSpec => []ReleaseInv
  BY ReleaseInitSound, <1>1, PTL DEF ReleaseSpec
<1>3. ReleaseInv /\ [ReleaseNext]_releaseVars
        => [op.kind = "promote" /\ op'.accepted # op.accepted /\ op'.accepted # NoApp => svc.run = App]_releaseVars
  BY ReleaseStepSound, ReleaseStutters DEF StepSound, Proves
<1>4. ReleaseInv /\ [ReleaseNext]_releaseVars => [data'.version >= data.version]_releaseVars
  BY ReleaseStepSound, ReleaseStutters DEF StepSound
<1>5. ReleaseSpec => PromotionProvesItsApp
  BY <1>2, <1>3, PTL DEF ReleaseSpec, PromotionProvesItsApp
<1>6. ReleaseSpec => NoWriteLost
  BY <1>2, <1>4, PTL DEF ReleaseSpec, NoWriteLost
<1> QED
  BY <1>5, <1>6 DEF PromotionSound

-----------------------------------------------------------------------------
(* What a promotion has done by each of its places.                         *)

OldApp == op.begun["app"]
OldPrevious == op.begun["previous"]
Hold(a, p, r) == slots["app"] = a /\ slots["previous"] = p /\ slots["retiring"] = r

\* The renames that select the candidate, as far as they have come.
Selecting ==
  op.phase = "select" =>
    /\ op.at \in {"prepare", "preflight", "halt", "transition"} => Hold(OldApp, OldPrevious, NoApp)
    /\ op.at \in {"preflight", "halt", "transition", "move"} => Present("staging")
    /\ op.at = "move" =>
         \/ /\ OldPrevious # NoApp /\ Hold(OldApp, OldPrevious, NoApp)
            /\ op.moves = <<Put("previous", "retiring"), Put("app", "previous"), Put("staging", "app")>>
         \/ /\ Hold(OldApp, NoApp, OldPrevious)
            /\ op.moves = <<Put("app", "previous"), Put("staging", "app")>>
         \/ /\ Hold(NoApp, OldApp, OldPrevious)
            /\ op.moves = <<Put("staging", "app")>>
    /\ op.at \in {"boot", "wait"} =>
         Present("app") /\ ~Present("staging") /\ Hold(App, OldApp, OldPrevious)
    /\ op.at = "clean" => Present("app") /\ App = op.accepted /\ slots["previous"] = OldApp

\* Where a promotion that failed may have left the slots.
Displaced ==
  \/ Present("staging") /\ Hold(OldApp, OldPrevious, NoApp)
  \/ Present("staging") /\ Hold(OldApp, NoApp, OldPrevious)
  \/ Present("staging") /\ Hold(NoApp, OldApp, OldPrevious)
  \/ Present("app") /\ ~Present("staging") /\ Hold(App, OldApp, OldPrevious)

\* The renames that undo it, as far as they have come.
PutBack == IF OldPrevious # NoApp THEN <<Put("retiring", "previous")>> ELSE <<>>
Undoing ==
  op.phase = "undo" =>
    /\ op.at \in {"halt", "restore"} => Displaced
    /\ op.at = "move" =>
         \/ /\ Present("app") /\ ~Present("staging") /\ Hold(App, OldApp, OldPrevious)
            /\ op.moves = <<Put("app", "staging"), Put("previous", "app")>> \o PutBack
         \/ /\ Hold(NoApp, OldApp, OldPrevious)
            /\ op.moves = <<Put("previous", "app")>> \o PutBack
         \/ /\ OldPrevious # NoApp /\ Hold(OldApp, NoApp, OldPrevious)
            /\ op.moves = <<Put("retiring", "previous")>>
    /\ op.at \in {"boot", "wait", "clean"} => App = OldApp /\ slots["previous"] = OldPrevious

\* What it knows of the database: what it saw, what it may put back, and who
\* but itself can have migrated it.
BackedUp ==
  /\ op.handle # NoApp => op.plan.schema = "old"
  /\ op.handle <= data.version
  /\ op.at \in {"prepare", "preflight"} => op.handle = NoApp
SchemaKnown ==
  /\ op.at \notin {"idle", "prepare", "preflight"} => (op.plan.schema = "current" => data.schema = "current")
  /\ op.at \notin {"idle", "prepare", "preflight"} => op.plan.schema \in {"old", "current"}
  /\ op.phase = "select" /\ op.at \in {"halt", "transition"} =>
       op.handle = NoApp /\ (op.plan.schema = "old" /\ data.schema = "current" => OldApp \in modern)
  /\ op.phase = "select" /\ op.at \in {"move", "boot", "wait"} => (op.plan.schema = "old" => op.handle # NoApp)
  /\ op.phase = "undo" /\ op.at \in {"halt", "restore"} /\ op.plan.schema = "old" /\ op.handle = NoApp =>
       App = OldApp /\ (data.schema = "current" => op.hurt \/ OldApp \in modern)
  /\ op.phase = "undo" /\ op.at \in {"move", "boot"} => data.schema = op.plan.schema

Routed ==
  /\ op.at \in {"prepare", "preflight", "transition"} => op.phase = "select"
  /\ op.at = "restore" => op.phase = "undo"

Course == Routed /\ Selecting /\ Undoing /\ BackedUp /\ SchemaKnown /\ PromotionOutcome

-----------------------------------------------------------------------------
\* A command that goes on, with what it remembers.
Goes(o, place, phase, moves) ==
  /\ o \in Ops /\ o.at = place /\ o.phase = phase /\ o.moves = moves /\ o.kind = op.kind
  /\ o.begun = op.begun /\ o.plan = op.plan /\ o.handle = op.handle

LEMMA HaltGoes ==
  ASSUME op \in Ops, NEW phase \in Phases
  PROVE  Goes(Halt(phase), "halt", phase, <<>>) /\ Halt(phase).hurt = op.hurt /\ Halt(phase).accepted = op.accepted
<1> DEFINE a == [op EXCEPT !.at = "halt"]
           b == [a EXCEPT !.phase = phase]
           none == <<>>
<1>1. Goes(a, "halt", op.phase, op.moves) /\ a.hurt = op.hurt /\ a.accepted = op.accepted
  BY DEF Ops, Places, Goes
<1> HIDE DEF a
<1>2. Goes(b, "halt", phase, op.moves) /\ b.hurt = op.hurt /\ b.accepted = op.accepted
  BY <1>1 DEF Ops, Goes
<1>3. Halt(phase) = [b EXCEPT !.moves = none] /\ none \in Seq(Moves) /\ none = <<>>
  BY DEF Halt, a
<1> HIDE DEF b, none
<1>4. Goes(Halt(phase), "halt", phase, none) /\ Halt(phase).hurt = op.hurt /\ Halt(phase).accepted = op.accepted
  BY <1>2, <1>3 DEF Ops, Goes
<1> QED
  BY <1>3, <1>4

LEMMA EndedGoes ==
  ASSUME op \in Ops, NEW result \in Results
  PROVE  /\ Goes(Ended(result), "idle", "none", <<>>) /\ Ended(result).hurt = op.hurt
         /\ Ended(result).accepted = op.accepted /\ Ended(result).result = result
<1> DEFINE a == [op EXCEPT !.at = "idle"]
           b == [a EXCEPT !.phase = "none"]
           none == <<>>
           d == [b EXCEPT !.moves = none]
<1>1. Goes(a, "idle", op.phase, op.moves) /\ a.hurt = op.hurt /\ a.accepted = op.accepted
  BY DEF Ops, Places, Goes
<1> HIDE DEF a
<1>2. Goes(b, "idle", "none", op.moves) /\ b.hurt = op.hurt /\ b.accepted = op.accepted
  BY <1>1 DEF Ops, Goes, Phases
<1> HIDE DEF b
<1>3. Ended(result) = [d EXCEPT !.result = result] /\ none \in Seq(Moves) /\ none = <<>>
  BY DEF Ended, a, b, d
<1> HIDE DEF none
<1>4. Goes(d, "idle", "none", none) /\ d.hurt = op.hurt /\ d.accepted = op.accepted
  BY <1>2, <1>3 DEF Ops, Goes
<1> HIDE DEF d
<1>5. Goes(Ended(result), "idle", "none", none) /\ Ended(result).hurt = op.hurt
      /\ Ended(result).accepted = op.accepted /\ Ended(result).result = result
  BY <1>3, <1>4 DEF Ops, Goes
<1> QED
  BY <1>3, <1>5

LEMMA RenameGoes ==
  ASSUME op \in Ops, NEW phase \in RenamePhases, NEW moves \in Seq(Moves)
  PROVE  LET r == Rename(phase, moves) IN
         /\ Goes(r, IF moves = <<>> THEN Renamed[phase] ELSE "move", phase, moves)
         /\ r.hurt = op.hurt /\ r.accepted = op.accepted
<1> DEFINE next == IF moves = <<>> THEN Renamed[phase] ELSE "move"
           a == [op EXCEPT !.phase = phase]
           b == [a EXCEPT !.moves = moves]
<1>1. next \in Places
  BY DEF Renamed, Places, RenamePhases
<1> HIDE DEF next
<1>2. Goes(a, op.at, phase, op.moves) /\ a.hurt = op.hurt /\ a.accepted = op.accepted
  BY DEF Ops, Phases, Goes, RenamePhases
<1> HIDE DEF a
<1>3. Goes(b, op.at, phase, moves) /\ b.hurt = op.hurt /\ b.accepted = op.accepted
  BY <1>2 DEF Ops, Goes
<1>4. Rename(phase, moves) = [b EXCEPT !.at = next]
  BY DEF Rename, a, b, next
<1> HIDE DEF b
<1>5. Goes(Rename(phase, moves), next, phase, moves) /\ Rename(phase, moves).hurt = op.hurt
      /\ Rename(phase, moves).accepted = op.accepted
  BY <1>1, <1>3, <1>4 DEF Ops, Goes
<1> QED
  BY <1>5 DEF next

LEMMA HurtGoes ==
  ASSUME NEW o, NEW place, NEW phase, NEW moves, Goes(o, place, phase, moves)
  PROVE  Goes(Hurt(o), place, phase, moves) /\ Hurt(o).hurt = TRUE
         /\ Hurt(o).accepted = o.accepted /\ Hurt(o).result = o.result
BY DEF Goes, Hurt, Ops

\* A promotion whose call fails stops the service to undo what was done, or has lost.
LEMMA CaughtGoes ==
  ASSUME Shape(op), op.at # "idle"
  PROVE  /\ op.phase = "select" => Goes(Caught, "halt", "undo", <<>>) /\ Caught.hurt = FALSE
         /\ op.phase = "undo" => /\ Goes(Caught, "idle", "none", <<>>) /\ Caught.hurt = op.hurt
                                 /\ Caught.result = "lost"
<1>0. op \in Ops
  BY DEF Shape
<1>1. CASE op.phase = "select"
  <2> DEFINE h == Halt("undo")
  <2>1. Goes(h, "halt", "undo", <<>>)
    BY <1>0, HaltGoes DEF Phases
  <2>2. Caught = [h EXCEPT !.hurt = FALSE]
    BY <1>1 DEF Caught
  <2> HIDE DEF h
  <2> QED
    BY <2>1, <2>2, <1>1 DEF Ops, Goes
<1>2. CASE op.phase = "undo"
  BY <1>2, <1>0, EndedGoes DEF Caught, Results
<1> QED
  BY <1>1, <1>2

-----------------------------------------------------------------------------
\* The promotion under way, for the steps below.
Steady ==
  /\ slots \in [Slots -> Nat] /\ App \in Nat /\ data \in [schema : {"old", "current"}, version : Nat]
  /\ op \in Ops /\ Shape(op) /\ ServiceOf(op) /\ svc \in Services /\ modern' = modern /\ healthy' = healthy
  /\ data.version # 0 /\ op.kind = "promote" /\ OldApp # NoApp /\ Course

LEMMA PromoteBegins ==
  ASSUME ReleaseInv, Promote
  PROVE  Course'
<1> DEFINE a == [Resting EXCEPT !.at = "prepare"]
           b == [a EXCEPT !.kind = "promote"]
           d == [b EXCEPT !.phase = "select"]
<1>1. a \in Ops /\ a.at = "prepare" /\ a.handle = NoApp
  <2>1. Resting.handle = NoApp
    BY DEF Resting
  <2> QED
    BY <2>1, RestingFields DEF Ops, Places
<1> HIDE DEF a
<1>2. b \in Ops /\ b.at = "prepare" /\ b.handle = NoApp
  BY <1>1 DEF Ops
<1> HIDE DEF b
<1>3. d \in Ops /\ d.at = "prepare" /\ d.handle = NoApp /\ d.phase = "select"
  BY <1>2 DEF Ops, Phases
<1>4. op' = [d EXCEPT !.begun = slots]
  BY DEF Promote, a, b, d
<1> HIDE DEF d
<1>5. op'.at = "prepare" /\ op'.handle = NoApp /\ op'.phase = "select" /\ op'.begun = slots
  BY <1>3, <1>4 DEF Ops
<1>6. slots' = [slots EXCEPT !["staging"] = NoApp] /\ slots["retiring"] = NoApp /\ data' = data /\ slots \in [Slots -> Nat]
      /\ data.version \in Nat
  BY DEF Promote, Present, ReleaseInv
<1>7. slots'["app"] = slots["app"] /\ slots'["previous"] = slots["previous"] /\ slots'["retiring"] = NoApp
  BY <1>6 DEF Slots
<1>8. Selecting' /\ Undoing' /\ Routed'
  BY <1>5, <1>6, <1>7 DEF Routed, Selecting, Undoing, OldApp, OldPrevious, Hold
<1>9. BackedUp' /\ SchemaKnown'
  BY <1>5, <1>6, <1>7 DEF BackedUp, SchemaKnown
<1>10. PromotionOutcome'
  BY <1>5 DEF PromotionOutcome
<1> QED
  BY <1>8, <1>9, <1>10 DEF Course

\* An end that reports neither success nor loss promises nothing.
LEMMA EndsQuietly ==
  ASSUME Steady, op'.at = "idle", op'.phase = "none", op'.plan = op.plan, op'.handle = op.handle, op'.begun = op.begun,
         data' = data, op'.result \notin {"selected", "restored", "lost"}
  PROVE  Course'
BY DEF Steady, Course, Routed, Selecting, Undoing, BackedUp, SchemaKnown, PromotionOutcome

LEMMA CandidateComes ==
  ASSUME Steady, Prepare \/ Preflight \/ RejectCandidate
  PROVE  Course'
<1>0. op \in Ops /\ slots \in [Slots -> Nat] /\ data \in [schema : {"old", "current"}, version : Nat]
      /\ Selecting /\ BackedUp /\ op.phase \in {"select", "undo"}
  BY DEF Steady, Course, Shape, Prepare, Preflight, RejectCandidate
<1>1. CASE Prepare
  <2>0. \A b \in Candidates : b \in Nat /\ b # NoApp
    BY ReleaseAssumption
  <2>1. /\ op.at = "prepare" /\ op' = [op EXCEPT !.at = "preflight"] /\ UNCHANGED <<svc, data>>
        /\ \E b \in Candidates : slots' = [slots EXCEPT !["staging"] = b]
    BY <1>1 DEF Prepare
  <2>2. op'.at = "preflight" /\ op'.phase = op.phase /\ op'.begun = op.begun /\ op'.handle = op.handle /\ op'.plan = op.plan
    BY <2>1, <1>0 DEF Ops
  <2>3. slots'["app"] = slots["app"] /\ slots'["previous"] = slots["previous"] /\ slots'["retiring"] = slots["retiring"]
        /\ slots'["staging"] # NoApp
    BY <2>0, <2>1, <1>0 DEF Slots
  <2>4. op.phase = "select" /\ op.handle = NoApp /\ Hold(OldApp, OldPrevious, NoApp)
    BY <2>1, <1>0 DEF Steady, Course, Routed, Selecting, BackedUp
  <2>5. Routed' /\ Selecting' /\ Undoing'
    BY <2>2, <2>3, <2>4 DEF Routed, Selecting, Undoing, OldApp, OldPrevious, Hold, Present
  <2>6. BackedUp' /\ SchemaKnown' /\ PromotionOutcome'
    BY <1>0, <2>1, <2>2, <2>4 DEF BackedUp, SchemaKnown, PromotionOutcome
  <2> QED
    BY <2>5, <2>6 DEF Course
<1>2. CASE Preflight
  <2> DEFINE h == Halt("select")
  <2>1. Goes(h, "halt", "select", <<>>)
    BY <1>0, HaltGoes DEF Phases
  <2>2. op.at = "preflight" /\ op' = [h EXCEPT !.plan = data] /\ UNCHANGED <<slots, svc, data>>
    BY <1>2 DEF Preflight
  <2> HIDE DEF h
  <2>3. op'.at = "halt" /\ op'.phase = "select" /\ op'.begun = op.begun /\ op'.handle = op.handle /\ op'.plan = data
    BY <2>1, <2>2 DEF Goes, Ops
  <2>4. op.phase = "select"
    BY <2>2, <1>0 DEF Steady, Course, Routed
  <2> QED
    BY <1>0, <2>2, <2>3, <2>4 DEF Course, Routed, Selecting, Undoing, BackedUp, SchemaKnown, PromotionOutcome, OldApp, OldPrevious, Hold, Present
<1>3. CASE RejectCandidate
  <2>1. Goes(Ended("refused"), "idle", "none", <<>>) /\ Ended("refused").result = "refused"
    BY <1>0, EndedGoes DEF Results
  <2> QED
    BY <1>3, <2>1, EndsQuietly DEF RejectCandidate, Goes
<1> QED
  BY <1>1, <1>2, <1>3

\* launchd and the household change the database beside the command.
LEMMA WorldGoesOn ==
  ASSUME Steady, StartService \/ BecomesReady \/ Dies \/ Write
  PROVE  Course'
<1>0. data \in [schema : {"old", "current"}, version : Nat] /\ Course /\ op.handle \in Nat /\ ServiceOf(op) /\ op.kind = "promote"
  BY DEF Steady, Ops
<1>1. UNCHANGED <<slots, op>> /\ modern' = modern /\ healthy' = healthy
  BY DEF StartService, BecomesReady, Dies, Write, Steady
<1>2. Routed' /\ Selecting' /\ Undoing'
  BY <1>0, <1>1 DEF Course, Routed, Selecting, Undoing, Displaced, OldApp, OldPrevious, Hold, Present, App, PutBack
<1>3. CASE BecomesReady \/ Dies
  <2>1. data' = data
    BY <1>3 DEF BecomesReady, Dies
  <2>2. BackedUp' /\ SchemaKnown' /\ PromotionOutcome'
    BY <1>0, <1>1, <2>1 DEF Course, BackedUp, SchemaKnown, PromotionOutcome, OldApp, App, LostForAReason, Carries
  <2> QED
    BY <1>2, <2>2 DEF Course
<1>4. CASE StartService
  <2>1. svc.loaded /\ data'.version = data.version
        /\ (data' = data \/ (App \in modern /\ data'.schema = "current"))
    BY <1>4, <1>0 DEF StartService
  <2>2. op.at \notin StoppedAt
    BY <1>0, <2>1 DEF ServiceOf
  <2>3. op.phase = "select" /\ op.at \in {"halt", "transition"} => App = OldApp
    BY <1>0 DEF Course, Selecting, Hold, App
  <2>4. SchemaKnown'
    BY <1>0, <1>1, <2>1, <2>2, <2>3 DEF Course, SchemaKnown, OldApp, App, StoppedAt
  <2>5. BackedUp' /\ PromotionOutcome'
    BY <1>0, <1>1, <2>1 DEF Course, BackedUp, PromotionOutcome, LostForAReason, Carries, App
  <2> QED
    BY <1>2, <2>4, <2>5 DEF Course
<1>5. CASE Write
  <2>1. data'.version = data.version + 1 /\ data'.schema = data.schema
    BY <1>5, <1>0 DEF Write
  <2>2. op.handle <= data.version
    BY <1>0 DEF Course, BackedUp
  <2>3. op.handle <= data'.version /\ op.handle # data'.version
    BY <1>0, <2>1, <2>2
  <2>4. BackedUp' /\ SchemaKnown'
    BY <1>0, <1>1, <2>1, <2>3 DEF Course, BackedUp, SchemaKnown, OldApp, App
  <2>5. PromotionOutcome'
    BY <1>0, <1>1, <2>3 DEF Course, PromotionOutcome, LostForAReason, Carries, App
  <2> QED
    BY <1>2, <2>4, <2>5 DEF Course
<1> QED
  BY <1>3, <1>4, <1>5

\* The service is stopped, or not.
LEMMA StopGoes ==
  ASSUME Steady, Quiesce \/ QuiesceFails, op'.kind = "promote"
  PROVE  Course'
<1>0. op \in Ops /\ op.at = "halt" /\ op.phase \in {"select", "undo"} /\ Course /\ UNCHANGED <<slots, data>>
  BY DEF Steady, Shape, Quiesce, QuiesceFails
<1>1. CASE Quiesce
  <2> DEFINE place == IF op.phase = "select" THEN "transition" ELSE "restore"
  <2>1. op' = [op EXCEPT !.at = place]
    BY <1>0, <1>1 DEF Quiesce, Stopped
  <2>2. op'.at = place /\ op'.phase = op.phase /\ op'.begun = op.begun /\ op'.plan = op.plan /\ op'.handle = op.handle
        /\ op'.hurt = op.hurt
    BY <2>1, <1>0 DEF Ops
  <2>3. Routed' /\ PromotionOutcome' /\ BackedUp'
    BY <1>0, <2>2 DEF Course, Routed, PromotionOutcome, BackedUp
  <2>4. Selecting' /\ Undoing'
    BY <1>0, <2>2 DEF Course, Selecting, Undoing, Displaced, OldApp, OldPrevious, Hold, Present, App
  <2>5. SchemaKnown'
    BY <1>0, <2>2 DEF Course, SchemaKnown, OldApp, App, Steady
  <2> QED
    BY <2>3, <2>4, <2>5 DEF Course
<1>2. CASE QuiesceFails
  <2>1. op.phase # "select"
    <3>1. Hurt(Recovery).kind = "recover"
      BY BegunFields, HurtFields DEF Steady
    <3> QED
      BY <1>2, <3>1 DEF QuiesceFails
  <2>2. op' = Hurt(Ended("lost"))
    BY <1>0, <1>2, <2>1 DEF QuiesceFails
  <2>3. Goes(op', "idle", "none", <<>>) /\ op'.hurt = TRUE /\ op'.result = "lost"
    BY <1>0, <2>2, EndedGoes, HurtGoes DEF Results
  <2> QED
    BY <1>0, <2>3 DEF Course, Routed, Selecting, Undoing, BackedUp, SchemaKnown, PromotionOutcome, LostForAReason, Goes
<1> QED
  BY <1>1, <1>2

\* What a promotion may report as lost.
LEMMA LosesForAReason ==
  ASSUME Steady, NEW o, Goes(o, "idle", "none", <<>>), o.result = "lost", data'.version = data.version, op' = o,
         \/ o.hurt
         \/ OldApp \notin healthy \/ ~Carries(OldApp, op.plan.schema)
         \/ op.handle # NoApp /\ data.version # op.handle
  PROVE  Course'
BY DEF Steady, Course, Routed, Selecting, Undoing, BackedUp, SchemaKnown, PromotionOutcome, LostForAReason, Goes, Carries, OldApp

LEMMA OneJoins ==
  ASSUME NEW S, NEW a \in S, NEW b \in S
  PROVE  <<a>> \o <<b>> = <<a, b>>
<1> DEFINE s == <<a>> \o <<b>>
           t == <<a, b>>
<1>1. <<a>> \in Seq(S) /\ <<b>> \in Seq(S)
  OBVIOUS
<1>2. s \in Seq(S) /\ t \in Seq(S) /\ Len(s) = 2 /\ Len(t) = 2 /\ \A i \in 1..2 : s[i] = t[i]
  BY <1>1
<1> HIDE DEF s, t
<1>3. s = t
  BY <1>2, SeqEqual
<1> QED
  BY <1>3 DEF s, t

LEMMA TwoJoin ==
  ASSUME NEW S, NEW a \in S, NEW b \in S, NEW c \in S
  PROVE  <<a, b>> \o <<c>> = <<a, b, c>>
<1> DEFINE s == <<a, b>> \o <<c>>
           t == <<a, b, c>>
<1>1. <<a, b>> \in Seq(S) /\ <<c>> \in Seq(S)
  OBVIOUS
<1>2. s \in Seq(S) /\ t \in Seq(S) /\ Len(s) = 3 /\ Len(t) = 3 /\ \A i \in 1..3 : s[i] = t[i]
  BY <1>1
<1> HIDE DEF s, t
<1>3. s = t
  BY <1>2, SeqEqual
<1> QED
  BY <1>3 DEF s, t

LEMMA MovesJoin ==
  ASSUME NEW a \in Moves, NEW b \in Moves, NEW c \in Moves
  PROVE  /\ <<a>> \o <<b>> \o <<c>> = <<a, b, c>> /\ <<>> \o <<b>> \o <<c>> = <<b, c>>
         /\ <<a, b>> \o <<>> = <<a, b>> /\ <<a, b>> \o <<c>> = <<a, b, c>>
         /\ <<a>> \o <<>> = <<a>> /\ <<a>> \o <<b>> = <<a, b>>
<1>1. <<a>> \o <<b>> = <<a, b>> /\ <<b>> \o <<c>> = <<b, c>> /\ <<a, b>> \o <<c>> = <<a, b, c>>
  BY OneJoins, TwoJoin
<1>2. <<>> \o <<b>> = <<b>> /\ <<a, b>> \o <<>> = <<a, b>> /\ <<a>> \o <<>> = <<a>>
  OBVIOUS
<1> QED
  BY <1>1, <1>2

LEMMA PutMoves == \A from, to \in Slots : Put(from, to) \in Moves
BY DEF Put, Moves

LEMMA Schemas0 ==
  ASSUME Steady, op.at \notin {"idle", "prepare", "preflight"}
  PROVE  op.plan.schema \in {"old", "current"} /\ (op.plan.schema = "current" => data.schema = "current")
BY DEF Steady, Course, SchemaKnown

LEMMA TransitionGoes ==
  ASSUME Steady, Transition
  PROVE  Course'
<1>0. op \in Ops /\ op.at = "transition" /\ op.phase = "select" /\ Course /\ UNCHANGED <<slots, svc>> /\ data = op.plan
      /\ data \in [schema : {"old", "current"}, version : Nat]
      /\ data' = [data EXCEPT !.schema = "current"] /\ op.handle = NoApp
      /\ Hold(OldApp, OldPrevious, NoApp) /\ Present("staging") /\ OldApp # NoApp
  BY DEF Steady, Transition, Course, Routed, SchemaKnown, Selecting
<1>1. data'.schema = "current" /\ data'.version = data.version
  BY <1>0
<1> DEFINE handle == IF data.schema = "old" THEN data.version ELSE NoApp
           r == Rename("select", SelectMoves)
           put == IF OldPrevious # NoApp THEN <<Put("previous", "retiring"), Put("app", "previous"), Put("staging", "app")>>
                                         ELSE <<Put("app", "previous"), Put("staging", "app")>>
<1>2. SelectMoves = put
  <2>1. Put("previous", "retiring") \in Moves /\ Put("app", "previous") \in Moves /\ Put("staging", "app") \in Moves
    BY PutMoves DEF Slots
  <2>2. SelectMoves = (IF OldPrevious # NoApp THEN <<Put("previous", "retiring")>> ELSE <<>>)
                      \o <<Put("app", "previous")>> \o <<Put("staging", "app")>>
    BY <1>0 DEF SelectMoves, MoveIf, Hold, Present
  <2> QED
    BY <2>1, <2>2, MovesJoin
<1>3. put \in Seq(Moves) /\ put # <<>>
  BY <1>2, MovesTyped
<1>4. op' = [r EXCEPT !.handle = handle] /\ handle \in Nat
  BY <1>0 DEF Transition
<1>5. Goes(r, "move", "select", put)
  <2> HIDE DEF put
  <2> QED
    BY <1>0, <1>2, <1>3, RenameGoes DEF RenamePhases
<1> HIDE DEF r
<1>6. op'.at = "move" /\ op'.phase = "select" /\ op'.moves = put /\ op'.begun = op.begun /\ op'.plan = op.plan
      /\ op'.handle = handle /\ op'.kind = "promote"
  <2> HIDE DEF put, handle
  <2> QED
    BY <1>4, <1>5 DEF Goes, Ops, Steady
<1>7. Routed' /\ Selecting' /\ Undoing'
  BY <1>0, <1>6 DEF Routed, Selecting, Undoing, Hold, Present, OldApp, OldPrevious
<1>8. BackedUp' /\ PromotionOutcome'
  BY <1>0, <1>1, <1>6 DEF BackedUp, PromotionOutcome
<1>9. SchemaKnown'
  <2>1. data.schema = "old" => handle # NoApp
    BY <1>0 DEF Steady
  <2> QED
    BY <1>0, <1>1, <1>6, <2>1 DEF SchemaKnown
<1> QED
  BY <1>7, <1>8, <1>9 DEF Course

\* A promotion that failed before it restored the database: it undoes what it did.
LEMMA FailsForward ==
  ASSUME Steady, op.phase = "select", op.at \notin {"idle", "prepare", "preflight"}, UNCHANGED slots, Displaced,
         NEW o, Goes(o, "halt", "undo", <<>>), op' = o, data'.version = data.version,
         op.plan.schema = "current" => data'.schema = "current",
         op.plan.schema = "old" /\ op.handle = NoApp =>
           App = OldApp /\ (data'.schema = "current" => o.hurt \/ OldApp \in modern)
  PROVE  Course'
<1>1. op'.at = "halt" /\ op'.phase = "undo" /\ op'.begun = op.begun /\ op'.plan = op.plan /\ op'.handle = op.handle
      /\ Course /\ modern' = modern /\ op' = o
  BY DEF Goes, Steady
<1>2. Routed' /\ Selecting' /\ Undoing'
  BY <1>1 DEF Routed, Selecting, Undoing, Displaced, Hold, Present, OldApp, OldPrevious, App
<1>3. BackedUp' /\ PromotionOutcome'
  BY <1>1 DEF Course, BackedUp, PromotionOutcome
<1>4. SchemaKnown'
  BY <1>1, Schemas0 DEF SchemaKnown, OldApp, App
<1> QED
  BY <1>2, <1>3, <1>4 DEF Course

LEMMA TransitionFailsGoes ==
  ASSUME Steady, TransitionFails
  PROVE  Course'
<1>0. op.at = "transition" /\ op.phase = "select" /\ Course /\ UNCHANGED slots /\ op.handle = NoApp
      /\ Hold(OldApp, OldPrevious, NoApp) /\ Present("staging") /\ Shape(op)
      /\ data \in [schema : {"old", "current"}, version : Nat]
  BY DEF Steady, TransitionFails, Course, Routed, SchemaKnown, Selecting
<1>1. Displaced /\ App = OldApp
  BY <1>0 DEF Displaced, Hold, App
<1>2. Goes(Caught, "halt", "undo", <<>>)
  BY <1>0, CaughtGoes
<1>3. Goes(Hurt(Caught), "halt", "undo", <<>>) /\ Hurt(Caught).hurt
  BY <1>2, HurtGoes
<1>4. op.plan.schema = "old" /\ data.schema = "current" => OldApp \in modern
  BY <1>0 DEF Course, SchemaKnown
<1>5. CASE op' = Caught /\ data' = data
  BY <1>0, <1>1, <1>2, <1>4, <1>5, FailsForward, Schemas0
<1>6. CASE op' = Hurt(Caught) /\ data' = [data EXCEPT !.schema = "current"]
  <2>1. data'.schema = "current" /\ data'.version = data.version
    BY <1>0, <1>6
  <2> QED
    BY <1>0, <1>1, <1>3, <1>6, <2>1, FailsForward
<1> QED
  BY <1>5, <1>6 DEF TransitionFails

\* What the undoing of a promotion has to rename, wherever it stands.
LEMMA UndoFits ==
  ASSUME Steady, Displaced
  PROVE  \/ UndoMoves = <<>> /\ App = OldApp /\ slots["previous"] = OldPrevious
         \/ /\ Present("app") /\ ~Present("staging") /\ Hold(App, OldApp, OldPrevious)
            /\ UndoMoves = <<Put("app", "staging"), Put("previous", "app")>> \o PutBack
         \/ /\ Hold(NoApp, OldApp, OldPrevious)
            /\ UndoMoves = <<Put("previous", "app")>> \o PutBack
         \/ /\ OldPrevious # NoApp /\ Hold(OldApp, NoApp, OldPrevious)
            /\ UndoMoves = <<Put("retiring", "previous")>>
<1>0. OldApp # NoApp
  BY DEF Steady
<1>1. CASE Present("staging") /\ Hold(OldApp, OldPrevious, NoApp)
  BY <1>0, <1>1 DEF UndoMoves, Hold, Present, App
<1>2. CASE Present("staging") /\ Hold(OldApp, NoApp, OldPrevious)
  BY <1>0, <1>2 DEF UndoMoves, Hold, Present, App
<1>3. CASE Present("staging") /\ Hold(NoApp, OldApp, OldPrevious)
  BY <1>0, <1>3 DEF UndoMoves, Hold, Present, MoveIf, PutBack
<1>4. CASE Present("app") /\ ~Present("staging") /\ Hold(App, OldApp, OldPrevious)
  BY <1>0, <1>4 DEF UndoMoves, Hold, Present, MoveIf, PutBack
<1> QED
  BY <1>1, <1>2, <1>3, <1>4 DEF Displaced

LEMMA UndoMovesSome ==
  PutBack \in Seq(Moves) /\ <<Put("app", "staging"), Put("previous", "app")>> \o PutBack # <<>>
  /\ <<Put("previous", "app")>> \o PutBack # <<>> /\ <<Put("retiring", "previous")>> # <<>>
<1>1. PutBack = <<>> \/ PutBack = <<Put("retiring", "previous")>>
  BY DEF PutBack
<1>2. Put("app", "staging") \in Moves /\ Put("previous", "app") \in Moves /\ Put("retiring", "previous") \in Moves
  BY PutMoves DEF Slots
<1>3. <<Put("app", "staging"), Put("previous", "app")>> \o PutBack # <<>> /\ <<Put("previous", "app")>> \o PutBack # <<>>
  BY <1>1, <1>2, MovesJoin
<1>4. PutBack \in Seq(Moves)
  <2>1. <<Put("retiring", "previous")>> \in Seq(Moves) /\ <<>> \in Seq(Moves)
    BY <1>2
  <2> QED
    BY <2>1, <1>1
<1> QED
  BY <1>3, <1>4

LEMMA RestoreGoes ==
  ASSUME Steady, RestoreData \/ RestoreDataFails
  PROVE  Course'
<1>0. op \in Ops /\ op.at = "restore" /\ op.phase = "undo" /\ Course /\ UNCHANGED <<slots, svc>> /\ Displaced /\ Shape(op)
      /\ data \in [schema : {"old", "current"}, version : Nat]
      /\ modern' = modern /\ op.kind = "promote"
  BY DEF Steady, RestoreData, RestoreDataFails, Course, Routed, Undoing
<1>1. CASE RestoreData
  <2> DEFINE r == Rename("undo", UndoMoves)
  <2>1. Goes(r, IF UndoMoves = <<>> THEN "boot" ELSE "move", "undo", UndoMoves)
    BY <1>0, RenameGoes, MovesTyped DEF RenamePhases, Renamed
  <2>2. op' = r
    BY <1>1 DEF RestoreData
  <2> HIDE DEF r
  <2>3. op'.at = (IF UndoMoves = <<>> THEN "boot" ELSE "move") /\ op'.phase = "undo" /\ op'.moves = UndoMoves
        /\ op'.begun = op.begun /\ op'.plan = op.plan /\ op'.handle = op.handle
    BY <2>1, <2>2 DEF Goes
  <2>4. data'.schema = op.plan.schema /\ data'.version = data.version
    <3>1. data' = IF DataMigrated THEN Backup ELSE data
      BY <1>1 DEF RestoreData
    <3>2. CASE DataMigrated
      BY <1>1, <3>1, <3>2 DEF RestoreData, Restorable, Backup, DataMigrated, Migrates
    <3>3. CASE ~DataMigrated
      BY <1>0, <3>1, <3>3, Schemas0 DEF DataMigrated, Migrates
    <3> QED
      BY <3>2, <3>3
  <2>5. Routed' /\ Selecting'
    BY <2>3 DEF Routed, Selecting
  <2>6. Undoing'
    BY <1>0, <2>3, UndoFits, UndoMovesSome DEF Undoing, Hold, Present, OldApp, OldPrevious, App, PutBack
  <2>7. BackedUp' /\ PromotionOutcome'
    BY <1>0, <2>3, <2>4 DEF Course, BackedUp, PromotionOutcome
  <2>8. SchemaKnown'
    BY <1>0, <2>3, <2>4, Schemas0 DEF SchemaKnown
  <2> QED
    BY <2>5, <2>6, <2>7, <2>8 DEF Course
<1>2. CASE RestoreDataFails
  <2>1. Goes(Caught, "idle", "none", <<>>) /\ Caught.hurt = op.hurt /\ Caught.result = "lost"
    BY <1>0, CaughtGoes
  <2>2. Goes(Hurt(Caught), "idle", "none", <<>>) /\ Hurt(Caught).hurt /\ Hurt(Caught).result = "lost"
    BY <2>1, HurtGoes
  <2>3. data' = data
    BY <1>2 DEF RestoreDataFails
  <2>4. CASE op' = Hurt(Caught)
    BY <2>2, <2>3, <2>4, LosesForAReason
  <2>5. CASE op' = Caught /\ DataMigrated /\ ~Restorable
    <3>1. op.plan.schema = "old" /\ data.schema = "current" /\ (op.handle = NoApp \/ data.version # op.handle)
      BY <2>5 DEF DataMigrated, Migrates, Restorable
    <3>2. op.handle = NoApp => op.hurt \/ OldApp \in modern
      BY <1>0, <3>1 DEF Course, SchemaKnown
    <3>3. OldApp \in modern => ~Carries(OldApp, op.plan.schema)
      BY <3>1 DEF Carries
    <3> QED
      BY <2>1, <2>3, <2>5, <3>1, <3>2, <3>3, LosesForAReason
  <2> QED
    BY <1>2, <2>4, <2>5 DEF RestoreDataFails
<1> QED
  BY <1>1, <1>2

\* One rename, of the promotion or of its undoing.
LEMMA MoveDoes ==
  ASSUME slots \in [Slots -> Nat], op \in Ops, op.phase \in RenamePhases, Move,
         NEW from \in Slots, NEW to \in Slots \ {from}, NEW rest \in Seq(Moves), op.moves # <<>>,
         Head(op.moves) = Put(from, to), Tail(op.moves) = rest
  PROVE  /\ Goes(op', IF rest = <<>> THEN Renamed[op.phase] ELSE "move", op.phase, rest)
         /\ op'.accepted = op.accepted /\ op'.hurt = op.hurt
         /\ slots' \in [Slots -> Nat]
         /\ slots[from] # NoApp /\ slots[to] = NoApp /\ slots'[to] = slots[from] /\ slots'[from] = NoApp
         /\ \A s \in Slots \ {from, to} : slots'[s] = slots[s]
         /\ UNCHANGED <<svc, data>>
<1>1. op' = Rename(op.phase, rest) /\ UNCHANGED <<svc, data>>
  BY DEF Move
<1>2. Put(from, to).from = from /\ Put(from, to).to = to
  BY DEF Put
<1>3. slots[from] # NoApp /\ slots[to] = NoApp /\ slots' = [slots EXCEPT ![to] = slots[from], ![from] = NoApp]
  BY <1>2 DEF Move, Movable, Present
<1>4. LET r == Rename(op.phase, rest) IN
        Goes(r, IF rest = <<>> THEN Renamed[op.phase] ELSE "move", op.phase, rest) /\ r.accepted = op.accepted /\ r.hurt = op.hurt
  BY RenameGoes
<1> QED
  BY <1>1, <1>3, <1>4

LEMMA Literals ==
  ASSUME NEW a \in Moves, NEW b \in Moves, NEW c \in Moves
  PROVE  /\ <<a>> # <<>> /\ Head(<<a>>) = a /\ Tail(<<a>>) = <<>>
         /\ <<a, b>> # <<>> /\ Head(<<a, b>>) = a /\ Tail(<<a, b>>) = <<b>>
         /\ <<a, b, c>> # <<>> /\ Head(<<a, b, c>>) = a /\ Tail(<<a, b, c>>) = <<b, c>>
         /\ <<>> \in Seq(Moves) /\ <<a>> \in Seq(Moves) /\ <<a, b>> \in Seq(Moves)
OBVIOUS

\* A rename changes nothing a promotion knows of the database.
LEMMA MoveKnows ==
  ASSUME Steady, op.at = "move", op'.phase = op.phase, op'.at \in {"move", "boot"}, op'.begun = op.begun,
         op'.plan = op.plan, op'.handle = op.handle, data' = data
  PROVE  Routed' /\ BackedUp' /\ SchemaKnown' /\ PromotionOutcome'
<1>1. op.phase \in {"select", "undo"}
  BY DEF Steady, Shape
<1> QED
  BY <1>1 DEF Steady, Course, Routed, BackedUp, SchemaKnown, PromotionOutcome

LEMMA SelectMovesOn ==
  ASSUME Steady, Move, op.phase = "select"
  PROVE  Course'
<1>0. op \in Ops /\ op.at = "move" /\ slots \in [Slots -> Nat] /\ OldApp # NoApp /\ Selecting
      /\ op.phase \in RenamePhases
  BY DEF Steady, Move, Course, RenamePhases
<1>1. Put("previous", "retiring") \in Moves /\ Put("app", "previous") \in Moves /\ Put("staging", "app") \in Moves
  BY PutMoves DEF Slots
<1>2. CASE /\ OldPrevious # NoApp /\ Hold(OldApp, OldPrevious, NoApp)
           /\ op.moves = <<Put("previous", "retiring"), Put("app", "previous"), Put("staging", "app")>>
  <2> DEFINE rest == <<Put("app", "previous"), Put("staging", "app")>>
  <2>1. op.moves # <<>> /\ Head(op.moves) = Put("previous", "retiring") /\ Tail(op.moves) = rest
        /\ rest \in Seq(Moves) /\ rest # <<>>
    BY <1>1, <1>2, Literals
  <2>2. Goes(op', "move", "select", rest) /\ data' = data
        /\ slots'["retiring"] = slots["previous"] /\ slots'["previous"] = NoApp
        /\ slots'["app"] = slots["app"] /\ slots'["staging"] = slots["staging"]
    <3> HIDE DEF rest
    <3> QED
      BY <1>0, <2>1, MoveDoes DEF Slots
  <2>3. Selecting' /\ Undoing'
    BY <1>0, <1>2, <2>2 DEF Goes, Selecting, Undoing, Hold, Present, OldApp, OldPrevious
  <2> QED
    BY <1>0, <2>2, <2>3, MoveKnows DEF Goes, Course
<1>3. CASE /\ Hold(OldApp, NoApp, OldPrevious)
           /\ op.moves = <<Put("app", "previous"), Put("staging", "app")>>
  <2> DEFINE rest == <<Put("staging", "app")>>
  <2>1. op.moves # <<>> /\ Head(op.moves) = Put("app", "previous") /\ Tail(op.moves) = rest
        /\ rest \in Seq(Moves) /\ rest # <<>>
    BY <1>1, <1>3, Literals
  <2>2. Goes(op', "move", "select", rest) /\ data' = data
        /\ slots'["previous"] = slots["app"] /\ slots'["app"] = NoApp
        /\ slots'["retiring"] = slots["retiring"] /\ slots'["staging"] = slots["staging"]
    <3> HIDE DEF rest
    <3> QED
      BY <1>0, <2>1, MoveDoes DEF Slots
  <2>3. Selecting' /\ Undoing'
    BY <1>0, <1>3, <2>2 DEF Goes, Selecting, Undoing, Hold, Present, OldApp, OldPrevious
  <2> QED
    BY <1>0, <2>2, <2>3, MoveKnows DEF Goes, Course
<1>4. CASE Hold(NoApp, OldApp, OldPrevious) /\ op.moves = <<Put("staging", "app")>>
  <2> DEFINE rest == <<>>
  <2>1. op.moves # <<>> /\ Head(op.moves) = Put("staging", "app") /\ Tail(op.moves) = rest
        /\ rest \in Seq(Moves) /\ rest = <<>>
    BY <1>1, <1>4, Literals
  <2>2. Goes(op', "boot", "select", rest) /\ data' = data
        /\ slots'["app"] = slots["staging"] /\ slots'["staging"] = NoApp /\ slots["staging"] # NoApp
        /\ slots'["retiring"] = slots["retiring"] /\ slots'["previous"] = slots["previous"]
    <3> HIDE DEF rest
    <3>1. Renamed["select"] = "boot"
      BY DEF Renamed
    <3>2. /\ Goes(op', IF rest = <<>> THEN Renamed[op.phase] ELSE "move", op.phase, rest)
          /\ data' = data
          /\ slots["staging"] # NoApp /\ slots'["app"] = slots["staging"] /\ slots'["staging"] = NoApp
          /\ \A s \in Slots \ {"staging", "app"} : slots'[s] = slots[s]
      BY <1>0, <2>1, MoveDoes DEF Slots
    <3>3. (IF rest = <<>> THEN Renamed[op.phase] ELSE "move") = "boot"
      BY <2>1, <3>1
    <3> QED
      BY <3>2, <3>3 DEF Slots
  <2>3. Selecting' /\ Undoing'
    BY <1>0, <1>4, <2>2 DEF Goes, Selecting, Undoing, Hold, Present, OldApp, OldPrevious, App
  <2> QED
    BY <1>0, <2>2, <2>3, MoveKnows DEF Goes, Course
<1> QED
  BY <1>0, <1>2, <1>3, <1>4 DEF Selecting

LEMMA UndoMovesOn ==
  ASSUME Steady, Move, op.phase = "undo"
  PROVE  Course'
<1>0. op \in Ops /\ op.at = "move" /\ slots \in [Slots -> Nat] /\ OldApp # NoApp /\ Undoing
      /\ op.phase \in RenamePhases
  BY DEF Steady, Move, Course, RenamePhases
<1>1. Put("app", "staging") \in Moves /\ Put("previous", "app") \in Moves /\ Put("retiring", "previous") \in Moves
  BY PutMoves DEF Slots
<1>2. \/ PutBack = <<>> /\ OldPrevious = NoApp
      \/ PutBack = <<Put("retiring", "previous")>> /\ OldPrevious # NoApp
  BY DEF PutBack
<1>b. Renamed["undo"] = "boot"
  BY DEF Renamed
<1>3. CASE /\ Present("app") /\ ~Present("staging") /\ Hold(App, OldApp, OldPrevious)
           /\ op.moves = <<Put("app", "staging"), Put("previous", "app")>> \o PutBack
  <2> DEFINE rest == <<Put("previous", "app")>> \o PutBack
  <2>1. op.moves # <<>> /\ Head(op.moves) = Put("app", "staging") /\ Tail(op.moves) = rest
        /\ rest \in Seq(Moves) /\ rest # <<>>
    <3>1. CASE PutBack = <<>>
      <4>1. op.moves = <<Put("app", "staging"), Put("previous", "app")>> /\ rest = <<Put("previous", "app")>>
        BY <1>1, <1>3, <3>1, MovesJoin
      <4> HIDE DEF rest
      <4> QED
        BY <1>1, <4>1, Literals
    <3>2. CASE PutBack = <<Put("retiring", "previous")>>
      <4>1. op.moves = <<Put("app", "staging"), Put("previous", "app"), Put("retiring", "previous")>>
            /\ rest = <<Put("previous", "app"), Put("retiring", "previous")>>
        BY <1>1, <1>3, <3>2, MovesJoin
      <4> HIDE DEF rest
      <4> QED
        BY <1>1, <4>1, Literals
    <3> QED
      BY <1>2, <3>1, <3>2
  <2>2. Goes(op', "move", "undo", rest) /\ data' = data
        /\ slots'["staging"] = slots["app"] /\ slots'["app"] = NoApp
        /\ slots'["retiring"] = slots["retiring"] /\ slots'["previous"] = slots["previous"]
    <3> HIDE DEF rest
    <3> QED
      BY <1>0, <2>1, MoveDoes DEF Slots
  <2>3. Selecting' /\ Undoing'
    BY <1>0, <1>3, <2>2 DEF Goes, Selecting, Undoing, Hold, Present, OldApp, OldPrevious, PutBack
  <2> QED
    BY <1>0, <2>2, <2>3, MoveKnows DEF Goes, Course
<1>4. CASE /\ Hold(NoApp, OldApp, OldPrevious)
           /\ op.moves = <<Put("previous", "app")>> \o PutBack
  <2> DEFINE rest == PutBack
  <2>1. op.moves # <<>> /\ Head(op.moves) = Put("previous", "app") /\ Tail(op.moves) = rest
        /\ rest \in Seq(Moves)
    <3>1. CASE PutBack = <<>>
      <4>1. op.moves = <<Put("previous", "app")>>
        BY <1>1, <1>4, <3>1, MovesJoin
      <4> QED
        BY <1>1, <3>1, <4>1, Literals
    <3>2. CASE PutBack = <<Put("retiring", "previous")>>
      <4>1. op.moves = <<Put("previous", "app"), Put("retiring", "previous")>>
        BY <1>1, <1>4, <3>2, MovesJoin
      <4> QED
        BY <1>1, <3>2, <4>1, Literals
    <3> QED
      BY <1>2, <3>1, <3>2
  <2>2. Goes(op', IF rest = <<>> THEN "boot" ELSE "move", "undo", rest) /\ data' = data
        /\ slots'["app"] = slots["previous"] /\ slots'["previous"] = NoApp
        /\ slots'["retiring"] = slots["retiring"]
    <3> HIDE DEF rest
    <3> QED
      BY <1>0, <1>b, <2>1, MoveDoes DEF Slots
  <2>3. CASE OldPrevious = NoApp
    <3>1. rest = <<>>
      BY <1>2, <2>3
    <3>2. Selecting' /\ Undoing'
      BY <1>0, <1>4, <2>2, <2>3, <3>1 DEF Goes, Selecting, Undoing, Hold, Present, OldApp, OldPrevious, App
    <3> QED
      BY <1>0, <2>2, <3>1, <3>2, MoveKnows DEF Goes, Course
  <2>4. CASE OldPrevious # NoApp
    <3>1. rest = <<Put("retiring", "previous")>> /\ rest # <<>>
      BY <1>1, <1>2, <2>4, Literals
    <3>2. Selecting' /\ Undoing'
      <4> HIDE DEF rest
      <4> QED
        BY <1>0, <1>4, <2>2, <2>4, <3>1 DEF Goes, Selecting, Undoing, Hold, Present, OldApp, OldPrevious, App
    <3> QED
      BY <1>0, <2>2, <3>1, <3>2, MoveKnows DEF Goes, Course
  <2> QED
    BY <2>3, <2>4
<1>5. CASE /\ OldPrevious # NoApp /\ Hold(OldApp, NoApp, OldPrevious)
           /\ op.moves = <<Put("retiring", "previous")>>
  <2> DEFINE rest == <<>>
  <2>1. op.moves # <<>> /\ Head(op.moves) = Put("retiring", "previous") /\ Tail(op.moves) = rest
        /\ rest \in Seq(Moves) /\ rest = <<>>
    BY <1>1, <1>5, Literals
  <2>2. Goes(op', "boot", "undo", rest) /\ data' = data
        /\ slots'["previous"] = slots["retiring"] /\ slots'["app"] = slots["app"]
    <3> HIDE DEF rest
    <3>2. /\ Goes(op', IF rest = <<>> THEN Renamed[op.phase] ELSE "move", op.phase, rest)
          /\ data' = data
          /\ slots'["previous"] = slots["retiring"]
          /\ \A s \in Slots \ {"retiring", "previous"} : slots'[s] = slots[s]
      BY <1>0, <2>1, MoveDoes DEF Slots
    <3>3. (IF rest = <<>> THEN Renamed[op.phase] ELSE "move") = "boot"
      BY <2>1, <1>b
    <3> QED
      BY <3>2, <3>3 DEF Slots
  <2>3. Selecting' /\ Undoing'
    BY <1>0, <1>5, <2>2 DEF Goes, Selecting, Undoing, Hold, Present, OldApp, OldPrevious, App
  <2> QED
    BY <1>0, <2>2, <2>3, MoveKnows DEF Goes, Course
<1> QED
  BY <1>0, <1>3, <1>4, <1>5 DEF Undoing

\* A call that fails on the way to the selected app, or on the way back.
LEMMA CallFails ==
  ASSUME Steady, MoveFails \/ BootstrapFails \/ TimesOut
  PROVE  Course'
<1>0. op \in Ops /\ Shape(op) /\ ServiceOf(op) /\ Course /\ UNCHANGED <<slots, data>> /\ op.at \in {"move", "boot", "wait"}
      /\ op.phase \in {"select", "undo"} /\ OldApp # NoApp /\ op' \in {Caught, Hurt(Caught)}
      /\ op.kind = "promote"
  BY DEF Steady, Shape, MoveFails, BootstrapFails, TimesOut
<1>1. CASE op.phase = "select"
  <2>1. Displaced
    BY <1>0, <1>1 DEF Course, Selecting, Displaced
  <2>2. Goes(Caught, "halt", "undo", <<>>) /\ Goes(Hurt(Caught), "halt", "undo", <<>>)
    BY <1>0, <1>1, CaughtGoes, HurtGoes
  <2>3. op.plan.schema = "old" => op.handle # NoApp
    BY <1>0, <1>1 DEF Course, SchemaKnown
  <2> QED
    BY <1>0, <1>1, <2>1, <2>2, <2>3, FailsForward, Schemas0
<1>2. CASE op.phase = "undo"
  <2>1. Goes(Caught, "idle", "none", <<>>) /\ Caught.hurt = op.hurt /\ Caught.result = "lost"
    BY <1>0, <1>2, CaughtGoes
  <2>2. Goes(Hurt(Caught), "idle", "none", <<>>) /\ Hurt(Caught).hurt /\ Hurt(Caught).result = "lost"
    BY <2>1, HurtGoes
  <2>3. CASE op' = Hurt(Caught)
    BY <1>0, <2>2, <2>3, LosesForAReason
  <2>4. ASSUME OldApp \notin healthy \/ ~Carries(OldApp, op.plan.schema), op' = Caught PROVE Course'
    BY <1>0, <2>1, <2>4, LosesForAReason
  <2>5. CASE MoveFails
    <3>1. Put("app", "staging") \in Moves /\ Put("previous", "app") \in Moves /\ Put("retiring", "previous") \in Moves
      BY PutMoves DEF Slots
    <3>2. PutBack = <<>> \/ PutBack = <<Put("retiring", "previous")>>
      BY DEF PutBack
    <3>3. Movable(Head(op.moves))
      <4>1. CASE /\ Present("app") /\ ~Present("staging") /\ Hold(App, OldApp, OldPrevious)
                 /\ op.moves = <<Put("app", "staging"), Put("previous", "app")>> \o PutBack
        <5>1. Head(op.moves) = Put("app", "staging")
          BY <3>1, <3>2, <4>1, MovesJoin, Literals
        <5> QED
          BY <4>1, <5>1 DEF Movable, Put
      <4>2. CASE /\ Hold(NoApp, OldApp, OldPrevious)
                 /\ op.moves = <<Put("previous", "app")>> \o PutBack
        <5>1. Head(op.moves) = Put("previous", "app")
          BY <3>1, <3>2, <4>2, MovesJoin, Literals
        <5> QED
          BY <1>0, <4>2, <5>1 DEF Movable, Put, Hold, Present
      <4>3. CASE /\ OldPrevious # NoApp /\ Hold(OldApp, NoApp, OldPrevious)
                 /\ op.moves = <<Put("retiring", "previous")>>
        <5>1. Head(op.moves) = Put("retiring", "previous")
          BY <3>1, <4>3, Literals
        <5> QED
          BY <4>3, <5>1 DEF Movable, Put, Hold, Present
      <4> QED
        BY <1>0, <1>2, <2>5, <4>1, <4>2, <4>3 DEF Course, Undoing, MoveFails
    <3> QED
      BY <2>3, <2>5, <3>3 DEF MoveFails
  <2>6. CASE BootstrapFails
    <3>1. op.at = "boot" /\ App = OldApp /\ data.schema = op.plan.schema /\ ~svc.loaded
      BY <1>0, <1>2, <2>6 DEF Course, Undoing, SchemaKnown, BootstrapFails, ServiceOf, StoppedAt
    <3>2. ~Bootable => ~Carries(OldApp, op.plan.schema)
      BY <1>0, <3>1 DEF Bootable, Fits, Present, App, Carries
    <3> QED
      BY <2>3, <2>4, <2>6, <3>2 DEF BootstrapFails
  <2>7. CASE TimesOut
    <3>1. op.at = "wait" /\ App = OldApp
      BY <1>0, <1>2, <2>7 DEF Course, Undoing, TimesOut
    <3> QED
      BY <2>3, <2>4, <2>7, <3>1 DEF TimesOut
  <2> QED
    BY <2>5, <2>6, <2>7
<1> QED
  BY <1>0, <1>1, <1>2

LEMMA BootstrapGoes ==
  ASSUME Steady, Bootstrap
  PROVE  Course'
<1>0. op \in Ops /\ Course /\ UNCHANGED slots /\ op.at = "boot" /\ op' = [op EXCEPT !.at = "wait"]
      /\ data' = (IF Fits THEN data ELSE Backup) /\ data \in [schema : {"old", "current"}, version : Nat]
      /\ (~Fits => Restorable) /\ op.phase \in {"select", "undo"}
  BY DEF Steady, Bootstrap, Bootable, Shape
<1>1. op'.at = "wait" /\ op'.phase = op.phase /\ op'.begun = op.begun /\ op'.plan = op.plan /\ op'.handle = op.handle
  BY <1>0 DEF Ops
<1>2. data'.version = data.version /\ (op.plan.schema = "current" => data' = data)
  BY <1>0 DEF Restorable, Backup, Course, BackedUp
<1>3. Routed' /\ BackedUp' /\ PromotionOutcome'
  BY <1>0, <1>1, <1>2 DEF Course, Routed, BackedUp, PromotionOutcome
<1>4. Selecting' /\ Undoing'
  BY <1>0, <1>1 DEF Course, Selecting, Undoing, Hold, Present, App, OldApp, OldPrevious
<1>5. SchemaKnown'
  BY <1>0, <1>1, <1>2 DEF Course, SchemaKnown
<1> QED
  BY <1>3, <1>4, <1>5 DEF Course

LEMMA ReadyGoes ==
  ASSUME Steady, Ready
  PROVE  Course'
<1>0. op \in Ops /\ Course /\ UNCHANGED <<slots, data>> /\ op.at = "wait" /\ op.phase \in {"select", "undo"} /\ App \in Nat
  BY DEF Steady, Ready, Shape
<1> DEFINE ready == [op EXCEPT !.accepted = App]
<1>1. ready \in Ops /\ ready.phase = op.phase /\ ready.begun = op.begun /\ ready.plan = op.plan /\ ready.handle = op.handle
      /\ ready.accepted = App
  BY <1>0 DEF Ops
<1>2. op' = [ready EXCEPT !.at = "clean"]
  BY <1>0 DEF Ready, Accepted
<1> HIDE DEF ready
<1>3. op'.at = "clean" /\ op'.phase = op.phase /\ op'.begun = op.begun /\ op'.plan = op.plan /\ op'.handle = op.handle
      /\ op'.accepted = App
  BY <1>1, <1>2 DEF Ops
<1>4. Routed' /\ BackedUp' /\ PromotionOutcome'
  BY <1>0, <1>3 DEF Course, Routed, BackedUp, PromotionOutcome
<1>5. Selecting' /\ Undoing'
  BY <1>0, <1>3 DEF Course, Selecting, Undoing, Hold, Present, App, OldApp, OldPrevious
<1>6. SchemaKnown'
  BY <1>0, <1>3 DEF Course, SchemaKnown
<1> QED
  BY <1>4, <1>5, <1>6 DEF Course

LEMMA CleanGoes ==
  ASSUME Steady, Clean \/ CleanFails \/ FinishCommand
  PROVE  Course'
<1>0. op \in Ops /\ Course /\ UNCHANGED data /\ op.at = "clean" /\ op.phase \in {"select", "undo"}
      /\ slots \in [Slots -> Nat]
  BY DEF Steady, Clean, CleanFails, FinishCommand, Shape
<1>1. CASE Clean
  <2>1. PICK s \in {"retiring", "staging"} : slots' = [slots EXCEPT ![s] = NoApp]
    BY <1>1 DEF Clean
  <2>2. slots'["app"] = slots["app"] /\ slots'["previous"] = slots["previous"] /\ op' = op
    BY <1>0, <1>1, <2>1 DEF Slots, Clean
  <2>3. Routed' /\ Selecting' /\ Undoing' /\ BackedUp' /\ SchemaKnown' /\ PromotionOutcome'
    BY <1>0, <2>2 DEF Course, Routed, Selecting, Undoing, BackedUp, SchemaKnown, PromotionOutcome, Present, App, OldApp, OldPrevious
  <2> QED
    BY <2>3 DEF Course
<1>2. CASE CleanFails
  <2>1. Goes(Ended("incomplete"), "idle", "none", <<>>) /\ Ended("incomplete").result = "incomplete"
    BY <1>0, EndedGoes DEF Results
  <2>2. Goes(op', "idle", "none", <<>>) /\ op'.result = "incomplete"
    BY <1>2, <2>1, HurtGoes DEF CleanFails
  <2> QED
    BY <1>0, <2>2, EndsQuietly DEF Goes
<1>3. CASE FinishCommand
  <2> DEFINE result == IF op.phase = "select" THEN "selected" ELSE "restored"
             o == Ended(result)
  <2>1. op' = o /\ UNCHANGED slots
    BY <1>0, <1>3 DEF FinishCommand
  <2>2. Goes(o, "idle", "none", <<>>) /\ o.result = result /\ o.accepted = op.accepted
    BY <1>0, EndedGoes DEF Results
  <2> HIDE DEF o
  <2>3. Routed' /\ Selecting' /\ Undoing' /\ BackedUp' /\ SchemaKnown'
    BY <1>0, <2>1, <2>2 DEF Course, Routed, Selecting, Undoing, BackedUp, SchemaKnown, Goes
  <2>4. op.phase = "select" => App = op.accepted /\ slots["previous"] = OldApp
    BY <1>0 DEF Course, Selecting
  <2>5. op.phase = "undo" => App = OldApp /\ slots["previous"] = OldPrevious
    BY <1>0 DEF Course, Undoing
  <2>6. PromotionOutcome'
    BY <1>0, <2>1, <2>2, <2>4, <2>5 DEF PromotionOutcome, Goes, App, OldApp, OldPrevious
  <2> QED
    BY <2>3, <2>6 DEF Course
<1> QED
  BY <1>1, <1>2, <1>3

\* A promotion that goes on is the one that began.
LEMMA PromotionStays ==
  ASSUME ReleaseInv, ReleaseNext, ~Promote, op'.kind = "promote"
  PROVE  /\ op.kind = "promote" /\ op'.begun = op.begun
         /\ healthy' = healthy /\ modern' = modern /\ ~Recover /\ ~Kill /\ ~Restart /\ ~Normalize /\ ~NotReady
<1>0. Shape(op) /\ op \in Ops /\ App \in Nat /\ slots \in [Slots -> Nat]
  BY DEF ReleaseInv, Shape, App, Slots
<1>1. healthy' = healthy /\ modern' = modern
  BY DEF ReleaseNext, Command, Recover, Prepare, Preflight, RejectCandidate, Transition, TransitionFails, RestoreData,
     RestoreDataFails, Normalize, Quiesce, QuiesceFails, Move, MoveFails, Bootstrap, BootstrapFails, Ready, NotReady,
     TimesOut, Clean, CleanFails, FinishCommand, Kill, Restart, StartService, BecomesReady, Dies, Write, world
<1>2. ~Recover /\ ~Kill /\ ~Restart
  BY <1>0, BegunFields, RestingFields DEF Recover, Kill, Restart
<1>3. ASSUME op.at # "idle", op' \in {Caught, Hurt(Caught)} PROVE op.kind = "promote" /\ op'.begun = op.begun
  <2>1. op.kind = "promote"
    BY <1>0, <1>3, CaughtFields, HurtFields DEF Shape
  <2>2. op.phase \in {"select", "undo"}
    BY <1>0, <1>3, <2>1 DEF Shape
  <2> QED
    <3>1. Caught \in Ops /\ Caught.begun = op.begun
      BY <1>0, <1>3, <2>2, CaughtGoes DEF Goes
    <3>2. Hurt(Caught).begun = Caught.begun
      BY <3>1 DEF Hurt, Ops
    <3> QED
      BY <1>3, <2>1, <3>1, <3>2
<1>4. ASSUME Prepare \/ Bootstrap \/ Clean \/ StartService \/ BecomesReady \/ Dies \/ Write PROVE op.kind = "promote" /\ op'.begun = op.begun
  BY <1>0, <1>4 DEF Prepare, Bootstrap, Clean, StartService, BecomesReady, Dies, Write, Ops
<1>5. ASSUME Preflight PROVE op.kind = "promote" /\ op'.begun = op.begun
  <2> DEFINE h == Halt("select")
  <2>1. Goes(h, "halt", "select", <<>>)
    BY <1>0, HaltGoes DEF Phases
  <2>2. op' = [h EXCEPT !.plan = data]
    BY <1>5 DEF Preflight
  <2> HIDE DEF h
  <2> QED
    BY <2>1, <2>2 DEF Goes, Ops
<1>6. ASSUME RejectCandidate \/ CleanFails \/ FinishCommand PROVE op.kind = "promote" /\ op'.begun = op.begun
  <2>1. PICK result \in Results : op' \in {Ended(result), Hurt(Ended(result))}
    BY <1>6 DEF RejectCandidate, CleanFails, FinishCommand, Results
  <2> QED
    <3>1. Ended(result) \in Ops /\ Ended(result).begun = op.begun /\ Ended(result).kind = op.kind
      BY <1>0, EndedGoes DEF Goes
    <3>2. Hurt(Ended(result)).begun = Ended(result).begun /\ Hurt(Ended(result)).kind = Ended(result).kind
      BY <3>1 DEF Hurt, Ops
    <3> QED
      BY <2>1, <3>1, <3>2
<1>7. ASSUME Transition PROVE op.kind = "promote" /\ op'.begun = op.begun
  <2> DEFINE r == Rename("select", SelectMoves)
             moves == SelectMoves
  <2>1. PICK handle : op' = [r EXCEPT !.handle = handle]
    BY <1>7 DEF Transition
  <2>2. moves \in Seq(Moves)
    BY MovesTyped
  <2>3. r \in Ops /\ r.kind = op.kind /\ r.begun = op.begun
    <3> HIDE DEF moves
    <3>1. LET q == Rename("select", moves) IN q \in Ops /\ q.kind = op.kind /\ q.begun = op.begun
      BY <1>0, <2>2, RenameGoes DEF Goes, RenamePhases
    <3> QED
      BY <3>1 DEF moves
  <2> HIDE DEF r
  <2> QED
    BY <2>1, <2>3 DEF Ops
<1>8. ASSUME RestoreData \/ Normalize \/ Move PROVE op.kind = "promote" /\ op'.begun = op.begun
  <2>1. \/ op' = Ended("failed")
        \/ \E phase \in RenamePhases, moves \in Seq(Moves) : op' = Rename(phase, moves)
    <3>1. op.at = "move" => op.phase \in RenamePhases /\ Tail(op.moves) \in Seq(Moves)
      BY <1>0 DEF Shape, Ops
    <3>2. CASE RestoreData \/ Normalize
      BY <3>2, MovesTyped DEF RestoreData, Normalize, RenamePhases
    <3>3. CASE Move
      BY <3>1, <3>3 DEF Move
    <3> QED
      BY <1>8, <3>2, <3>3
  <2> QED
    BY <1>0, <2>1, EndedGoes, RenameGoes DEF Goes, Results
<1>9. ASSUME Quiesce PROVE op.kind = "promote" /\ op'.begun = op.begun
  <2>1. op.at = "halt" /\ op' = Stopped
    BY <1>9 DEF Quiesce
  <2>2. op.kind = "promote"
    BY <1>0, <2>1, StoppedFields
  <2>3. op.phase \in {"select", "undo"}
    BY <1>0, <2>1, <2>2 DEF Shape
  <2> QED
    BY <1>0, <2>1, <2>2, <2>3 DEF Stopped, Ops
<1>10. ASSUME QuiesceFails PROVE op.kind = "promote" /\ op'.begun = op.begun
  <2>1. PICK o \in {Recovery, Ended("lost"), Ended("failed")} : op' = Hurt(o)
    BY <1>10 DEF QuiesceFails
  <2>2. o # Recovery
    BY <1>0, <2>1, BegunFields, HurtFields
  <2> QED
    <3>1. o \in Ops /\ o.begun = op.begun /\ o.kind = op.kind
      BY <1>0, <2>2, EndedGoes DEF Goes, Results
    <3>2. Hurt(o).begun = o.begun /\ Hurt(o).kind = o.kind
      BY <3>1 DEF Hurt, Ops
    <3> QED
      BY <2>1, <3>1, <3>2
<1>11. ASSUME Ready PROVE op.kind = "promote" /\ op'.begun = op.begun
  <2>1. op.at \in {"wait", "probe"} /\ op' = Accepted
    BY <1>11 DEF Ready
  <2>2. op.kind = "promote"
    BY <1>0, <2>1, AcceptedFields
  <2>3. op.phase \in {"select", "undo"}
    BY <1>0, <2>1, <2>2 DEF Shape
  <2> DEFINE ready == [op EXCEPT !.accepted = App]
  <2>4. ready \in Ops /\ ready.begun = op.begun
    BY <1>0 DEF Ops
  <2>5. op' = [ready EXCEPT !.at = "clean"]
    BY <2>1, <2>3 DEF Accepted
  <2> HIDE DEF ready
  <2> QED
    BY <2>2, <2>4, <2>5 DEF Ops
<1>12. ASSUME NotReady PROVE op.kind = "promote" /\ op'.begun = op.begun
  BY <1>0, <1>12, HaltGoes DEF NotReady, Goes, Phases
<1>13. op.kind = "promote" /\ op'.begun = op.begun
  <2>1. CASE TransitionFails \/ RestoreDataFails \/ MoveFails \/ BootstrapFails \/ TimesOut
    BY <1>3, <2>1 DEF TransitionFails, RestoreDataFails, MoveFails, BootstrapFails, TimesOut
  <2> QED
    BY <1>2, <1>4, <1>5, <1>6, <1>7, <1>8, <1>9, <1>10, <1>11, <1>12, <2>1 DEF ReleaseNext, Command
<1>14. ~Normalize /\ ~NotReady
  BY <1>0, <1>13 DEF Normalize, NotReady, Shape
<1> QED
  BY <1>1, <1>2, <1>13, <1>14

Promoting == op.kind = "promote" /\ OldApp # NoApp
OutcomeInv == ReleaseInv /\ data.version # 0 /\ (Promoting => Course)

LEMMA OutcomeSteps ==
  ASSUME OutcomeInv, [ReleaseNext]_releaseVars
  PROVE  OutcomeInv'
<1>1. ReleaseInv' /\ data'.version # 0
  <2>1. StepSound /\ data.version \in Nat /\ data.version # 0
    BY ReleaseStepSound, ReleaseStutters DEF OutcomeInv, ReleaseInv
  <2>2. data'.version \in Nat
    BY <2>1 DEF StepSound, ReleaseInv
  <2> QED
    BY <2>1, <2>2 DEF StepSound
<1>2. ASSUME Promoting' PROVE Course'
  <2>1. CASE UNCHANGED releaseVars
    BY <1>2, <2>1 DEF releaseVars, OutcomeInv, Promoting, Course, Routed, Selecting, Undoing, Displaced, PutBack, Hold,
       BackedUp, SchemaKnown, PromotionOutcome, LostForAReason, Carries, OldApp, OldPrevious, Present, App
  <2>2. CASE Promote
    BY <2>2, PromoteBegins DEF OutcomeInv
  <2>3. ASSUME ~Promote, ReleaseNext PROVE Steady
    <3>0. ReleaseInv /\ Shape(op) /\ op \in Ops /\ slots \in [Slots -> Nat]
      BY DEF OutcomeInv, ReleaseInv, Shape
    <3>1. op.kind = "promote" /\ op'.begun = op.begun /\ healthy' = healthy /\ modern' = modern
      BY <1>2, <2>3, <3>0, PromotionStays DEF Promoting
    <3>2. App \in Nat
      BY <3>0 DEF App, Slots
    <3>3. Promoting
      BY <1>2, <3>1 DEF Promoting, OldApp
    <3> QED
      BY <3>0, <3>1, <3>2, <3>3 DEF OutcomeInv, Steady, ReleaseInv, Promoting
  <2>4. CASE ReleaseNext /\ ~Promote
    <3>1. Steady /\ op'.kind = "promote" /\ Shape(op) /\ ReleaseInv
      BY <1>2, <2>3, <2>4 DEF Promoting, Steady, OutcomeInv
    <3>2. ~Recover /\ ~Kill /\ ~Restart /\ ~Normalize /\ ~NotReady
      BY <2>4, <3>1, PromotionStays
    <3>3. Move => op.phase \in {"select", "undo"}
      BY <3>1 DEF Move, Shape, Steady
    <3>4. ASSUME Command PROVE Course'
      BY <3>1, <3>2, <3>3, <3>4, CandidateComes, StopGoes, TransitionGoes, TransitionFailsGoes,
         RestoreGoes, SelectMovesOn, UndoMovesOn, CallFails, BootstrapGoes, ReadyGoes, CleanGoes DEF Command
    <3> QED
      BY <2>4, <3>1, <3>2, <3>4, WorldGoesOn DEF ReleaseNext
  <2> QED
    BY <2>1, <2>2, <2>4
<1> QED
  BY <1>1, <1>2 DEF OutcomeInv

LEMMA OutcomeStarts == ReleaseInit => OutcomeInv
<1>1. ReleaseInit => data.version = 1 /\ op = Resting
  BY DEF ReleaseInit
<1> QED
  BY <1>1, ReleaseInitSound, RestingFields DEF OutcomeInv, Promoting

\* A promotion reports what happened: the candidate selected over the app it replaced,
\* both directories as it found them, or, when the household has lost its service, for a
\* reason it could not help (promoteProduction and restorePromotionTopology).
THEOREM PromotionsAlwaysReport == ReleaseSpec => []PromotionOutcome
<1>1. OutcomeInv => PromotionOutcome
  BY DEF OutcomeInv, Promoting, Course, PromotionOutcome, OldApp
<1> QED
  BY OutcomeStarts, OutcomeSteps, <1>1, PTL DEF ReleaseSpec

-----------------------------------------------------------------------------
(* Two releases.                                                            *)
(*                                                                          *)
(* Of `app', `app.previous' and `.app-retiring' two are always taken.  A    *)
(* rename out of them goes to staging and is made only where all three are; *)
(* a retiring directory is cleared only beside both fixed slots.            *)

BothFixed == Present("app") /\ Present("previous")
Two == BothFixed \/ (Present("retiring") /\ SomeFixedSlot)
Home == Slots \ {"staging"}
HomeMoves == [from : Home, to : Home]

RecoveryKeeps ==
  /\ op.at # "idle" /\ op.phase \in {"select", "undo"} => op.kind = "promote"
  /\ op.at \in {"prepare", "preflight", "transition", "restore"} => op.kind = "promote"
  /\ op.at = "probe" => op.phase = "normalize"
  /\ op.phase = "normalize" =>
       /\ op.at = "move" =>
            \/ /\ BothFixed /\ Present("retiring")
               /\ op.moves = <<Put("app", "staging"), Put("previous", "app"), Put("retiring", "previous")>>
            \/ /\ Present("previous") /\ Present("retiring")
               /\ op.moves = <<Put("previous", "app"), Put("retiring", "previous")>>
            \/ Present("app") /\ Present("retiring") /\ op.moves = <<Put("retiring", "previous")>>
            \/ Present("previous") /\ Present("retiring") /\ op.moves = <<Put("retiring", "app")>>
       /\ op.at \notin {"normalize", "move"} => BothFixed
  /\ op.phase = "establish" => BothFixed
  /\ op.phase = "fallback" =>
       /\ op.at \in {"halt", "move", "boot", "wait"}
       /\ op.at = "halt" => BothFixed
       /\ op.at = "move" =>
            \/ BothFixed /\ op.moves = <<Put("app", "retiring"), Put("previous", "app")>>
            \/ Present("previous") /\ Present("retiring") /\ op.moves = <<Put("previous", "app")>>
       /\ op.at \in {"boot", "wait"} => Present("app") /\ Present("retiring")
  /\ op.phase = "keep" =>
       \/ op.at = "move" /\ Present("app") /\ Present("retiring") /\ op.moves = <<Put("retiring", "previous")>>
       \/ op.at = "clean" /\ BothFixed
  /\ op.phase = "reverse" => op.at \in {"halt", "move", "boot", "wait"} /\ op.moves \in Seq(HomeMoves)

PairInv ==
  /\ OutcomeInv /\ Two /\ RecoveryKeeps
  /\ op.kind = "promote" => OldApp # NoApp /\ OldPrevious # NoApp

\* A promotion, or a command at rest, promises recovery nothing.
LEMMA RestsPaired ==
  ASSUME \/ Shape(op)' /\ op'.kind = "promote"
         \/ op'.at = "idle" /\ op'.phase = "none"
         \/ op'.at = "normalize" /\ op'.phase = "normalize"
  PROVE  RecoveryKeeps'
BY DEF RecoveryKeeps, Shape

\* Two releases stay where only staging changes.
LEMMA SamePair ==
  ASSUME Two, UNCHANGED <<slots["app"], slots["previous"], slots["retiring"]>>
  PROVE  Two'
BY DEF Two, BothFixed, Present, SomeFixedSlot

\* Only renames and the clearing of residue touch the other three.
LEMMA OthersStay ==
  ASSUME ReleaseNext, slots \in [Slots -> Nat], ~Move, ~Clean
  PROVE  UNCHANGED <<slots["app"], slots["previous"], slots["retiring"]>>
<1>1. UNCHANGED slots \/ \E b : slots' = [slots EXCEPT !["staging"] = b]
  BY DEF ReleaseNext, Command, Promote, Recover, Prepare, Preflight, RejectCandidate, Transition, TransitionFails,
     RestoreData, RestoreDataFails, Normalize, Quiesce, QuiesceFails, MoveFails, Bootstrap, BootstrapFails, Ready,
     NotReady, TimesOut, CleanFails, FinishCommand, Kill, Restart, StartService, BecomesReady, Dies, Write
<1> QED
  BY <1>1 DEF Slots

\* Wherever a promotion stands it has kept two releases.
LEMMA CoursePairs ==
  ASSUME (Course /\ Shape(op) /\ op.kind = "promote" /\ op.at # "idle" /\ OldApp # NoApp /\ OldPrevious # NoApp)'
  PROVE  Two'
<1>1. op'.phase \in {"select", "undo"} /\ op'.at \in Places \ {"idle", "probe", "normalize"}
  BY DEF Shape, Ops
<1>2. CASE op'.phase = "select"
  BY <1>1, <1>2 DEF Course, Selecting, Routed, Hold, Two, BothFixed, Present, SomeFixedSlot, App, Places
<1>3. CASE op'.phase = "undo"
  BY <1>1, <1>3 DEF Course, Undoing, Displaced, Routed, Hold, Two, BothFixed, Present, SomeFixedSlot, App, Places
<1> QED
  BY <1>1, <1>2, <1>3

\* What recovery makes of two releases.
LEMMA NormalFits ==
  ASSUME Two
  PROVE  /\ Decision # "no-fixed-slot"
         /\ \/ NormalMoves = <<>> /\ BothFixed
            \/ /\ BothFixed /\ Present("retiring")
               /\ NormalMoves = <<Put("app", "staging"), Put("previous", "app"), Put("retiring", "previous")>>
            \/ /\ Present("previous") /\ Present("retiring")
               /\ NormalMoves = <<Put("previous", "app"), Put("retiring", "previous")>>
            \/ Present("app") /\ Present("retiring") /\ NormalMoves = <<Put("retiring", "previous")>>
            \/ Present("previous") /\ Present("retiring") /\ NormalMoves = <<Put("retiring", "app")>>
<1> DEFINE has(S) == S = {s \in Slots : Present(s)}
<1>m. Put("previous", "app") \in Moves /\ Put("retiring", "previous") \in Moves
  BY PutMoves DEF Slots
<1>1. has({"app", "staging", "retiring"}) <=> Present("app") /\ Present("staging") /\ Present("retiring") /\ ~Present("previous")
  BY DEF Slots
<1>2. has({"app", "previous", "retiring"}) <=> Present("app") /\ ~Present("staging") /\ Present("retiring") /\ Present("previous")
  BY DEF Slots
<1>3. has({"previous", "retiring"}) <=> ~Present("app") /\ ~Present("staging") /\ Present("retiring") /\ Present("previous")
  BY DEF Slots
<1>4. has({"app", "retiring"}) <=> Present("app") /\ ~Present("staging") /\ Present("retiring") /\ ~Present("previous")
  BY DEF Slots
<1>5. has({"previous"}) <=> ~Present("app") /\ ~Present("staging") /\ ~Present("retiring") /\ Present("previous")
  BY DEF Slots
<1>d. Decision =
       CASE ~Present("app") /\ ~Present("previous") -> "no-fixed-slot"
         [] has({"app", "staging", "retiring"}) -> "restore-older-previous"
         [] ~Present("app") /\ Present("previous") /\ Present("staging") -> "restore-interrupted-candidate-selection"
         [] has({"app", "previous", "retiring"}) -> "completed-candidate-selection"
         [] has({"previous", "retiring"}) -> "reverse-interrupted-fallback"
         [] has({"app", "retiring"}) -> "complete-ready-fallback"
         [] has({"previous"}) -> "restore-sole-previous"
         [] OTHER -> "keep-app"
  BY DEF Decision
<1> HIDE DEF has
<1>6. Decision # "no-fixed-slot"
  BY <1>1, <1>2, <1>3, <1>4, <1>5, <1>d DEF Two, BothFixed, SomeFixedSlot
<1>7. CASE BothFixed
  <2>1. Decision \in {"completed-candidate-selection", "keep-app"}
        /\ (Decision = "completed-candidate-selection" => Present("retiring"))
    BY <1>7, <1>1, <1>2, <1>3, <1>4, <1>5, <1>d DEF BothFixed
  <2> QED
    BY <1>6, <1>7, <2>1 DEF NormalMoves, MovesFor
<1>8. CASE Present("app") /\ ~Present("previous") /\ Present("retiring")
  <2>1. Decision \in {"restore-older-previous", "complete-ready-fallback"}
    BY <1>8, <1>1, <1>2, <1>3, <1>4, <1>5, <1>d
  <2> QED
    BY <1>6, <1>8, <2>1 DEF NormalMoves, MovesFor
<1>9. CASE ~Present("app") /\ Present("previous") /\ Present("retiring")
  <2>1. CASE Present("staging")
    <3>1. Decision = "restore-interrupted-candidate-selection"
      BY <1>9, <2>1, <1>1, <1>2, <1>3, <1>4, <1>5, <1>d
    <3>2. NormalMoves = <<Put("previous", "app")>> \o <<Put("retiring", "previous")>>
      BY <1>9, <3>1 DEF NormalMoves, MovesFor, MoveIf
    <3> QED
      BY <1>6, <1>9, <1>m, <3>2, MovesJoin
  <2>2. CASE ~Present("staging")
    <3>1. Decision = "reverse-interrupted-fallback"
      BY <1>9, <2>2, <1>1, <1>2, <1>3, <1>4, <1>5, <1>d
    <3> QED
      BY <1>6, <1>9, <3>1 DEF NormalMoves, MovesFor
  <2> QED
    BY <2>1, <2>2
<1> QED
  BY <1>7, <1>8, <1>9 DEF Two, BothFixed, SomeFixedSlot

-----------------------------------------------------------------------------
\* Recovery under way, for the steps below.
Mending ==
  /\ slots \in [Slots -> Nat] /\ Shape(op) /\ op \in Ops /\ App \in Nat
  /\ Two /\ RecoveryKeeps /\ op.kind # "promote" /\ op.at # "idle"

LEMMA MendingPhases ==
  ASSUME Mending
  PROVE  op.phase \in {"normalize", "establish", "fallback", "keep", "reverse"}
BY DEF Mending, RecoveryKeeps, Shape, Ops, Phases

\* A command that ends, or leaves recovery alone.
LEMMA EndsPaired ==
  ASSUME Mending, op' \in {Ended("failed"), Hurt(Ended("failed")), Ended("incomplete"), Hurt(Ended("incomplete")),
                           Ended("kept"), Ended("refused"), Ended("lost"), Hurt(Ended("lost"))}
  PROVE  RecoveryKeeps'
<1>1. \A result \in Results : /\ Ended(result).at = "idle" /\ Ended(result).phase = "none"
                              /\ Hurt(Ended(result)).at = "idle" /\ Hurt(Ended(result)).phase = "none"
  BY EndedFields, HurtFields DEF Mending
<1>2. op'.at = "idle" /\ op'.phase = "none"
  BY <1>1 DEF Results
<1> QED
  BY <1>2, RestsPaired

LEMMA NormalizePairs ==
  ASSUME Mending, Normalize
  PROVE  RecoveryKeeps'
<1> DEFINE moves == NormalMoves
           r == Rename("normalize", moves)
<1>1. op' = r /\ UNCHANGED slots
  BY NormalFits DEF Normalize, Mending
<1>2. moves \in Seq(Moves)
  BY MovesTyped
<1>3. Goes(r, IF moves = <<>> THEN "probe" ELSE "move", "normalize", moves)
  <2> HIDE DEF moves
  <2> QED
    BY <1>2, RenameGoes DEF Mending, Renamed, RenamePhases
<1> HIDE DEF r
<1>4. op'.at = (IF moves = <<>> THEN "probe" ELSE "move") /\ op'.phase = "normalize" /\ op'.moves = moves
      /\ op'.kind # "promote"
  BY <1>1, <1>3 DEF Goes, Mending
<1>5. Two
  BY DEF Mending
<1> QED
  BY <1>1, <1>4, <1>5, NormalFits DEF RecoveryKeeps, BothFixed, Present

LEMMA QuiescePairs ==
  ASSUME Mending, Quiesce
  PROVE  RecoveryKeeps'
<1>1. op.at = "halt" /\ op' = Stopped /\ UNCHANGED slots /\ op \in Ops /\ RecoveryKeeps /\ op.kind # "promote"
      /\ op.phase \in {"establish", "fallback", "reverse"}
  BY DEF Mending, Quiesce, Shape, HaltPhases, RecoveryKeeps
<1>2. CASE op.phase = "establish"
  <2>1. op' = [op EXCEPT !.at = "boot"]
    BY <1>1, <1>2 DEF Stopped
  <2>2. op'.at = "boot" /\ op'.phase = "establish" /\ op'.kind = op.kind
    BY <1>1, <1>2, <2>1 DEF Ops
  <2> QED
    BY <1>1, <1>2, <2>2 DEF RecoveryKeeps, BothFixed, Present
<1>3. CASE op.phase = "fallback"
  <2> DEFINE moves == <<Put("app", "retiring"), Put("previous", "app")>>
             r == Rename("fallback", moves)
  <2>1. op' = r
    BY <1>1, <1>3 DEF Stopped
  <2>2. moves \in Seq(Moves) /\ moves # <<>>
    BY PutMoves, Literals DEF Slots
  <2>3. Goes(r, "move", "fallback", moves)
    <3> HIDE DEF moves
    <3> QED
      BY <1>1, <2>2, RenameGoes DEF RenamePhases
  <2> HIDE DEF r
  <2>4. op'.at = "move" /\ op'.phase = "fallback" /\ op'.moves = moves /\ op'.kind = op.kind
    BY <2>1, <2>3 DEF Goes
  <2> QED
    BY <1>1, <1>3, <2>4 DEF RecoveryKeeps, BothFixed, Present
<1>4. CASE op.phase = "reverse"
  <2> DEFINE moves == MoveIf("app", "previous") \o MoveIf("retiring", "app")
             r == Rename("reverse", moves)
  <2>1. op' = r
    BY <1>1, <1>4 DEF Stopped
  <2>2. moves \in Seq(HomeMoves) /\ moves \in Seq(Moves)
    <3>1. Put("app", "previous") \in HomeMoves /\ Put("retiring", "app") \in HomeMoves
      BY DEF Put, HomeMoves, Home, Slots
    <3>2. MoveIf("app", "previous") \in Seq(HomeMoves) /\ MoveIf("retiring", "app") \in Seq(HomeMoves)
      BY <3>1 DEF MoveIf
    <3>3. MoveIf("app", "previous") \in Seq(Moves) /\ MoveIf("retiring", "app") \in Seq(Moves)
      BY MovesTyped DEF Slots
    <3> QED
      BY <3>2, <3>3
  <2>3. Goes(r, IF moves = <<>> THEN "boot" ELSE "move", "reverse", moves)
    <3> HIDE DEF moves
    <3> QED
      BY <1>1, <2>2, RenameGoes DEF Renamed, RenamePhases
  <2> HIDE DEF r
  <2>4. op'.at \in {"move", "boot"} /\ op'.phase = "reverse" /\ op'.moves = moves /\ op'.kind = op.kind
    BY <2>1, <2>3 DEF Goes
  <2> HIDE DEF moves
  <2> QED
    BY <1>1, <2>2, <2>4 DEF RecoveryKeeps
<1> QED
  BY <1>1, <1>2, <1>3, <1>4

LEMMA QuiesceFailsPairs ==
  ASSUME slots \in [Slots -> Nat], op \in Ops, op.at # "idle", QuiesceFails
  PROVE  \/ op'.at = "idle" /\ op'.phase = "none"
         \/ op'.at = "normalize" /\ op'.phase = "normalize"
<1>1. op' \in {Hurt(Recovery), Hurt(Ended("lost")), Hurt(Ended("failed"))}
  BY DEF QuiesceFails
<1> QED
  BY <1>1, BegunFields, EndedFields, HurtFields DEF Results

LEMMA CaughtPairs ==
  ASSUME Mending, op' \in {Caught, Hurt(Caught)}, UNCHANGED slots
  PROVE  RecoveryKeeps'
<1>0. op \in Ops /\ op.kind # "promote" /\ RecoveryKeeps
  BY DEF Mending
<1>1. CASE op.phase \in {"normalize", "keep", "reverse"} \/ (op.phase = "establish" /\ ~Present("previous"))
  BY <1>1, EndsPaired DEF Caught
<1>2. CASE op.phase = "establish" /\ Present("previous")
  <2>1. Goes(Caught, "halt", "fallback", <<>>)
    BY <1>0, <1>2, HaltGoes DEF Caught, Phases
  <2>2. op'.at = "halt" /\ op'.phase = "fallback" /\ op'.kind = op.kind
    <3>1. Goes(Hurt(Caught), "halt", "fallback", <<>>)
      BY <2>1, HurtGoes
    <3> QED
      BY <2>1, <3>1 DEF Goes
  <2> QED
    BY <1>0, <1>2, <2>2 DEF RecoveryKeeps, BothFixed, Present
<1>3. CASE op.phase = "fallback"
  <2> DEFINE r == Rename("reverse", <<>>)
             h == Halt("reverse")
             none == <<>>
  <2>0. none \in Seq(Moves) /\ none \in Seq(HomeMoves) /\ none = <<>>
    OBVIOUS
  <2>1. Goes(r, "boot", "reverse", none)
    <3>1. LET q == Rename("reverse", none) IN Goes(q, IF none = <<>> THEN Renamed["reverse"] ELSE "move", "reverse", none)
      <4> HIDE DEF none
      <4> QED
        BY <1>0, <2>0, RenameGoes DEF RenamePhases
    <3> QED
      BY <3>1 DEF Renamed
  <2>2. Goes(h, "halt", "reverse", none)
    BY <1>0, HaltGoes DEF Phases
  <2>3. Caught \in {r, h}
    BY <1>3 DEF Caught
  <2> HIDE DEF r, h, none
  <2>4. op'.at \in {"boot", "halt"} /\ op'.phase = "reverse" /\ op'.kind = op.kind /\ op'.moves = none
    <3>1. PICK place \in {"boot", "halt"} : Goes(Caught, place, "reverse", none)
      BY <2>1, <2>2, <2>3
    <3>2. Goes(Hurt(Caught), place, "reverse", none)
      BY <3>1, HurtGoes
    <3> QED
      BY <3>1, <3>2 DEF Goes
  <2> QED
    BY <1>0, <2>0, <2>4 DEF RecoveryKeeps
<1> QED
  BY <1>1, <1>2, <1>3, MendingPhases

\* The renames of recovery, each from where it leaves the three directories.
LEMMA NormalMovePairs ==
  ASSUME Mending, Move, op.phase = "normalize"
  PROVE  Two' /\ RecoveryKeeps'
<1>0. op \in Ops /\ op.at = "move" /\ slots \in [Slots -> Nat] /\ RecoveryKeeps /\ op.phase \in RenamePhases /\ op.kind # "promote"
  BY DEF Mending, Move, RenamePhases
<1>1. /\ Put("app", "staging") \in Moves /\ Put("previous", "app") \in Moves
      /\ Put("retiring", "previous") \in Moves /\ Put("retiring", "app") \in Moves
  BY PutMoves DEF Slots
<1>b. Renamed["normalize"] = "probe"
  BY DEF Renamed
<1>2. CASE /\ BothFixed /\ Present("retiring")
           /\ op.moves = <<Put("app", "staging"), Put("previous", "app"), Put("retiring", "previous")>>
  <2> DEFINE rest == <<Put("previous", "app"), Put("retiring", "previous")>>
  <2>1. op.moves # <<>> /\ Head(op.moves) = Put("app", "staging") /\ Tail(op.moves) = rest
        /\ rest \in Seq(Moves) /\ rest # <<>>
    BY <1>1, <1>2, Literals
  <2>2. Goes(op', "move", "normalize", rest)
        /\ slots'["previous"] = slots["previous"] /\ slots'["retiring"] = slots["retiring"]
    <3> HIDE DEF rest
    <3> QED
      BY <1>0, <2>1, MoveDoes DEF Slots
  <2> QED
    BY <1>0, <1>2, <2>2 DEF Goes, RecoveryKeeps, Two, BothFixed, Present, SomeFixedSlot
<1>3. CASE /\ Present("previous") /\ Present("retiring")
           /\ op.moves = <<Put("previous", "app"), Put("retiring", "previous")>>
  <2> DEFINE rest == <<Put("retiring", "previous")>>
  <2>1. op.moves # <<>> /\ Head(op.moves) = Put("previous", "app") /\ Tail(op.moves) = rest
        /\ rest \in Seq(Moves) /\ rest # <<>>
    BY <1>1, <1>3, Literals
  <2>2. Goes(op', "move", "normalize", rest)
        /\ slots'["app"] = slots["previous"] /\ slots'["retiring"] = slots["retiring"]
    <3> HIDE DEF rest
    <3> QED
      BY <1>0, <2>1, MoveDoes DEF Slots
  <2> QED
    BY <1>0, <1>3, <2>2 DEF Goes, RecoveryKeeps, Two, BothFixed, Present, SomeFixedSlot
<1>4. ASSUME NEW to \in {"app", "previous"}, NEW fixed \in {"app", "previous"} \ {to},
             Present(fixed), Present("retiring"), op.moves = <<Put("retiring", to)>>
      PROVE  Two' /\ RecoveryKeeps'
  <2> DEFINE rest == <<>>
  <2>0. Put("retiring", to) \in Moves
    BY <1>1, <1>4
  <2>1. op.moves # <<>> /\ Head(op.moves) = Put("retiring", to) /\ Tail(op.moves) = rest
        /\ rest \in Seq(Moves) /\ rest = <<>>
    BY <2>0, <1>4, Literals
  <2>2. Goes(op', "probe", "normalize", rest) /\ slots'[to] = slots["retiring"] /\ slots'[fixed] = slots[fixed]
    <3> HIDE DEF rest
    <3>1. /\ Goes(op', IF rest = <<>> THEN Renamed[op.phase] ELSE "move", op.phase, rest)
          /\ slots'[to] = slots["retiring"]
          /\ \A s \in Slots \ {"retiring", to} : slots'[s] = slots[s]
      BY <1>0, <1>4, <2>1, MoveDoes DEF Slots
    <3>2. (IF rest = <<>> THEN Renamed[op.phase] ELSE "move") = "probe"
      BY <2>1, <1>b, <1>4
    <3> QED
      BY <3>1, <3>2 DEF Slots
  <2>3. BothFixed'
    BY <1>4, <2>2 DEF BothFixed, Present
  <2> QED
    BY <1>0, <2>2, <2>3 DEF Goes, RecoveryKeeps, Two, BothFixed, Present
<1> QED
  <2>1. CASE Present("app") /\ Present("retiring") /\ op.moves = <<Put("retiring", "previous")>>
    BY <1>4, <2>1
  <2>2. CASE Present("previous") /\ Present("retiring") /\ op.moves = <<Put("retiring", "app")>>
    BY <1>4, <2>2
  <2> QED
    BY <1>0, <1>2, <1>3, <2>1, <2>2 DEF RecoveryKeeps

LEMMA FallbackMovePairs ==
  ASSUME Mending, Move, op.phase = "fallback"
  PROVE  Two' /\ RecoveryKeeps'
<1>0. op \in Ops /\ op.at = "move" /\ slots \in [Slots -> Nat] /\ RecoveryKeeps /\ op.phase \in RenamePhases /\ op.kind # "promote"
  BY DEF Mending, Move, RenamePhases
<1>1. Put("app", "retiring") \in Moves /\ Put("previous", "app") \in Moves
  BY PutMoves DEF Slots
<1>b. Renamed["fallback"] = "boot"
  BY DEF Renamed
<1>2. CASE BothFixed /\ op.moves = <<Put("app", "retiring"), Put("previous", "app")>>
  <2> DEFINE rest == <<Put("previous", "app")>>
  <2>1. op.moves # <<>> /\ Head(op.moves) = Put("app", "retiring") /\ Tail(op.moves) = rest
        /\ rest \in Seq(Moves) /\ rest # <<>>
    BY <1>1, <1>2, Literals
  <2>2. Goes(op', "move", "fallback", rest)
        /\ slots'["retiring"] = slots["app"] /\ slots'["previous"] = slots["previous"]
    <3> HIDE DEF rest
    <3> QED
      BY <1>0, <2>1, MoveDoes DEF Slots
  <2> QED
    BY <1>0, <1>2, <2>2 DEF Goes, RecoveryKeeps, Two, BothFixed, Present, SomeFixedSlot
<1>3. CASE Present("previous") /\ Present("retiring") /\ op.moves = <<Put("previous", "app")>>
  <2> DEFINE rest == <<>>
  <2>1. op.moves # <<>> /\ Head(op.moves) = Put("previous", "app") /\ Tail(op.moves) = rest
        /\ rest \in Seq(Moves) /\ rest = <<>>
    BY <1>1, <1>3, Literals
  <2>2. Goes(op', "boot", "fallback", rest) /\ slots'["app"] = slots["previous"] /\ slots'["retiring"] = slots["retiring"]
    <3> HIDE DEF rest
    <3>1. /\ Goes(op', IF rest = <<>> THEN Renamed[op.phase] ELSE "move", op.phase, rest)
          /\ slots'["app"] = slots["previous"]
          /\ \A s \in Slots \ {"previous", "app"} : slots'[s] = slots[s]
      BY <1>0, <2>1, MoveDoes DEF Slots
    <3>2. (IF rest = <<>> THEN Renamed[op.phase] ELSE "move") = "boot"
      BY <2>1, <1>b
    <3> QED
      BY <3>1, <3>2 DEF Slots
  <2> QED
    BY <1>0, <1>3, <2>2 DEF Goes, RecoveryKeeps, Two, BothFixed, Present, SomeFixedSlot
<1> QED
  BY <1>0, <1>2, <1>3 DEF RecoveryKeeps

LEMMA KeepMovePairs ==
  ASSUME Mending, Move, op.phase = "keep"
  PROVE  Two' /\ RecoveryKeeps'
<1>0. op \in Ops /\ op.at = "move" /\ slots \in [Slots -> Nat] /\ RecoveryKeeps /\ op.phase \in RenamePhases /\ op.kind # "promote"
      /\ Present("app") /\ Present("retiring") /\ op.moves = <<Put("retiring", "previous")>>
  BY DEF Mending, Move, RenamePhases, RecoveryKeeps
<1> DEFINE rest == <<>>
<1>1. op.moves # <<>> /\ Head(op.moves) = Put("retiring", "previous") /\ Tail(op.moves) = rest
      /\ rest \in Seq(Moves) /\ rest = <<>>
  <2>1. Put("retiring", "previous") \in Moves
    BY PutMoves DEF Slots
  <2> QED
    BY <1>0, <2>1, Literals
<1>2. Goes(op', "clean", "keep", rest) /\ slots'["previous"] = slots["retiring"] /\ slots'["app"] = slots["app"]
  <2> HIDE DEF rest
  <2>1. /\ Goes(op', IF rest = <<>> THEN Renamed[op.phase] ELSE "move", op.phase, rest)
        /\ slots'["previous"] = slots["retiring"]
        /\ \A s \in Slots \ {"retiring", "previous"} : slots'[s] = slots[s]
    BY <1>0, <1>1, MoveDoes DEF Slots
  <2>2. (IF rest = <<>> THEN Renamed[op.phase] ELSE "move") = "clean"
    BY <1>1 DEF Renamed
  <2> QED
    BY <2>1, <2>2 DEF Slots
<1> QED
  BY <1>0, <1>2 DEF Goes, RecoveryKeeps, Two, BothFixed, Present

\* One of the three into another that is free leaves as many taken.
LEMMA HomeMoveKeeps ==
  ASSUME Two, NEW from \in Home, NEW to \in Home \ {from}, Present(from), ~Present(to),
         slots'[to] = slots[from], slots'[from] = NoApp, \A s \in Slots \ {from, to} : slots'[s] = slots[s]
  PROVE  Two'
BY DEF Home, Slots, Two, BothFixed, Present, SomeFixedSlot

LEMMA ReverseMovePairs ==
  ASSUME Mending, Move, op.phase = "reverse"
  PROVE  Two' /\ RecoveryKeeps'
<1>0. op \in Ops /\ op.at = "move" /\ slots \in [Slots -> Nat] /\ RecoveryKeeps /\ op.phase \in RenamePhases /\ op.kind # "promote"
      /\ op.moves \in Seq(HomeMoves) /\ op.moves # <<>> /\ Two
  BY DEF Mending, Move, RenamePhases, RecoveryKeeps, Shape
<1> DEFINE m == Head(op.moves)
           rest == Tail(op.moves)
<1>1. m \in HomeMoves /\ rest \in Seq(HomeMoves) /\ m.from \in Home /\ m.to \in Home /\ m = Put(m.from, m.to)
      /\ rest \in Seq(Moves)
  <2>1. m \in HomeMoves /\ rest \in Seq(HomeMoves)
    BY <1>0
  <2>2. rest \in Seq(Moves)
    BY <1>0 DEF Ops
  <2> HIDE DEF m, rest
  <2> QED
    BY <2>1, <2>2 DEF HomeMoves, Put
<1>2. Movable(m)
  BY DEF Move
<1>3. m.from # m.to /\ m.from \in Slots /\ m.to \in Slots
  BY <1>1, <1>2 DEF Movable, Home
<1>4. /\ Goes(op', IF rest = <<>> THEN Renamed["reverse"] ELSE "move", "reverse", rest)
      /\ slots'[m.to] = slots[m.from] /\ slots'[m.from] = NoApp
      /\ \A s \in Slots \ {m.from, m.to} : slots'[s] = slots[s]
  <2> DEFINE from == m.from
             to == m.to
  <2>1. from \in Slots /\ to \in Slots \ {from} /\ Head(op.moves) = Put(from, to) /\ Tail(op.moves) = rest /\ rest \in Seq(Moves)
    BY <1>1, <1>3
  <2> HIDE DEF from, to, rest, m
  <2>2. /\ Goes(op', IF rest = <<>> THEN Renamed[op.phase] ELSE "move", op.phase, rest)
        /\ slots'[to] = slots[from] /\ slots'[from] = NoApp
        /\ \A s \in Slots \ {from, to} : slots'[s] = slots[s]
    BY <1>0, <2>1, MoveDoes
  <2> QED
    BY <2>2, <1>0 DEF from, to
<1>5. Two'
  BY <1>0, <1>1, <1>2, <1>3, <1>4, HomeMoveKeeps DEF Movable
<1>6. op'.at \in {"move", "boot"} /\ op'.phase = "reverse" /\ op'.moves = rest /\ op'.kind = op.kind
  BY <1>4 DEF Goes, Renamed
<1> QED
  BY <1>0, <1>1, <1>5, <1>6 DEF RecoveryKeeps

LEMMA BootPairs ==
  ASSUME Mending, Bootstrap
  PROVE  RecoveryKeeps'
<1>1. op.at = "boot" /\ op' = [op EXCEPT !.at = "wait"] /\ UNCHANGED slots /\ op \in Ops /\ RecoveryKeeps
  BY DEF Mending, Bootstrap
<1>2. op'.at = "wait" /\ op'.phase = op.phase /\ op'.moves = op.moves /\ op'.kind = op.kind
  BY <1>1 DEF Ops
<1> QED
  BY <1>1, <1>2 DEF RecoveryKeeps, BothFixed, Present

LEMMA ReadyPairs ==
  ASSUME Mending, Ready
  PROVE  RecoveryKeeps'
<1> DEFINE ready == [op EXCEPT !.accepted = App]
           moves == <<Put("retiring", "previous")>>
<1>0. op.at \in {"wait", "probe"} /\ op' = Accepted /\ UNCHANGED slots /\ op \in Ops /\ RecoveryKeeps /\ op.kind # "promote"
  BY DEF Mending, Ready
<1>1. ready \in Ops /\ ready.phase = op.phase /\ ready.kind = op.kind
  BY <1>0 DEF Ops, Mending
<1>2. CASE op.phase = "reverse"
  <2> DEFINE o == Ended("failed")
  <2>1. o \in Ops /\ o.at = "idle" /\ o.phase = "none"
    BY <1>0, EndedFields DEF Results
  <2>2. op' = [o EXCEPT !.accepted = App]
    BY <1>0, <1>2 DEF Accepted
  <2> HIDE DEF o
  <2>3. op'.at = "idle" /\ op'.phase = "none"
    BY <2>1, <2>2 DEF Ops
  <2> QED
    BY <2>3, RestsPaired
<1>3. CASE op.phase = "fallback"
  <2> DEFINE a == [ready EXCEPT !.phase = "keep"]
             b == [a EXCEPT !.at = "move"]
  <2>0. op' = [b EXCEPT !.moves = moves]
    BY <1>0, <1>3 DEF Accepted
  <2> HIDE DEF ready, moves
  <2>1. a \in Ops /\ a.phase = "keep" /\ a.kind = op.kind
    BY <1>1 DEF Ops, Phases
  <2> HIDE DEF a
  <2>2. b \in Ops /\ b.phase = "keep" /\ b.kind = op.kind /\ b.at = "move"
    BY <2>1 DEF Ops, Places
  <2> HIDE DEF b
  <2>3. op'.phase = "keep" /\ op'.kind = op.kind /\ op'.at = "move" /\ op'.moves = moves
    BY <2>0, <2>2 DEF Ops
  <2>4. Present("app") /\ Present("retiring")
    BY <1>0, <1>3 DEF RecoveryKeeps
  <2> QED
    BY <1>0, <2>3, <2>4 DEF RecoveryKeeps, Present, moves
<1>4. CASE op.phase \in {"normalize", "establish"}
  <2>1. op' = [ready EXCEPT !.at = "clean"]
    BY <1>0, <1>4 DEF Accepted
  <2> HIDE DEF ready
  <2>2. op'.at = "clean" /\ op'.phase = op.phase /\ op'.kind = op.kind
    BY <1>1, <2>1 DEF Ops
  <2>3. BothFixed
    BY <1>0, <1>4 DEF RecoveryKeeps
  <2> QED
    BY <1>0, <1>4, <2>2, <2>3 DEF RecoveryKeeps, BothFixed, Present
<1>5. op.phase # "keep"
  BY <1>0 DEF RecoveryKeeps
<1> QED
  BY <1>2, <1>3, <1>4, <1>5, MendingPhases

LEMMA NotReadyPairs ==
  ASSUME Mending, NotReady
  PROVE  RecoveryKeeps'
<1>1. op.at = "probe" /\ op' = Halt("establish") /\ UNCHANGED slots /\ RecoveryKeeps /\ op.kind # "promote"
  BY DEF Mending, NotReady
<1>2. op'.at = "halt" /\ op'.phase = "establish" /\ op'.kind = op.kind
  BY <1>1, HaltGoes DEF Goes, Mending, Phases
<1>3. BothFixed
  BY <1>1 DEF RecoveryKeeps
<1> QED
  BY <1>1, <1>2, <1>3 DEF RecoveryKeeps, BothFixed, Present

LEMMA CleanPairs ==
  ASSUME Mending, Clean
  PROVE  Two' /\ RecoveryKeeps'
<1>1. PICK s \in {"retiring", "staging"} : slots' = [slots EXCEPT ![s] = NoApp]
  BY DEF Clean
<1>2. op.at = "clean" /\ op' = op /\ slots \in [Slots -> Nat] /\ RecoveryKeeps /\ op.kind # "promote"
  BY DEF Clean, Mending
<1>3. BothFixed
  BY <1>2, MendingPhases DEF RecoveryKeeps
<1>4. BothFixed'
  BY <1>1, <1>2, <1>3 DEF BothFixed, Present, Slots
<1> QED
  BY <1>2, <1>4, MendingPhases DEF Two, RecoveryKeeps

LEMMA MendingGoesOn ==
  ASSUME Mending, Command
  PROVE  Two' /\ RecoveryKeeps'
<1>1. ~Prepare /\ ~Preflight /\ ~RejectCandidate /\ ~Transition /\ ~TransitionFails /\ ~RestoreData /\ ~RestoreDataFails
  BY DEF Mending, RecoveryKeeps, Prepare, Preflight, RejectCandidate, Transition, TransitionFails, RestoreData, RestoreDataFails
<1>2. CASE Move
  <2>1. op.phase \in {"normalize", "fallback", "keep", "reverse"}
    BY <1>2, MendingPhases DEF Mending, Shape, RenamePhases, Move
  <2> QED
    BY <1>2, <2>1, NormalMovePairs, FallbackMovePairs, KeepMovePairs, ReverseMovePairs
<1>3. CASE Clean
  BY <1>3, CleanPairs
<1>4. ASSUME MoveFails \/ BootstrapFails \/ TimesOut PROVE RecoveryKeeps'
  <2>1. op' \in {Caught, Hurt(Caught)} /\ UNCHANGED slots
    BY <1>4 DEF MoveFails, BootstrapFails, TimesOut
  <2> QED
    BY <2>1, CaughtPairs
<1>5. ASSUME CleanFails \/ FinishCommand PROVE RecoveryKeeps'
  <2>1. op' \in {Hurt(Ended("incomplete")), Ended("kept")}
    BY <1>5, MendingPhases DEF CleanFails, FinishCommand
  <2> QED
    BY <2>1, EndsPaired
<1>6. ASSUME ~Move, ~Clean PROVE RecoveryKeeps'
  BY <1>1, <1>4, <1>5, <1>6, NormalizePairs, QuiescePairs, QuiesceFailsPairs, RestsPaired, BootPairs, ReadyPairs, NotReadyPairs
     DEF Command, Mending
<1>7. ASSUME ~Move, ~Clean PROVE Two'
  BY <1>7, OthersStay, SamePair DEF Mending, ReleaseNext
<1> QED
  BY <1>2, <1>3, <1>6, <1>7

LEMMA CommandRuns == Command => op.at # "idle"
BY DEF Command, Prepare, Preflight, RejectCandidate, Transition, TransitionFails, RestoreData, RestoreDataFails, Normalize,
   Quiesce, QuiesceFails, Move, MoveFails, Bootstrap, BootstrapFails, Ready, NotReady, TimesOut, Clean, CleanFails, FinishCommand

\* The only step of a promotion that makes something else of it.
LEMMA PromotionLeaves ==
  ASSUME ReleaseInv, Command, op.kind = "promote", op'.kind # "promote"
  PROVE  QuiesceFails
<1>0. Shape(op) /\ op \in Ops /\ App \in Nat
  BY DEF ReleaseInv, Shape, App, Slots
<1>1. ~Prepare /\ ~Bootstrap /\ ~Clean
  BY <1>0 DEF Prepare, Bootstrap, Clean, Ops
<1>2. ~Preflight
  <2> DEFINE h == Halt("select")
  <2>1. h \in Ops /\ h.kind = op.kind
    BY <1>0, HaltFields DEF Phases
  <2>2. Preflight => op' = [h EXCEPT !.plan = data]
    BY DEF Preflight
  <2> HIDE DEF h
  <2> QED
    BY <2>1, <2>2 DEF Ops
<1>3. \A result \in Results : op' \notin {Ended(result), Hurt(Ended(result))}
  BY <1>0, EndedFields, HurtFields
<1>4. ~RejectCandidate /\ ~CleanFails /\ ~FinishCommand
  BY <1>3 DEF RejectCandidate, CleanFails, FinishCommand, Results
<1>5. ASSUME op.at # "idle" PROVE op' \notin {Caught, Hurt(Caught)}
  <2>1. Caught \in Ops
    BY <1>0, <1>5, CaughtFields DEF Shape
  <2> QED
    BY <1>0, <1>5, <2>1, CaughtFields, HurtFields
<1>6. ~TransitionFails /\ ~RestoreDataFails /\ ~MoveFails /\ ~BootstrapFails /\ ~TimesOut
  BY <1>5 DEF TransitionFails, RestoreDataFails, MoveFails, BootstrapFails, TimesOut
<1>7. ~Transition
  <2> DEFINE r == Rename("select", SelectMoves)
  <2>1. Transition => \E handle : op' = [r EXCEPT !.handle = handle]
    BY DEF Transition
  <2>2. r \in Ops /\ r.kind = op.kind
    BY <1>0, RenameFields, MovesTyped
  <2> HIDE DEF r
  <2> QED
    BY <2>1, <2>2 DEF Ops
<1>8. ~RestoreData /\ ~Normalize
  BY <1>0, RenameFields, MovesTyped DEF RestoreData, Normalize, Shape
<1>9. ~Move
  <2> DEFINE rest == Tail(op.moves)
  <2>1. Move => op.phase \in RenamePhases /\ rest \in Seq(Moves) /\ op' = Rename(op.phase, rest)
    BY <1>0 DEF Move, Shape, Ops
  <2> HIDE DEF rest
  <2> QED
    BY <1>0, <2>1, RenameFields DEF RenamePhases
<1>10. ~Quiesce
  BY <1>0, StoppedFields DEF Quiesce
<1>11. ~Ready /\ ~NotReady
  BY <1>0, AcceptedFields DEF Ready, NotReady, Shape
<1> QED
  BY <1>1, <1>2, <1>4, <1>6, <1>7, <1>8, <1>9, <1>10, <1>11 DEF Command

\* What begins, or stops, or goes on beside a command.
LEMMA PairSteps ==
  ASSUME PairInv, [ReleaseNext]_releaseVars
  PROVE  PairInv'
<1>0. OutcomeInv /\ ReleaseInv /\ Two /\ RecoveryKeeps /\ slots \in [Slots -> Nat] /\ Shape(op) /\ op \in Ops /\ App \in Nat
  BY DEF PairInv, OutcomeInv, ReleaseInv, Shape, App, Slots
<1>1. OutcomeInv' /\ Shape(op)'
  <2>1. OutcomeInv'
    BY <1>0, OutcomeSteps
  <2> QED
    BY <2>1 DEF OutcomeInv, ReleaseInv
<1>2. CASE UNCHANGED releaseVars
  BY <1>0, <1>1, <1>2 DEF releaseVars, PairInv, Two, BothFixed, Present, SomeFixedSlot, RecoveryKeeps, OldApp, OldPrevious
<1>3. ASSUME ReleaseNext, op'.kind = "promote"
      PROVE  Two' /\ RecoveryKeeps' /\ OldApp' # NoApp /\ OldPrevious' # NoApp
  <2>1. OldApp' # NoApp /\ OldPrevious' # NoApp
    <3>1. CASE Promote
      <4>1. BothFixed
        BY <1>0, <3>1 DEF Promote, Two, BothFixed
      <4>2. op'.begun = slots
        <5> DEFINE a == [Resting EXCEPT !.at = "prepare"]
                   b == [a EXCEPT !.kind = "promote"]
                   d == [b EXCEPT !.phase = "select"]
        <5>1. op' = [d EXCEPT !.begun = slots]
          BY <3>1 DEF Promote
        <5>2. a \in Ops
          BY RestingFields DEF Ops, Places
        <5> HIDE DEF a
        <5>3. b \in Ops
          BY <5>2 DEF Ops
        <5> HIDE DEF b
        <5>4. d \in Ops
          BY <5>3 DEF Ops, Phases
        <5> HIDE DEF d
        <5> QED
          BY <5>1, <5>4 DEF Ops
      <4> QED
        BY <4>1, <4>2 DEF BothFixed, Present, OldApp, OldPrevious
    <3>2. CASE ~Promote
      BY <1>0, <1>3, <3>2, PromotionStays DEF PairInv, OldApp, OldPrevious
    <3> QED
      BY <3>1, <3>2
  <2>2. RecoveryKeeps'
    BY <1>1, <1>3, RestsPaired
  <2>3. CASE op'.at # "idle"
    <3>1. Course'
      BY <1>1, <1>3, <2>1 DEF OutcomeInv, Promoting
    <3>2. (Course /\ Shape(op) /\ op.kind = "promote" /\ op.at # "idle" /\ OldApp # NoApp /\ OldPrevious # NoApp)'
      BY <1>1, <1>3, <2>1, <2>3, <3>1
    <3>3. Two'
      BY <3>2, CoursePairs
    <3> QED
      BY <2>1, <2>2, <3>3
  <2>4. CASE op'.at = "idle"
    <3>1. ~Clean
      BY <2>4 DEF Clean
    <3>2. ~Move
      <4>1. ASSUME Move PROVE FALSE
        <5> DEFINE rest == Tail(op.moves)
        <5>1. op.phase \in RenamePhases /\ rest \in Seq(Moves) /\ op' = Rename(op.phase, rest)
          BY <1>0, <4>1 DEF Move, Shape, Ops
        <5> HIDE DEF rest
        <5> QED
          BY <1>0, <2>4, <5>1, RenameFields DEF RenamePhases
      <4> QED
        BY <4>1
    <3> QED
      BY <1>0, <1>3, <2>1, <2>2, <3>1, <3>2, OthersStay, SamePair
  <2> QED
    BY <2>3, <2>4
<1>4. ASSUME ReleaseNext, op'.kind # "promote"
      PROVE  Two' /\ RecoveryKeeps'
  <2>1. ~Promote
    BY <1>0, <1>4, BegunFields DEF Promote
  <2>2. CASE Recover \/ Kill \/ Restart
    <3>1. \/ op'.at = "idle" /\ op'.phase = "none"
          \/ op'.at = "normalize" /\ op'.phase = "normalize"
      BY <1>0, <2>2, BegunFields, RestingFields DEF Recover, Kill, Restart
    <3>2. UNCHANGED slots
      BY <2>2 DEF Recover, Kill, Restart
    <3> QED
      BY <1>0, <3>1, <3>2, RestsPaired, SamePair
  <2>3. CASE StartService \/ BecomesReady \/ Dies \/ Write
    <3>1. UNCHANGED <<slots, op>>
      BY <2>3 DEF StartService, BecomesReady, Dies, Write
    <3> QED
      BY <1>0, <3>1 DEF Two, BothFixed, Present, SomeFixedSlot, RecoveryKeeps
  <2>4. CASE Command /\ op.kind = "promote"
    <3>1. QuiesceFails
      BY <1>0, <1>4, <2>4, PromotionLeaves
    <3>2. op.at # "idle" /\ UNCHANGED slots
      BY <3>1 DEF QuiesceFails
    <3> QED
      BY <1>0, <3>1, <3>2, QuiesceFailsPairs, RestsPaired, SamePair
  <2>5. CASE Command /\ op.kind # "promote"
    <3>1. op.at # "idle"
      BY <2>5, CommandRuns
    <3> QED
      BY <1>0, <2>5, <3>1, MendingGoesOn DEF Mending
  <2> QED
    BY <1>4, <2>1, <2>2, <2>3, <2>4, <2>5 DEF ReleaseNext
<1> QED
  BY <1>1, <1>2, <1>3, <1>4 DEF PairInv

LEMMA PairStarts == ReleaseInit /\ Present("previous") => PairInv
<1>1. ReleaseInit /\ Present("previous") => BothFixed
  BY ReleaseAssumption DEF ReleaseInit, Present, BothFixed, Slots
<1>2. ReleaseInit => op.at = "idle" /\ op.phase = "none" /\ op.kind = "none"
  BY RestingFields DEF ReleaseInit
<1> QED
  BY <1>1, <1>2, OutcomeStarts DEF PairInv, Two, RecoveryKeeps

\* Where two releases were installed, one of them can always be selected, whatever
\* fails and wherever a command is killed (recoveryTopologyDecision).
THEOREM PairAlwaysKeepsAFixedSlot == ReleaseSpec => PairKeepsAFixedSlot
<1>1. PairInv => SomeFixedSlot
  BY DEF PairInv, Two, BothFixed, SomeFixedSlot
<1> QED
  BY PairStarts, PairSteps, <1>1, PTL DEF ReleaseSpec, PairKeepsAFixedSlot

-----------------------------------------------------------------------------
(* The writer lease.  There is one holder, whatever the number of           *)
(* processes, sockets and kills, and its socket stays at the path.          *)

\* The processes whose socket is at the path.
InPlace(p) == at[p] \in {"listen", "chmod", "confirm", "held", "unbind"}

OwnSocket ==
    /\ \A p \in Procs : InPlace(p) => bound[p] # None /\ path.socket = bound[p]
    /\ \A p \in Procs : ~InPlace(p) /\ at[p] # "shut" => bound[p] = None
    /\ \A p, q \in Procs : bound[p] = bound[q] /\ bound[p] # None => p = q

\* A socket that does not answer yet has not got its mode yet.
ModeLast ==
    \A p \in Procs :
        /\ at[p] \in {"listen", "chmod"} => ~path.private
        /\ at[p] \in {"confirm", "held"} => path.private
        /\ at[p] = "held" => seen[p] = bound[p]

Guarded == \A p \in Procs : at[p] \in Recovering => guard = p

\* What a recovering process has seen: as long as the path is still that
\* socket, it has its mode, and after the probe it is nobody's.
SeenStale ==
    \A p \in Procs :
        /\ at[p] \in {"probe", "compare", "unlink"} => seen[p] # None
        /\ at[p] = "probe" /\ path.socket = seen[p] => path.private
        /\ at[p] \in {"compare", "unlink"} /\ path.socket = seen[p] =>
             \A q \in Procs : bound[q] # seen[p]
        /\ at[p] = "unlink" => path.socket = seen[p]

\* A server that is closed is not the one at the path.
NameGone == \A p \in Procs : at[p] \in {"shut", "check"} => path = Free \/ path.socket # seen[p]

LeaseInv == TypeOK /\ OwnSocket /\ ModeLast /\ Guarded /\ SeenStale /\ NameGone

-----------------------------------------------------------------------------

\* An attempt that ends, for any reason before it has bound a socket (the
\* catch of acquireRuntimeOwnershipLease).
LEMMA RefuseKeeps ==
  ASSUME LeaseInv, NEW p \in Procs, Refuse(p),
         at[p] \in {"lock", "identify", "probe", "compare", "bind"}
  PROVE  LeaseInv'
<1> USE DEF Refuse, Goto
<1>0. TypeOK /\ OwnSocket /\ ModeLast /\ Guarded /\ SeenStale /\ NameGone
  BY DEF LeaseInv
<1>1. TypeOK' BY <1>0 DEF TypeOK, Calls, ReleaseGuard
<1>2. OwnSocket' BY <1>0 DEF OwnSocket, InPlace
<1>3. ModeLast' BY <1>0 DEF ModeLast
<1>4. Guarded' BY <1>0 DEF Guarded, TypeOK, Recovering, ReleaseGuard
<1>5. SeenStale' BY <1>0 DEF SeenStale, TypeOK
<1>6. NameGone' BY <1>0 DEF NameGone
<1> QED
  BY <1>1, <1>2, <1>3, <1>4, <1>5, <1>6 DEF LeaseInv

\* The first look at the path.
LEMMA StartKeeps ==
  ASSUME LeaseInv, NEW p \in Procs, Start(p)
  PROVE  LeaseInv'
<1> USE DEF Start, Goto
<1>0. TypeOK /\ OwnSocket /\ ModeLast /\ Guarded /\ SeenStale /\ NameGone
  BY DEF LeaseInv
<1>1. TypeOK' BY <1>0 DEF TypeOK, Calls
<1>2. OwnSocket' BY <1>0 DEF OwnSocket, InPlace
<1>3. ModeLast' BY <1>0 DEF ModeLast
<1>4. Guarded' BY <1>0 DEF Guarded, Recovering
<1>5. SeenStale' BY <1>0 DEF SeenStale
<1>6. NameGone' BY <1>0 DEF NameGone
<1> QED
  BY <1>1, <1>2, <1>3, <1>4, <1>5, <1>6 DEF LeaseInv

\* The advisory lock excludes everybody else who recovers.
LEMMA LockKeeps ==
  ASSUME LeaseInv, NEW p \in Procs, Lock(p)
  PROVE  LeaseInv'
<1> USE DEF Lock, Goto
<1>0. TypeOK /\ OwnSocket /\ ModeLast /\ Guarded /\ SeenStale /\ NameGone
  BY DEF LeaseInv
<1>1. TypeOK' BY <1>0 DEF TypeOK, Calls, Recovering
<1>2. OwnSocket' BY <1>0 DEF OwnSocket, InPlace
<1>3. ModeLast' BY <1>0 DEF ModeLast
<1>4. Guarded' BY NoneAssumption, <1>0 DEF Guarded
<1>5. SeenStale' BY <1>0 DEF SeenStale
<1>6. NameGone' BY <1>0 DEF NameGone
<1> QED
  BY <1>1, <1>2, <1>3, <1>4, <1>5, <1>6 DEF LeaseInv

\* The second look, under the lock.
LEMMA LookAgainKeeps ==
  ASSUME LeaseInv, NEW p \in Procs, LookAgain(p)
  PROVE  LeaseInv'
<1> USE DEF LookAgain, Goto
<1>0. TypeOK /\ OwnSocket /\ ModeLast /\ Guarded /\ SeenStale /\ NameGone
  BY DEF LeaseInv
<1>1. TypeOK' BY <1>0 DEF TypeOK, Calls, Recovering
<1>2. OwnSocket' BY <1>0 DEF OwnSocket, InPlace
<1>3. ModeLast' BY <1>0 DEF ModeLast
<1>4. Guarded' BY <1>0 DEF Guarded, Recovering
<1>5. SeenStale' BY <1>0 DEF SeenStale, Guarded, Recovering
<1>6. NameGone' BY <1>0 DEF NameGone
<1> QED
  BY <1>1, <1>2, <1>3, <1>4, <1>5, <1>6 DEF LeaseInv

\* What is read from the path has its mode, and so a server that listens or
\* is gone.
LEMMA IdentifyKeeps ==
  ASSUME LeaseInv, NEW p \in Procs, Identify(p)
  PROVE  LeaseInv'
<1> USE DEF Identify, Goto
<1>0. TypeOK /\ OwnSocket /\ ModeLast /\ Guarded /\ SeenStale /\ NameGone
  BY DEF LeaseInv
<1>1. TypeOK' BY <1>0 DEF TypeOK, Free, Calls, Recovering
<1>2. OwnSocket' BY <1>0 DEF OwnSocket, InPlace
<1>3. ModeLast' BY <1>0 DEF ModeLast
<1>4. Guarded' BY <1>0 DEF Guarded, Recovering
<1>5. SeenStale' BY NoneAssumption, <1>0 DEF SeenStale, TypeOK, Guarded, Free, Recovering
<1>6. NameGone' BY <1>0 DEF NameGone
<1> QED
  BY <1>1, <1>2, <1>3, <1>4, <1>5, <1>6 DEF LeaseInv

\* A refused connection to a path that has its mode: the socket is nobody's
\* (probeSocket).
LEMMA ProbeKeeps ==
  ASSUME LeaseInv, NEW p \in Procs, Probe(p)
  PROVE  LeaseInv'
<1> USE DEF Probe, Goto
<1>0. TypeOK /\ OwnSocket /\ ModeLast /\ Guarded /\ SeenStale /\ NameGone
  BY DEF LeaseInv
<1>1. TypeOK' BY <1>0 DEF TypeOK, Calls, Recovering
<1>2. OwnSocket' BY <1>0 DEF OwnSocket, InPlace
<1>3. ModeLast' BY <1>0 DEF ModeLast
<1>4. Guarded' BY <1>0 DEF Guarded, Recovering
<1>5. SeenStale' BY <1>0 DEF SeenStale, OwnSocket, ModeLast, InPlace, Refused, Listens
<1>6. NameGone' BY <1>0 DEF NameGone
<1> QED
  BY <1>1, <1>2, <1>3, <1>4, <1>5, <1>6 DEF LeaseInv

\* The path is still the socket that was nobody's.
LEMMA CompareKeeps ==
  ASSUME LeaseInv, NEW p \in Procs, Compare(p)
  PROVE  LeaseInv'
<1> USE DEF Compare, Goto
<1>0. TypeOK /\ OwnSocket /\ ModeLast /\ Guarded /\ SeenStale /\ NameGone
  BY DEF LeaseInv
<1>1. TypeOK' BY <1>0 DEF TypeOK, Calls, Recovering
<1>2. OwnSocket' BY <1>0 DEF OwnSocket, InPlace
<1>3. ModeLast' BY <1>0 DEF ModeLast
<1>4. Guarded' BY <1>0 DEF Guarded, Recovering
<1>5. SeenStale' BY <1>0 DEF SeenStale
<1>6. NameGone' BY <1>0 DEF NameGone
<1> QED
  BY <1>1, <1>2, <1>3, <1>4, <1>5, <1>6 DEF LeaseInv

\* The path that is removed by name is nobody's socket (removeStableStaleSocket).
LEMMA UnlinkKeeps ==
  ASSUME LeaseInv, NEW p \in Procs, Unlink(p)
  PROVE  LeaseInv'
<1> USE DEF Unlink, Goto
<1>0. TypeOK /\ OwnSocket /\ ModeLast /\ Guarded /\ SeenStale /\ NameGone
  BY DEF LeaseInv
<1>1. TypeOK' BY <1>0 DEF TypeOK, Calls
<1>2. OwnSocket' BY <1>0 DEF OwnSocket, SeenStale, InPlace
<1>3. ModeLast' BY <1>0 DEF ModeLast, OwnSocket, SeenStale, InPlace
<1>4. Guarded' BY <1>0 DEF Guarded, Recovering
<1>5. SeenStale' BY <1>0 DEF SeenStale, TypeOK, Guarded, Recovering
<1>6. NameGone' BY <1>0 DEF NameGone
<1> QED
  BY <1>1, <1>2, <1>3, <1>4, <1>5, <1>6 DEF LeaseInv

\* A new socket is one that nobody has seen.
LEMMA BindKeeps ==
  ASSUME LeaseInv, NEW p \in Procs, Bind(p)
  PROVE  LeaseInv'
<1> USE DEF Bind, Goto
<1>0. TypeOK /\ OwnSocket /\ ModeLast /\ Guarded /\ SeenStale /\ NameGone
  BY DEF LeaseInv
<1>1. TypeOK' BY <1>0 DEF TypeOK, Calls, Binding
<1>2. OwnSocket' BY <1>0 DEF OwnSocket, TypeOK, InPlace, Free, Known
<1>3. ModeLast' BY <1>0 DEF ModeLast, OwnSocket, InPlace, Free
<1>4. Guarded' BY <1>0 DEF Guarded, Recovering
<1>5. SeenStale' BY <1>0 DEF SeenStale, Free, Known
<1>6. NameGone' BY <1>0 DEF NameGone, Known
<1> QED
  BY <1>1, <1>2, <1>3, <1>4, <1>5, <1>6 DEF LeaseInv

\* The server listens before its socket gets its mode.
LEMMA ListenKeeps ==
  ASSUME LeaseInv, NEW p \in Procs, Listen(p)
  PROVE  LeaseInv'
<1> USE DEF Listen, Goto
<1>0. TypeOK /\ OwnSocket /\ ModeLast /\ Guarded /\ SeenStale /\ NameGone
  BY DEF LeaseInv
<1>1. TypeOK' BY <1>0 DEF TypeOK, Calls, Binding
<1>2. OwnSocket' BY <1>0 DEF OwnSocket, InPlace
<1>3. ModeLast' BY <1>0 DEF ModeLast
<1>4. Guarded' BY <1>0 DEF Guarded, Recovering
<1>5. SeenStale' BY <1>0 DEF SeenStale
<1>6. NameGone' BY <1>0 DEF NameGone
<1> QED
  BY <1>1, <1>2, <1>3, <1>4, <1>5, <1>6 DEF LeaseInv

\* The mode is set by name, on the own socket.
LEMMA ChmodKeeps ==
  ASSUME LeaseInv, NEW p \in Procs, Chmod(p)
  PROVE  LeaseInv'
<1> USE DEF Chmod, Goto
<1>0. TypeOK /\ OwnSocket /\ ModeLast /\ Guarded /\ SeenStale /\ NameGone
  BY DEF LeaseInv
<1>1. TypeOK' BY <1>0 DEF TypeOK, OwnSocket, InPlace, Free, Calls, Binding
<1>2. OwnSocket' BY <1>0 DEF OwnSocket, InPlace
<1>3. ModeLast' BY <1>0 DEF ModeLast, TypeOK, OwnSocket, InPlace
<1>4. Guarded' BY <1>0 DEF Guarded, Recovering
<1>5. SeenStale' BY <1>0 DEF SeenStale
<1>6. NameGone' BY <1>0 DEF NameGone, OwnSocket, InPlace, Free
<1> QED
  BY <1>1, <1>2, <1>3, <1>4, <1>5, <1>6 DEF LeaseInv

\* The identity of the lease is that of the own socket.
LEMMA ConfirmKeeps ==
  ASSUME LeaseInv, NEW p \in Procs, Confirm(p)
  PROVE  LeaseInv'
<1> USE DEF Confirm, Goto
<1>0. TypeOK /\ OwnSocket /\ ModeLast /\ Guarded /\ SeenStale /\ NameGone
  BY DEF LeaseInv
<1>1. TypeOK' BY <1>0 DEF TypeOK, Free, Calls, ReleaseGuard
<1>2. OwnSocket' BY <1>0 DEF OwnSocket, InPlace
<1>3. ModeLast' BY <1>0 DEF ModeLast, TypeOK, OwnSocket, InPlace
<1>4. Guarded' BY <1>0 DEF Guarded, Recovering, ReleaseGuard
<1>5. SeenStale' BY <1>0 DEF SeenStale
<1>6. NameGone' BY <1>0 DEF NameGone
<1> QED
  BY <1>1, <1>2, <1>3, <1>4, <1>5, <1>6 DEF LeaseInv

\* An error on the new socket.
LEMMA FailKeeps ==
  ASSUME LeaseInv, NEW p \in Procs, Fail(p)
  PROVE  LeaseInv'
<1> USE DEF Fail, Goto
<1>0. TypeOK /\ OwnSocket /\ ModeLast /\ Guarded /\ SeenStale /\ NameGone
  BY DEF LeaseInv
<1>1. TypeOK' BY <1>0 DEF TypeOK, Calls, Ending
<1>2. OwnSocket' BY <1>0 DEF OwnSocket, InPlace
<1>3. ModeLast' BY <1>0 DEF ModeLast, TypeOK, OwnSocket, InPlace
<1>4. Guarded' BY <1>0 DEF Guarded, Recovering
<1>5. SeenStale' BY <1>0 DEF SeenStale
<1>6. NameGone' BY <1>0 DEF NameGone
<1> QED
  BY <1>1, <1>2, <1>3, <1>4, <1>5, <1>6 DEF LeaseInv

\* The lease is closed.
LEMMA CloseKeeps ==
  ASSUME LeaseInv, NEW p \in Procs, Close(p)
  PROVE  LeaseInv'
<1> USE DEF Close, Goto
<1>0. TypeOK /\ OwnSocket /\ ModeLast /\ Guarded /\ SeenStale /\ NameGone
  BY DEF LeaseInv
<1>1. TypeOK' BY <1>0 DEF TypeOK, Calls, Ending
<1>2. OwnSocket' BY <1>0 DEF OwnSocket, InPlace, Holds
<1>3. ModeLast' BY <1>0 DEF ModeLast, TypeOK, OwnSocket, InPlace, Holds
<1>4. Guarded' BY <1>0 DEF Guarded, Recovering
<1>5. SeenStale' BY <1>0 DEF SeenStale
<1>6. NameGone' BY <1>0 DEF NameGone
<1> QED
  BY <1>1, <1>2, <1>3, <1>4, <1>5, <1>6 DEF LeaseInv

\* The name that is removed with the server is its own (closeServer).
LEMMA UnbindKeeps ==
  ASSUME LeaseInv, NEW p \in Procs, Unbind(p)
  PROVE  LeaseInv'
<1> USE DEF Unbind, Goto
<1>0. TypeOK /\ OwnSocket /\ ModeLast /\ Guarded /\ SeenStale /\ NameGone
  BY DEF LeaseInv
<1>1. TypeOK' BY <1>0 DEF TypeOK, Calls, Ending
<1>2. OwnSocket' BY <1>0 DEF OwnSocket, TypeOK, InPlace
<1>3. ModeLast' BY <1>0 DEF ModeLast, OwnSocket, InPlace
<1>4. Guarded' BY <1>0 DEF Guarded, Recovering
<1>5. SeenStale' BY <1>0 DEF SeenStale, OwnSocket, InPlace, Free
<1>6. NameGone' BY <1>0 DEF NameGone
<1> QED
  BY <1>1, <1>2, <1>3, <1>4, <1>5, <1>6 DEF LeaseInv

\* The descriptor is closed.
LEMMA ShutKeeps ==
  ASSUME LeaseInv, NEW p \in Procs, Shut(p)
  PROVE  LeaseInv'
<1> USE DEF Shut, Goto
<1>0. TypeOK /\ OwnSocket /\ ModeLast /\ Guarded /\ SeenStale /\ NameGone
  BY DEF LeaseInv
<1>1. TypeOK' BY <1>0 DEF TypeOK, Calls, Ending
<1>2. OwnSocket' BY <1>0 DEF OwnSocket, TypeOK, InPlace
<1>3. ModeLast' BY <1>0 DEF ModeLast
<1>4. Guarded' BY <1>0 DEF Guarded, Recovering
<1>5. SeenStale' BY <1>0 DEF SeenStale
<1>6. NameGone' BY <1>0 DEF NameGone
<1> QED
  BY <1>1, <1>2, <1>3, <1>4, <1>5, <1>6 DEF LeaseInv

\* A closed server does not find its own identity, and removes nothing.
LEMMA FinishKeeps ==
  ASSUME LeaseInv, NEW p \in Procs, Finish(p)
  PROVE  LeaseInv'
<1> USE DEF Finish, Goto
<1>0. TypeOK /\ OwnSocket /\ ModeLast /\ Guarded /\ SeenStale /\ NameGone
  BY DEF LeaseInv
<1>1. TypeOK' BY <1>0 DEF TypeOK, Calls, ReleaseGuard
<1>2. OwnSocket' BY <1>0 DEF OwnSocket, NameGone, InPlace
<1>3. ModeLast' BY <1>0 DEF ModeLast, NameGone
<1>4. Guarded' BY <1>0 DEF Guarded, Recovering, ReleaseGuard
<1>5. SeenStale' BY <1>0 DEF SeenStale, NameGone
<1>6. NameGone' BY <1>0 DEF NameGone, TypeOK
<1> QED
  BY <1>1, <1>2, <1>3, <1>4, <1>5, <1>6 DEF LeaseInv

\* The process is killed: its socket may stay at the path, as nobody's.
LEMMA CrashKeeps ==
  ASSUME LeaseInv, NEW p \in Procs, Crash(p)
  PROVE  LeaseInv'
<1> USE DEF Crash, Goto
<1>0. TypeOK /\ OwnSocket /\ ModeLast /\ Guarded /\ SeenStale /\ NameGone
  BY DEF LeaseInv
<1>1. TypeOK' BY MaxCrashesAssumption, <1>0 DEF TypeOK, Calls, ReleaseGuard
<1>2. OwnSocket' BY <1>0 DEF OwnSocket, TypeOK, InPlace
<1>3. ModeLast' BY <1>0 DEF ModeLast, TypeOK
<1>4. Guarded' BY <1>0 DEF Guarded, TypeOK, Recovering, ReleaseGuard
<1>5. SeenStale' BY <1>0 DEF SeenStale, TypeOK
<1>6. NameGone' BY <1>0 DEF NameGone, TypeOK
<1> QED
  BY <1>1, <1>2, <1>3, <1>4, <1>5, <1>6 DEF LeaseInv

\* The invariant holds at first, when nobody has done anything.
LEMMA LeaseStarts == Init => LeaseInv
<1> SUFFICES ASSUME Init PROVE LeaseInv
  OBVIOUS
<1> USE DEF Init, Free
<1>1. TypeOK BY NoneAssumption, MaxCrashesAssumption DEF TypeOK, Calls
<1>2. OwnSocket BY DEF OwnSocket, InPlace
<1>3. ModeLast BY DEF ModeLast
<1>4. Guarded BY DEF Guarded, Recovering
<1>5. SeenStale BY DEF SeenStale
<1>6. NameGone BY DEF NameGone
<1> QED
  BY <1>1, <1>2, <1>3, <1>4, <1>5, <1>6 DEF LeaseInv

\* Every call of every process keeps the invariant.
LEMMA LeaseSteps == LeaseInv /\ [Next]_vars => LeaseInv'
<1> SUFFICES ASSUME LeaseInv, [Next]_vars PROVE LeaseInv'
  OBVIOUS
<1>1. CASE UNCHANGED vars
  <2> USE <1>1 DEF vars
  <2>1. TypeOK' BY DEF LeaseInv, TypeOK
  <2>2. OwnSocket' BY DEF LeaseInv, OwnSocket, InPlace
  <2>3. ModeLast' BY DEF LeaseInv, ModeLast
  <2>4. Guarded' BY DEF LeaseInv, Guarded
  <2>5. SeenStale' BY DEF LeaseInv, SeenStale
  <2>6. NameGone' BY DEF LeaseInv, NameGone
  <2> QED
    BY <2>1, <2>2, <2>3, <2>4, <2>5, <2>6 DEF LeaseInv
<1>2. ASSUME NEW p \in Procs, Acquire(p) \/ Fail(p) \/ Close(p) \/ End(p) \/ Crash(p)
      PROVE  LeaseInv'
  <2>1. CASE Start(p) BY <2>1, StartKeeps
  <2>2. CASE Lock(p) BY <2>2, LockKeeps
  <2>3. CASE RefuseLock(p) BY <2>3, RefuseKeeps DEF RefuseLock
  <2>4. CASE LookAgain(p) BY <2>4, LookAgainKeeps
  <2>5. CASE Identify(p) BY <2>5, IdentifyKeeps
  <2>6. CASE RefuseIdentity(p) BY <2>6, RefuseKeeps DEF RefuseIdentity
  <2>7. CASE Probe(p) BY <2>7, ProbeKeeps
  <2>8. CASE RefuseProbe(p) BY <2>8, RefuseKeeps DEF RefuseProbe
  <2>9. CASE Compare(p) BY <2>9, CompareKeeps
  <2>10. CASE RefuseCompare(p) BY <2>10, RefuseKeeps DEF RefuseCompare
  <2>11. CASE Unlink(p) BY <2>11, UnlinkKeeps
  <2>12. CASE Bind(p) BY <2>12, BindKeeps
  <2>13. CASE RefuseBind(p) BY <2>13, RefuseKeeps DEF RefuseBind
  <2>14. CASE Listen(p) BY <2>14, ListenKeeps
  <2>15. CASE Chmod(p) BY <2>15, ChmodKeeps
  <2>16. CASE Confirm(p) BY <2>16, ConfirmKeeps
  <2>17. CASE Fail(p) BY <2>17, FailKeeps
  <2>18. CASE Close(p) BY <2>18, CloseKeeps
  <2>19. CASE Unbind(p) BY <2>19, UnbindKeeps
  <2>20. CASE Shut(p) BY <2>20, ShutKeeps
  <2>21. CASE Finish(p) BY <2>21, FinishKeeps
  <2>22. CASE Crash(p) BY <2>22, CrashKeeps
  <2> QED
    BY <1>2, <2>1, <2>2, <2>3, <2>4, <2>5, <2>6, <2>7, <2>8, <2>9, <2>10, <2>11, <2>12, <2>13,
          <2>14, <2>15, <2>16, <2>17, <2>18, <2>19, <2>20, <2>21, <2>22 DEF Acquire, End
<1> QED
  BY <1>1, <1>2 DEF Next

\* The invariant holds in every reachable state.
LEMMA LeaseSound == Spec => []LeaseInv
<1> QED
  BY LeaseStarts, LeaseSteps, PTL DEF Spec

\* Whatever the number of processes and kills, every state is well typed, and
\* the lock is held by nobody who is at rest or holds the lease.
THEOREM OwnershipTypeCorrect == Spec => []TypeOK
<1>1. LeaseInv => TypeOK
  BY DEF LeaseInv
<1> QED
  BY LeaseSound, <1>1, PTL

\* The path is the socket of whoever holds the lease, with its mode
\* (assertRecordHeld never fails by itself).
THEOREM HolderAlwaysKeepsPath == Spec => []HolderKeepsPath
<1>1. LeaseInv => HolderKeepsPath
  <2> SUFFICES ASSUME LeaseInv, NEW p \in Procs, Holds(p)
               PROVE  path = [socket |-> bound[p], private |-> TRUE] /\ seen[p] = bound[p]
    BY DEF HolderKeepsPath
  <2>1. path.socket = bound[p] /\ bound[p] # None
    BY DEF LeaseInv, OwnSocket, InPlace, Holds
  <2>2. path.private /\ seen[p] = bound[p]
    BY DEF LeaseInv, ModeLast, Holds
  <2>3. path \in [socket : Sockets, private : BOOLEAN]
    BY <2>1 DEF LeaseInv, TypeOK, Free
  <2> QED
    BY <2>1, <2>2, <2>3
<1> QED
  BY LeaseSound, <1>1, PTL

\* Two processes never hold the writer lease together.
THEOREM AlwaysOneHolder == Spec => []OneHolder
<1>1. LeaseInv => OneHolder
  <2> SUFFICES ASSUME LeaseInv, NEW p \in Procs, NEW q \in Procs, Holds(p), Holds(q)
               PROVE  p = q
    BY DEF OneHolder
  <2>1. bound[p] = bound[q] /\ bound[p] # None
    BY DEF LeaseInv, OwnSocket, InPlace, Holds
  <2> QED
    BY <2>1 DEF LeaseInv, OwnSocket
<1> QED
  BY LeaseSound, <1>1, PTL

\* The writer lease has one holder, who can prove it by the path.
THEOREM LeaseAlwaysExclusive == Spec => []LeaseExclusive
<1> QED
  BY AlwaysOneHolder, HolderAlwaysKeepsPath, PTL DEF LeaseExclusive
=============================================================================

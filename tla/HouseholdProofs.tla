--------------------------- MODULE HouseholdProofs ---------------------------
(***************************************************************************)
(* Proofs about the household's commands, for any weeks, meals, words,     *)
(* durations and bounds.                                                   *)
(***************************************************************************)
EXTENDS MCHousehold, SequenceTheorems, FiniteSetTheorems, FunctionTheorems, WellFoundedInduction,
        TLAPS

-----------------------------------------------------------------------------
(* The timer of a step. *)

Timers ==
  [duration : Durations \cup {NoTime}, started : Nat \cup {NoTime}, paused : BOOLEAN,
   remaining : (Nat \ {0}) \cup {NoTime}, complete : BOOLEAN, note : BOOLEAN]

\* What has passed since the timer was last started.
Passed == IF TimerRunning THEN now - timed.started ELSE 0

\* What the timer had left when it was last started, paused or set is what it
\* was given less what it had run by then, and each pause rounds up to one half
\* second away.
TimerInv ==
  /\ timed \in Timers /\ now \in Nat /\ given \in Int /\ ran \in Nat /\ pauses \in Nat
  /\ TimerRunning => timed.started <= now
  /\ timed.duration # NoTime =>
       /\ 2 * Left(timed) >= 2 * given - (ran - Passed)
       /\ 2 * Left(timed) <= 2 * given - (ran - Passed) + pauses

LEMMA Halves ==
  ASSUME NEW n \in Nat
  PROVE  n \div 2 \in Nat /\ 2 * (n \div 2) <= n /\ n <= 2 * (n \div 2) + 1
OBVIOUS

LEMMA TimerStarts == TimersInit => TimerInv
BY DEF TimersInit, TimerInv, Timers, NoTime, TimerRunning

\* What a timer holds, field by field.
LEMMA TimerFields ==
  ASSUME TimerInv
  PROVE  /\ timed.duration \in Nat \cup {NoTime} /\ timed.duration # 0
         /\ timed.started \in Nat \cup {NoTime}
         /\ timed.remaining \in Nat \cup {NoTime} /\ timed.remaining # 0
         /\ NoTime \notin Nat /\ NoTime = -1
         /\ Passed \in Nat
         /\ timed.duration # NoTime => Left(timed) \in Nat /\ Left(timed) > 0
<1>1. NoTime \notin Nat /\ NoTime = -1
  BY DEF NoTime
<1>2. /\ timed.duration \in Nat \cup {NoTime} /\ timed.duration # 0
      /\ timed.started \in Nat \cup {NoTime}
      /\ timed.remaining \in Nat \cup {NoTime} /\ timed.remaining # 0
  <2>1. \A d \in Durations : d \in Nat /\ d # 0
    BY TimersAssumption
  <2> QED BY <1>1, <2>1 DEF TimerInv, Timers
<1>3. Passed \in Nat
  BY <1>1, <1>2 DEF TimerInv, Passed, TimerRunning
<1> QED BY <1>1, <1>2, <1>3 DEF Left

\* What a page shows of it.
LEMMA ShownFits ==
  ASSUME TimerInv, timed.duration # NoTime
  PROVE  /\ Shown \in Nat
         /\ 2 * Shown >= 2 * given - ran
         /\ Shown > 0 => 2 * Shown <= 2 * given - ran + pauses + 1
<1>1. Left(timed) \in Nat /\ Passed \in Nat /\ given \in Int /\ ran \in Nat /\ pauses \in Nat
  BY TimerFields DEF TimerInv
<1>2. Elapsed = Passed \div 2
  BY DEF Elapsed, Passed
<1>3. Elapsed \in Nat /\ 2 * Elapsed <= Passed /\ Passed <= 2 * Elapsed + 1
  BY <1>1, <1>2, Halves
<1>4. /\ 2 * Left(timed) >= 2 * given - (ran - Passed)
      /\ 2 * Left(timed) <= 2 * given - (ran - Passed) + pauses
  BY DEF TimerInv
<1> DEFINE left == Left(timed)
           gone == Elapsed
<1> HIDE DEF left, gone
<1>5. Shown = IF left > gone THEN left - gone ELSE 0
  BY DEF Shown, left, gone
<1>6. /\ left \in Nat /\ gone \in Nat /\ 2 * gone <= Passed /\ Passed <= 2 * gone + 1
      /\ 2 * left >= 2 * given - (ran - Passed)
      /\ 2 * left <= 2 * given - (ran - Passed) + pauses
  BY <1>1, <1>3, <1>4 DEF left, gone
<1> QED BY <1>1, <1>5, <1>6

\* A timer that is given seconds anew.
LEMMA GivenAnew ==
  ASSUME TimerInv, NEW seconds, timed' \in Timers, Given(seconds), UNCHANGED now,
         seconds \in Durations \cup {NoTime},
         TimerRunning' => timed'.started = now,
         timed'.duration # NoTime => seconds # NoTime /\ Left(timed') = seconds
  PROVE  TimerInv'
<1>1. seconds \in Nat \cup {NoTime} /\ NoTime = -1
  <2>1. \A d \in Durations : d \in Nat
    BY TimersAssumption
  <2> QED BY <2>1 DEF NoTime
<1>2. given' = seconds /\ ran' = 0 /\ pauses' = 0 /\ now' = now /\ now \in Nat
  BY DEF Given, TimerInv
<1>3. Passed' = 0 /\ (TimerRunning' => timed'.started <= now')
  BY <1>2 DEF Passed
<1>4. timed'.duration # NoTime => Left(timed)' = seconds
  BY DEF Left
<1> QED BY <1>1, <1>2, <1>3, <1>4 DEF TimerInv

\* A timer that is stopped.
LEMMA StoppedTimer ==
  ASSUME NEW t \in Timers, NEW duration \in Durations \cup {NoTime}
  PROVE  /\ Stopped(t) \in Timers /\ [Stopped(t) EXCEPT !.duration = duration] \in Timers
         /\ Stopped(t).started = NoTime /\ Left(Stopped(t)) = t.duration
         /\ Stopped(t).duration = t.duration
         /\ [Stopped(t) EXCEPT !.duration = duration].started = NoTime
         /\ [Stopped(t) EXCEPT !.duration = duration].duration = duration
         /\ Left([Stopped(t) EXCEPT !.duration = duration]) = duration
<1> DEFINE u == [Stopped(t) EXCEPT !.duration = duration]
<1>1. /\ Stopped(t) \in Timers /\ Stopped(t).started = NoTime
      /\ Stopped(t).remaining = NoTime /\ Stopped(t).duration = t.duration
  BY DEF Timers, Stopped
<1>2. u \in Timers /\ u.started = NoTime /\ u.remaining = NoTime /\ u.duration = duration
  BY <1>1 DEF Timers
<1> QED BY <1>1, <1>2 DEF Left

LEMMA TimerStep == TimerInv /\ [TimersNext]_timerVars => TimerInv'
<1> SUFFICES ASSUME TimerInv, [TimersNext]_timerVars PROVE TimerInv'
  OBVIOUS
<1>0. /\ timed \in Timers /\ now \in Nat /\ given \in Int /\ ran \in Nat /\ pauses \in Nat
      /\ NoTime = -1 /\ Passed \in Nat
      /\ \A d \in Durations : d \in Nat /\ d # 0
  BY TimerFields, TimersAssumption DEF TimerInv
<1>1. CASE UNCHANGED timerVars
  BY <1>1 DEF timerVars, TimerInv, TimerRunning, Passed, Left
<1>2. CASE StartInstructionTimer
  <2>1. /\ timed' = [timed EXCEPT !.started = now, !.paused = FALSE]
        /\ UNCHANGED <<now, given, ran, pauses>> /\ Passed = 0
    BY <1>2 DEF StartInstructionTimer, Passed
  <2>2. /\ timed' \in Timers /\ timed'.started = now
        /\ timed'.duration = timed.duration /\ timed'.remaining = timed.remaining
    BY <1>0, <2>1 DEF Timers
  <2>3. Passed' = 0 /\ Left(timed)' = Left(timed)
    BY <1>0, <2>1, <2>2 DEF Passed, Left
  <2> QED BY <1>0, <2>1, <2>2, <2>3 DEF TimerInv
<1>3. CASE PauseInstructionTimer
  <2> DEFINE n == Shown
  <2>1. /\ n \in Nat /\ n > 0 /\ timed.duration # NoTime
        /\ 2 * n >= 2 * given - ran /\ 2 * n <= 2 * given - ran + pauses + 1
    BY <1>3, ShownFits DEF PauseInstructionTimer
  <2>2. /\ timed' = [timed EXCEPT !.remaining = n, !.started = NoTime, !.paused = TRUE]
        /\ UNCHANGED <<now, given, ran>> /\ pauses' = pauses + 1
    BY <1>3 DEF PauseInstructionTimer
  <2> HIDE DEF n
  <2>3. /\ timed' \in Timers /\ timed'.started = NoTime /\ timed'.remaining = n
    <3> DEFINE t == [timed EXCEPT !.remaining = n]
               u == [t EXCEPT !.started = NoTime]
               v == [u EXCEPT !.paused = TRUE]
    <3>1. t \in Timers /\ t.remaining = n
      BY <1>0, <2>1 DEF Timers
    <3>2. timed' = v
      BY <2>2
    <3> HIDE DEF t
    <3>3. u \in Timers /\ u.remaining = n /\ u.started = NoTime
      BY <3>1 DEF Timers
    <3> HIDE DEF u
    <3>4. v \in Timers /\ v.remaining = n /\ v.started = NoTime
      BY <3>3 DEF Timers
    <3> QED BY <3>2, <3>4
  <2>4. Passed' = 0 /\ ~TimerRunning' /\ Left(timed)' = n
    BY <1>0, <2>1, <2>3 DEF Passed, TimerRunning, Left
  <2> QED BY <1>0, <2>1, <2>2, <2>3, <2>4 DEF TimerInv
<1>4. CASE ResetInstructionTimer
  <2>1. /\ timed' \in Timers /\ timed'.started = NoTime /\ timed'.duration = timed.duration
        /\ Left(timed') = timed.duration /\ timed.duration \in Durations \cup {NoTime}
    BY <1>0, <1>4, StoppedTimer DEF ResetInstructionTimer, Timers
  <2> QED BY <1>4, <2>1, GivenAnew DEF ResetInstructionTimer, TimerRunning
<1>5. ASSUME NEW d \in Durations, SetInstructionTimerRemaining(d) PROVE TimerInv'
  <2> DEFINE started == IF TimerRunning THEN now ELSE NoTime
  <2>1. timed' = [timed EXCEPT !.remaining = d, !.started = started]
    BY <1>5 DEF SetInstructionTimerRemaining
  <2>2. started \in Nat \cup {NoTime} /\ (started # NoTime => started = now)
    BY <1>0
  <2> HIDE DEF started
  <2>3. timed' \in Timers /\ timed'.remaining = d /\ timed'.started = started
    BY <1>0, <2>1, <2>2 DEF Timers
  <2>4. Left(timed') = d /\ d # NoTime
    BY <1>0, <2>3 DEF Left
  <2>5. Given(d) /\ UNCHANGED now /\ d \in Durations \cup {NoTime}
    BY <1>5 DEF SetInstructionTimerRemaining
  <2>6. TimerRunning' => timed'.started = now
    BY <2>2, <2>3 DEF TimerRunning
  <2> QED BY <2>3, <2>4, <2>5, <2>6, GivenAnew
<1>6. ASSUME NEW complete \in BOOLEAN, SetComplete(complete) PROVE TimerInv'
  <2>1. CASE complete
    <3>1. timed' = [Stopped(timed) EXCEPT !.complete = TRUE]
      BY <1>6, <2>1 DEF SetComplete
    <3>2. /\ Stopped(timed) \in Timers /\ Stopped(timed).started = NoTime
          /\ Stopped(timed).remaining = NoTime /\ Stopped(timed).duration = timed.duration
          /\ timed.duration \in Durations \cup {NoTime}
      BY <1>0 DEF Timers, Stopped
    <3>3. /\ timed' \in Timers /\ timed'.started = NoTime
          /\ timed'.remaining = NoTime /\ timed'.duration = timed.duration
      BY <3>1, <3>2 DEF Timers
    <3>4. Given(timed.duration) /\ UNCHANGED now
      BY <1>6, <2>1 DEF SetComplete
    <3>5. Left(timed') = timed.duration
      BY <3>3 DEF Left
    <3> QED BY <3>2, <3>3, <3>4, <3>5, GivenAnew DEF TimerRunning
  <2>2. CASE ~complete
    <3>1. timed' = [timed EXCEPT !.complete = FALSE] /\ UNCHANGED <<now, given, ran, pauses>>
      BY <1>6, <2>2 DEF SetComplete
    <3>2. /\ timed' \in Timers /\ timed'.started = timed.started
          /\ timed'.remaining = timed.remaining /\ timed'.duration = timed.duration
      BY <1>0, <3>1 DEF Timers
    <3>3. Passed' = Passed /\ Left(timed)' = Left(timed) /\ (TimerRunning' <=> TimerRunning)
      BY <3>1, <3>2 DEF Passed, Left, TimerRunning
    <3> QED BY <3>1, <3>2, <3>3 DEF TimerInv
  <2> QED BY <2>1, <2>2
<1>7. ASSUME NEW d \in Durations \cup {NoTime}, EditDuration(d) \/ ReplaceStep(d) PROVE TimerInv'
  <2>1. timed' = [Stopped(timed) EXCEPT !.duration = d] /\ Given(d) /\ UNCHANGED now
    BY <1>7 DEF EditDuration, ReplaceStep
  <2>2. /\ timed' \in Timers /\ timed'.started = NoTime /\ timed'.duration = d /\ Left(timed') = d
    BY <1>0, <2>1, StoppedTimer
  <2> QED BY <2>1, <2>2, GivenAnew DEF TimerRunning
<1>8. ASSUME NEW note \in BOOLEAN, UpdateInstructionStepNote(note) PROVE TimerInv'
  <2>1. timed' = [timed EXCEPT !.note = note] /\ UNCHANGED <<now, given, ran, pauses>>
    BY <1>8 DEF UpdateInstructionStepNote
  <2>2. /\ timed' \in Timers /\ timed'.started = timed.started
        /\ timed'.remaining = timed.remaining /\ timed'.duration = timed.duration
    BY <1>0, <2>1 DEF Timers
  <2>3. Passed' = Passed /\ Left(timed)' = Left(timed) /\ (TimerRunning' <=> TimerRunning)
    BY <2>1, <2>2 DEF Passed, Left, TimerRunning
  <2> QED BY <2>1, <2>2, <2>3 DEF TimerInv
<1>9. CASE Tick
  <2>1. /\ now' = now + 1 /\ UNCHANGED <<timed, given, pauses>>
        /\ ran' = IF TimerRunning THEN ran + 1 ELSE ran
    BY <1>9 DEF Tick
  <2>2. Left(timed)' = Left(timed) /\ (TimerRunning' <=> TimerRunning)
    BY <2>1 DEF Left, TimerRunning
  <2>3. Passed' = (IF TimerRunning THEN Passed + 1 ELSE Passed) /\ (TimerRunning => timed.started \in Nat)
    BY <1>0, <2>1, <2>2, TimerFields DEF Passed, TimerRunning
  <2>4. ran' - Passed' = ran - Passed /\ ran' \in Nat
    BY <1>0, <2>1, <2>3
  <2>5. TimerRunning' => timed'.started <= now'
    BY <1>0, <2>1, <2>2, <2>3 DEF TimerInv
  <2> QED BY <1>0, <2>1, <2>2, <2>4, <2>5 DEF TimerInv
<1> QED BY <1>1, <1>2, <1>3, <1>4, <1>5, <1>6, <1>7, <1>8, <1>9 DEF TimersNext

\* However a timer is started, paused, resumed, reset and set.
THEOREM TimersAlwaysKeepTime == TimersSpec => []TimerKeepsTime
<1>1. TimerInv => TimerKeepsTime
  BY ShownFits DEF TimerKeepsTime
<1> QED BY <1>1, TimerStarts, TimerStep, PTL DEF TimersSpec
-----------------------------------------------------------------------------
(* The review of the ingredients. *)

\* The planner only goes up, the page shows one of its versions, and what was
\* previewed at the version the planner still has is the state it has.
ReviewInv ==
  /\ version \in Nat /\ shown \in Nat /\ shown <= version
  /\ review.batch # <<>> =>
       /\ review.version \in Nat /\ review.version <= version
       /\ review.version = version => review.seen = pantry

\* A preview is of the state it is asked for, or empty.
LEMMA Previewed ==
  ASSUME NEW queue, NEW p, NEW v, NEW asked
  PROVE  LET preview == Preview(queue, p, v, asked)
         IN  preview.batch # <<>> => asked = v /\ preview.version = v /\ preview.seen = p
BY DEF Preview, NoReview

LEMMA ReviewStarts == CatalogueInit => ReviewInv
BY DEF CatalogueInit, ReviewInv, NoReview

\* A change makes a version nobody has previewed yet.
LEMMA ChangeKeepsReview ==
  ASSUME ReviewInv, NEW p, Change(p)
  PROVE  ReviewInv'
BY DEF Change, Commit, ReviewInv

LEMMA ReviewSteps ==
  ASSUME ReviewInv, [CatalogueNext]_catalogueVars
  PROVE  /\ ReviewInv'
         /\ shown' = version' /\ Reviewed /\ version' # version => review.seen = pantry
<1>1. ASSUME NEW p, Change(p)
      PROVE  ReviewInv' /\ ~(shown' = version' /\ version' # version)
  <2>1. ReviewInv'
    BY <1>1, ChangeKeepsReview
  <2> QED
    BY <1>1, <2>1 DEF Change, Commit, ReviewInv
<1>2. ASSUME NEW id, NEW w, NEW words, CreateIngredientConcept(id, w, words)
      PROVE  ReviewInv' /\ ~(shown' = version' /\ version' # version)
  BY <1>2, <1>1 DEF CreateIngredientConcept
<1>3. ASSUME NEW id, NEW w, AddIngredientVocabulary(id, {w}) \/ RenameIngredientConcept(id, w)
      PROVE  ReviewInv' /\ ~(shown' = version' /\ version' # version)
  BY <1>3, <1>1 DEF AddIngredientVocabulary, RenameIngredientConcept
<1>4. ASSUME NEW survivor, NEW merged, NEW accepted, NEW policy,
             MergeIngredientConcepts(survivor, merged, accepted, policy)
      PROVE  ReviewInv' /\ ~(shown' = version' /\ version' # version)
  BY <1>4, <1>1 DEF MergeIngredientConcepts
<1>5. ASSUME NEW r, NEW w, NEW link, AddRow(r, w) \/ RenameRow(r, w, link)
      PROVE  ReviewInv' /\ ~(shown' = version' /\ version' # version)
  BY <1>5, <1>1 DEF AddRow, RenameRow
<1>6. ASSUME NEW r, NEW w, NEW d, NEW id, ResolveIngredientOccurrence(r, d, id) \/ AddResolvedRow(r, w, d, id)
      PROVE  ReviewInv' /\ ~(shown' = version' /\ version' # version)
  BY <1>6, <1>1 DEF ResolveIngredientOccurrence, AddResolvedRow
<1>7. ASSUME UndoNewest PROVE ReviewInv' /\ ~(shown' = version' /\ version' # version)
  BY <1>7 DEF UndoNewest, ReviewInv
<1>8. ASSUME NEW queue, StartReview(queue) PROVE ReviewInv' /\ version' = version
  BY <1>8, Previewed DEF StartReview, ReviewInv
<1>9. ASSUME NEW d, NEW ids, ApplyReview(d, ids)
      PROVE  ReviewInv' /\ review.seen = pantry
  <2> DEFINE p == Batch(d, ids)
             rest == SubSeq(review.queue, Len(review.batch) + 1, Len(review.queue))
  <2>1. /\ Reviewed /\ review.version = version /\ pantry' = p /\ version' = version + 1
        /\ shown' = version + 1 /\ review' = Preview(rest, p, version + 1, version + 1)
    BY <1>9 DEF ApplyReview, Commit, Current
  <2> HIDE DEF p, rest
  <2>2. review'.batch # <<>> => review'.version = version + 1 /\ review'.seen = p
    BY <2>1, Previewed
  <2> QED
    BY <2>1, <2>2 DEF ReviewInv, Reviewed
<1>10. ASSUME ReviewConflicts PROVE ReviewInv' /\ version' = version
  BY <1>10, Previewed DEF ReviewConflicts, ReviewInv
<1>11. ASSUME ShowNewest PROVE ReviewInv' /\ version' = version
  BY <1>11 DEF ShowNewest, ReviewInv
<1>12. ASSUME UNCHANGED catalogueVars PROVE ReviewInv' /\ version' = version
  BY <1>12 DEF catalogueVars, ReviewInv
<1> QED
  BY <1>2, <1>3, <1>4, <1>5, <1>6, <1>7, <1>8, <1>9, <1>10, <1>11, <1>12 DEF CatalogueNext

\* Whatever is changed or undone while the family reviews, its decisions land
\* on the catalogue and the rows they were made about, or not at all
\* (planner-client.tsx, applyIngredientResolutionBatch).
THEOREM ReviewsLandAsSeen == CatalogueSpec => ReviewedAsSeen
<1>1. CatalogueInit => ReviewInv
  BY ReviewStarts
<1>2. ReviewInv /\ [CatalogueNext]_catalogueVars => ReviewInv'
  BY ReviewSteps
<1>3. ReviewInv /\ [CatalogueNext]_catalogueVars
        => [shown' = version' /\ Reviewed /\ version' # version => review.seen = pantry]_catalogueVars
  BY ReviewSteps
<1> QED
  BY <1>1, <1>2, <1>3, PTL DEF CatalogueSpec, ReviewedAsSeen
-----------------------------------------------------------------------------
(* The catalogue. *)

\* Any two concepts of a catalogue share no word, and every row is linked to
\* one of them or to none.
WellFormed(p) ==
  /\ p = [revision |-> p.revision, concepts |-> p.concepts, rows |-> p.rows]
  /\ p.concepts = [i \in DOMAIN p.concepts |->
                     [label |-> p.concepts[i].label, words |-> p.concepts[i].words]]
  /\ p.rows = [r \in Rows |-> [word |-> p.rows[r].word, concept |-> p.rows[r].concept]]

Disjoint(p) ==
  \A i, j \in DOMAIN p.concepts : i # j => Vocabulary(p.concepts[i]) \cap Vocabulary(p.concepts[j]) = {}

Linked(p) == \A r \in Rows : p.rows[r].concept \in DOMAIN p.concepts \cup {NoConcept}

Coherent(p) == WellFormed(p) /\ Disjoint(p) /\ Linked(p)

\* What a change builds, part by part.
Pantry(n, c, l) == [revision |-> n, concepts |-> c, rows |-> l]

LEMMA Built ==
  ASSUME NEW n, NEW c, NEW l,
         c = [i \in DOMAIN c |-> [label |-> c[i].label, words |-> c[i].words]],
         \A i, j \in DOMAIN c : i # j => Vocabulary(c[i]) \cap Vocabulary(c[j]) = {},
         l = [r \in Rows |-> [word |-> l[r].word, concept |-> l[r].concept]],
         \A r \in Rows : l[r].concept \in DOMAIN c \cup {NoConcept}
  PROVE  Coherent(Pantry(n, c, l))
BY DEF Coherent, WellFormed, Disjoint, Linked, Vocabulary, Pantry

\* A word nobody owns is in no vocabulary.
LEMMA Owned ==
  ASSUME NEW p, NEW words, NEW id, NEW i \in DOMAIN p.concepts,
         Owners(p, words) \subseteq {id}, i # id
  PROVE  Vocabulary(p.concepts[i]) \cap words = {}
BY DEF Owners

LEMMA Created ==
  ASSUME NEW p, Coherent(p), NEW id, NEW label, NEW words,
         id \notin DOMAIN p.concepts, Owners(p, {label} \cup words) = {}
  PROVE  /\ Coherent(CreateIn(p, id, label, words))
         /\ DOMAIN CreateIn(p, id, label, words).concepts = DOMAIN p.concepts \cup {id}
<1> DEFINE c == [i \in DOMAIN p.concepts \cup {id} |->
                   IF i = id THEN [label |-> label, words |-> words] ELSE p.concepts[i]]
<1>1. CreateIn(p, id, label, words) = Pantry(p.revision + 1, c, p.rows)
  <2> DEFINE d == [i \in DOMAIN p.concepts \cup {id} |->
                     IF i = id THEN NewConcept(id, label, words)[id] ELSE p.concepts[i]]
  <2>1. NewConcept(id, label, words)[id] = [label |-> label, words |-> words]
    BY DEF NewConcept
  <2>2. d = c
    BY <2>1
  <2>3. p = [revision |-> p.revision, concepts |-> p.concepts, rows |-> p.rows]
    BY DEF Coherent, WellFormed
  <2>4. CreateIn(p, id, label, words) = [p EXCEPT !.revision = p.revision + 1, !.concepts = d]
    BY DEF CreateIn
  <2> HIDE DEF c, d
  <2> QED BY <2>2, <2>3, <2>4 DEF Pantry
<1>2. \A i \in DOMAIN p.concepts : Vocabulary(p.concepts[i]) \cap ({label} \cup words) = {}
  BY DEF Owners
<1>3. c = [i \in DOMAIN c |-> [label |-> c[i].label, words |-> c[i].words]]
  <2>1. \A i \in DOMAIN c : c[i] = [label |-> c[i].label, words |-> c[i].words]
    BY DEF Coherent, WellFormed
  <2> QED BY <2>1
<1>4. \A i, j \in DOMAIN c : i # j => Vocabulary(c[i]) \cap Vocabulary(c[j]) = {}
  <2>1. Vocabulary(c[id]) = {label} \cup words
    BY DEF Vocabulary
  <2>2. \A i \in DOMAIN p.concepts : c[i] = p.concepts[i]
    OBVIOUS
  <2> HIDE DEF c
  <2>3. DOMAIN c = DOMAIN p.concepts \cup {id}
    BY DEF c
  <2> QED BY <1>2, <2>1, <2>2, <2>3 DEF Coherent, Disjoint
<1>5. \A r \in Rows : p.rows[r].concept \in DOMAIN c \cup {NoConcept}
  BY DEF Coherent, Linked
<1>6. p.rows = [r \in Rows |-> [word |-> p.rows[r].word, concept |-> p.rows[r].concept]]
  BY DEF Coherent, WellFormed
<1>7. DOMAIN c = DOMAIN p.concepts \cup {id}
  OBVIOUS
<1> HIDE DEF c
<1>8. Coherent(Pantry(p.revision + 1, c, p.rows))
  BY <1>3, <1>4, <1>5, <1>6, Built
<1> QED BY <1>1, <1>7, <1>8 DEF Pantry

\* A concept is given another vocabulary no other concept shares.
LEMMA Reworded ==
  ASSUME NEW p, Coherent(p), NEW n, NEW id \in DOMAIN p.concepts, NEW label, NEW words,
         \A i \in DOMAIN p.concepts \ {id} : Vocabulary(p.concepts[i]) \cap ({label} \cup words) = {}
  PROVE  Coherent(Pantry(n, [p.concepts EXCEPT ![id] = [label |-> label, words |-> words]], p.rows))
<1> DEFINE c == [p.concepts EXCEPT ![id] = [label |-> label, words |-> words]]
<1>1. DOMAIN c = DOMAIN p.concepts /\ c[id] = [label |-> label, words |-> words]
  OBVIOUS
<1>2. \A i \in DOMAIN p.concepts \ {id} : c[i] = p.concepts[i]
  OBVIOUS
<1>3. c = [i \in DOMAIN c |-> [label |-> c[i].label, words |-> c[i].words]]
  <2>1. \A i \in DOMAIN c : c[i] = [label |-> c[i].label, words |-> c[i].words]
    BY DEF Coherent, WellFormed
  <2> QED BY <2>1
<1> HIDE DEF c
<1>4. \A i, j \in DOMAIN c : i # j => Vocabulary(c[i]) \cap Vocabulary(c[j]) = {}
  <2>1. Vocabulary(c[id]) = {label} \cup words
    BY <1>1 DEF Vocabulary
  <2> QED BY <1>1, <1>2, <2>1 DEF Coherent, Disjoint
<1>5. /\ \A r \in Rows : p.rows[r].concept \in DOMAIN c \cup {NoConcept}
      /\ p.rows = [r \in Rows |-> [word |-> p.rows[r].word, concept |-> p.rows[r].concept]]
  BY <1>1 DEF Coherent, Linked, WellFormed
<1>6. Coherent(Pantry(n, c, p.rows))
  BY <1>3, <1>4, <1>5, Built
<1> QED BY <1>6 DEF c

\* A row is given another word or link.
LEMMA Relinked ==
  ASSUME NEW p, Coherent(p), NEW q, NEW r, NEW x,
         x.concept \in DOMAIN p.concepts \cup {NoConcept},
         r \in Rows => x = [word |-> x.word, concept |-> x.concept],
         q = [p EXCEPT !.rows[r] = x]
  PROVE  Coherent(q) /\ DOMAIN q.concepts = DOMAIN p.concepts
<1> DEFINE l == [p.rows EXCEPT ![r] = x]
<1>1. q = Pantry(p.revision, p.concepts, l)
  BY DEF Pantry, Coherent, WellFormed
<1>2. \A s \in Rows : /\ l[s] = IF s = r THEN x ELSE p.rows[s]
                      /\ l[s] = [word |-> l[s].word, concept |-> l[s].concept]
  BY DEF Coherent, WellFormed
<1>3. l = [s \in Rows |-> [word |-> l[s].word, concept |-> l[s].concept]]
  <2>1. DOMAIN l = Rows /\ l = [s \in Rows |-> l[s]]
    BY DEF Coherent, WellFormed
  <2> HIDE DEF l
  <2> QED BY <1>2, <2>1
<1> HIDE DEF l
<1>4. \A s \in Rows : l[s].concept \in DOMAIN p.concepts \cup {NoConcept}
  BY <1>2 DEF Coherent, Linked
<1>5. /\ p.concepts = [i \in DOMAIN p.concepts |->
                         [label |-> p.concepts[i].label, words |-> p.concepts[i].words]]
      /\ \A i, j \in DOMAIN p.concepts : i # j => Vocabulary(p.concepts[i]) \cap Vocabulary(p.concepts[j]) = {}
  BY DEF Coherent, WellFormed, Disjoint
<1>6. Coherent(Pantry(p.revision, p.concepts, l))
  BY <1>3, <1>4, <1>5, Built
<1> QED BY <1>1, <1>6 DEF Pantry

\* A decision that is allowed keeps the catalogue coherent.
LEMMA DecisionLands ==
  ASSUME NEW p, Coherent(p), NEW r, NEW decision, NEW id, Decidable(p, r, decision, id)
  PROVE  Coherent(Decide(p, r, decision, id))
<1>1. CASE decision = "create"
  <2> DEFINE q == CreateIn(p, id, p.rows[r].word, {})
             x == [q.rows[r] EXCEPT !.concept = id]
  <2>1. Coherent(q) /\ DOMAIN q.concepts = DOMAIN p.concepts \cup {id}
    <3>1. id \notin DOMAIN p.concepts /\ Owners(p, {p.rows[r].word} \cup {}) = {}
      BY <1>1 DEF Decidable, Named
    <3> QED BY <3>1, Created
  <2>2. Decide(p, r, decision, id) = [q EXCEPT !.rows[r].concept = id]
    BY <1>1 DEF Decide
  <2> HIDE DEF q
  <2>3. r \in Rows => x = [word |-> q.rows[r].word, concept |-> id]
    BY <2>1 DEF Coherent, WellFormed
  <2>4. [q EXCEPT !.rows[r].concept = id] = [q EXCEPT !.rows[r] = x]
    OBVIOUS
  <2>5. CASE r \in Rows
    <3> DEFINE y == [word |-> q.rows[r].word, concept |-> id]
    <3>1. y.concept \in DOMAIN q.concepts \cup {NoConcept} /\ y = [word |-> y.word, concept |-> y.concept]
      BY <2>1
    <3>2. Decide(p, r, decision, id) = [q EXCEPT !.rows[r] = y]
      BY <2>2, <2>3, <2>4, <2>5
    <3> HIDE DEF y
    <3> QED BY <2>1, <3>1, <3>2, Relinked
  <2>6. CASE r \notin Rows
    <3>1. q.rows = [s \in Rows |-> q.rows[s]]
      BY <2>1 DEF Coherent, WellFormed
    <3>2. [q.rows EXCEPT ![r].concept = id] = q.rows
      BY <2>6, <3>1
    <3>3. [q EXCEPT !.rows[r].concept = id] = q
      BY <2>1, <3>2 DEF Coherent, WellFormed
    <3> QED BY <2>1, <2>2, <3>3
  <2> QED BY <2>5, <2>6
<1>2. CASE decision # "create"
  <2>1. Decide(p, r, decision, id) = [p EXCEPT !.rows[r].concept = decision]
    BY <1>2 DEF Decide
  <2>2. decision \in DOMAIN p.concepts \cup {NoConcept}
    BY <1>2 DEF Decidable
  <2>3. CASE r \in Rows
    <3> DEFINE y == [word |-> p.rows[r].word, concept |-> decision]
    <3>1. y.concept \in DOMAIN p.concepts \cup {NoConcept} /\ y = [word |-> y.word, concept |-> y.concept]
      BY <2>2
    <3>2. [p.rows[r] EXCEPT !.concept = decision] = y
      BY <2>3 DEF Coherent, WellFormed
    <3>3. Decide(p, r, decision, id) = [p EXCEPT !.rows[r] = y]
      BY <2>1, <3>2
    <3> HIDE DEF y
    <3> QED BY <3>1, <3>3, Relinked
  <2>4. CASE r \notin Rows
    BY <2>1, <2>4 DEF Coherent, WellFormed
  <2> QED BY <2>3, <2>4
<1> QED BY <1>1, <1>2

-----------------------------------------------------------------------------
(* A batch, decision by decision: the least number of decisions after       *)
(* which something does not hold is no number.                              *)

LEMMA LeastNat ==
  ASSUME NEW T \in SUBSET Nat, T # {}
  PROVE  \E x \in T : \A y \in T : x <= y
<1>1. PICK x \in T : \A y \in T : <<y, x>> \notin OpToRel(<, Nat)
  BY NatLessThanWellFounded, WFMin
<1>2. \A y \in T : x \in Nat /\ y \in Nat
  OBVIOUS
<1>3. \A y \in T : ~(y < x)
  BY <1>1, <1>2 DEF OpToRel
<1> QED BY <1>2, <1>3

\* What the catalogue is after each of the first n decisions.
After(n, decisions, ids, g) ==
  g = [k \in 0 .. n |-> IF k = 0 THEN pantry
                        ELSE Decide(g[k - 1], review.batch[k][1], decisions[k], ids[k])]

LEMMA AfterExists ==
  ASSUME NEW decisions, NEW ids, NEW n \in Nat
  PROVE  \E g : After(n, decisions, ids, g)
<1> DEFINE T == {m \in Nat : ~\E g : After(m, decisions, ids, g)}
<1> SUFFICES ASSUME T # {} PROVE FALSE
  OBVIOUS
<1>1. PICK m \in T : \A y \in T : m <= y
  BY LeastNat
<1>2. m \in Nat
  OBVIOUS
<1>3. m # 0
  <2>1. ASSUME m = 0 PROVE FALSE
    <3> DEFINE g == [k \in 0 .. m |-> pantry]
    <3>1. After(m, decisions, ids, g)
      BY <2>1 DEF After
    <3> HIDE DEF g
    <3> QED BY <3>1
  <2> QED BY <2>1
<1>4. m - 1 \in Nat /\ m - 1 \notin T
  BY <1>1, <1>2, <1>3
<1>5. PICK h : After(m - 1, decisions, ids, h)
  BY <1>4
<1> DEFINE last == Decide(h[m - 1], review.batch[m][1], decisions[m], ids[m])
           g == [k \in 0 .. m |-> IF k = m THEN last ELSE h[k]]
<1>6. /\ h[0] = pantry
      /\ \A k \in 1 .. m - 1 : h[k] = Decide(h[k - 1], review.batch[k][1], decisions[k], ids[k])
  <2>1. 0 \in 0 .. m - 1 /\ \A k \in 1 .. m - 1 : k \in 0 .. m - 1 /\ k # 0
    BY <1>2, <1>3
  <2> QED BY <1>5, <2>1 DEF After
<1>7. /\ g[m] = last
      /\ \A k \in 0 .. m - 1 : g[k] = h[k]
      /\ g = [k \in 0 .. m |-> g[k]]
  BY <1>2, <1>3
<1> HIDE DEF last, g
<1>8. \A k \in 0 .. m : g[k] = IF k = 0 THEN pantry
                               ELSE Decide(g[k - 1], review.batch[k][1], decisions[k], ids[k])
  <2> SUFFICES ASSUME NEW k \in 0 .. m
               PROVE  g[k] = IF k = 0 THEN pantry
                             ELSE Decide(g[k - 1], review.batch[k][1], decisions[k], ids[k])
    OBVIOUS
  <2>1. CASE k = 0
    <3>1. 0 \in 0 .. m - 1
      BY <1>2, <1>3
    <3> QED BY <1>6, <1>7, <2>1, <3>1
  <2>2. CASE k = m
    <3>1. m - 1 \in 0 .. m - 1
      BY <1>2, <1>3
    <3> QED BY <1>3, <1>7, <2>2, <3>1 DEF last
  <2>3. CASE k \in 1 .. m - 1
    <3>1. k - 1 \in 0 .. m - 1 /\ k \in 0 .. m - 1 /\ k # 0
      BY <1>2, <2>3
    <3> QED BY <1>6, <1>7, <2>3, <3>1
  <2> QED BY <1>2, <2>1, <2>2, <2>3
<1> QED BY <1>7, <1>8 DEF After

LEMMA DecisionsLand ==
  ASSUME NEW decisions, NEW ids,
         Len(review.batch) \in Nat, DOMAIN review.batch = 1 .. Len(review.batch),
         Coherent(pantry), BatchAllowed(decisions, ids)
  PROVE  Coherent(Batch(decisions, ids))
<1> DEFINE n == Len(review.batch)
           g == AfterDecisions(decisions, ids)
<1>1. n \in Nat /\ DOMAIN review.batch = 1 .. n
  OBVIOUS
<1>2. g = [k \in 0 .. n |-> IF k = 0 THEN pantry
                            ELSE Decide(g[k - 1], review.batch[k][1], decisions[k], ids[k])]
  <2>1. \E h : h = [k \in 0 .. n |-> IF k = 0 THEN pantry
                                     ELSE Decide(h[k - 1], review.batch[k][1], decisions[k], ids[k])]
    <3> HIDE DEF n
    <3>1. \E h : After(n, decisions, ids, h)
      BY <1>1, AfterExists
    <3> QED BY <3>1, Zenon DEF After
  <2>2. g = CHOOSE h : h = [k \in 0 .. n |-> IF k = 0 THEN pantry
                                     ELSE Decide(h[k - 1], review.batch[k][1], decisions[k], ids[k])]
    BY DEF AfterDecisions
  <2> HIDE DEF g, n
  <2> QED BY <2>1, <2>2, Zenon
<1>3. \A k \in 1 .. n : Decidable(g[k - 1], review.batch[k][1], decisions[k], ids[k])
  BY <1>1 DEF BatchAllowed
<1>4. Batch(decisions, ids) = g[n]
  BY DEF Batch
<1> HIDE DEF g, n
<1> DEFINE T == {k \in 0 .. n : ~Coherent(g[k])}
<1>5. ASSUME T # {} PROVE FALSE
  <2>0. T \in SUBSET Nat
    BY <1>1
  <2>1. PICK k \in T : \A y \in T : k <= y
    <3> HIDE DEF T
    <3> QED BY <1>5, <2>0, LeastNat
  <2>2. k \in 0 .. n /\ ~Coherent(g[k])
    OBVIOUS
  <2>3. k # 0
    BY <1>1, <1>2, <2>2
  <2>4. k \in 1 .. n /\ k - 1 \in 0 .. n /\ k - 1 \notin T
    BY <1>1, <2>1, <2>2, <2>3
  <2>5. g[k] = Decide(g[k - 1], review.batch[k][1], decisions[k], ids[k])
    BY <1>2, <2>2, <2>3
  <2>6. Coherent(g[k - 1])
    BY <2>4
  <2>7. Decidable(g[k - 1], review.batch[k][1], decisions[k], ids[k])
    BY <1>3, <2>4
  <2> QED BY <2>2, <2>5, <2>6, <2>7, DecisionLands
<1> QED BY <1>1, <1>4, <1>5

\* What is previewed is the first of the queue.
Queued(r) ==
  /\ r.queue \in Seq(Rows) /\ Len(r.batch) \in 0 .. Len(r.queue)
  /\ DOMAIN r.batch = 1 .. Len(r.batch)

LEMMA PreviewQueued ==
  ASSUME NEW queue \in Seq(Rows), NEW p, NEW v, NEW asked
  PROVE  Queued(Preview(queue, p, v, asked))
<1>1. CASE queue = <<>> \/ asked # v
  <2>1. /\ Preview(queue, p, v, asked).queue = queue
        /\ Preview(queue, p, v, asked).batch = <<>>
    BY <1>1 DEF Preview, NoReview
  <2> QED BY <2>1 DEF Queued
<1>2. CASE ~(queue = <<>> \/ asked # v)
  <2> DEFINE size == IF Len(queue) < MaxReviewed THEN Len(queue) ELSE MaxReviewed
             batch == [k \in 1 .. size |-> <<queue[k], p.rows[queue[k]].word>>]
  <2>1. /\ Preview(queue, p, v, asked).queue = queue
        /\ Preview(queue, p, v, asked).batch = batch
    BY <1>2 DEF Preview
  <2>2. size \in 0 .. Len(queue)
    BY CatalogueAssumption
  <2> HIDE DEF size
  <2>3. size \in Nat /\ batch \in [1 .. size -> {batch[k] : k \in 1 .. size}]
    BY <2>2
  <2>4. batch \in Seq({batch[k] : k \in 1 .. size})
    <3> HIDE DEF batch
    <3> QED BY <2>3
  <2>5. DOMAIN batch = 1 .. size
    OBVIOUS
  <2>6. Len(batch) = size
    BY <2>2, <2>4, <2>5
  <2> HIDE DEF batch
  <2> QED BY <2>1, <2>2, <2>5, <2>6 DEF Queued
<1> QED BY <1>1, <1>2

\* What an undo brings back is as coherent as what there is.
CatalogueInv ==
  /\ Coherent(pantry)
  /\ basis # NoBasis => Coherent(basis)
  /\ Queued(review)

LEMMA CatalogueStarts == CatalogueInit => CatalogueInv
<1> SUFFICES ASSUME CatalogueInit PROVE CatalogueInv
  OBVIOUS
<1> DEFINE id == CHOOSE i \in ConceptIds : TRUE
           word == CHOOSE w \in Names : TRUE
           row == CHOOSE r \in Rows : TRUE
           other == CHOOSE w \in Names : w # word
           named(r) == IF r = row THEN other ELSE "none"
<1>1. /\ pantry = [revision |-> 1, concepts |-> NewConcept(id, word, {}),
                   rows |-> [r \in Rows |-> [word |-> named(r), concept |-> NoConcept]]]
      /\ basis = NoBasis /\ review = NoReview
  BY DEF CatalogueInit
<1> HIDE DEF id, word, named
<1>2. Coherent(pantry)
  <2> DEFINE c == NewConcept(id, word, {})
             l == [r \in Rows |-> [word |-> named(r), concept |-> NoConcept]]
  <2>1. /\ DOMAIN c = {id} /\ c = [i \in DOMAIN c |-> [label |-> c[i].label, words |-> c[i].words]]
    BY DEF NewConcept
  <2>2. /\ l = [r \in Rows |-> [word |-> l[r].word, concept |-> l[r].concept]]
        /\ \A r \in Rows : l[r].concept = NoConcept
    OBVIOUS
  <2>3. pantry = Pantry(1, c, l)
    BY <1>1 DEF Pantry
  <2> HIDE DEF c, l
  <2> QED BY <2>1, <2>2, <2>3, Built
<1>3. Queued(review)
  BY <1>1 DEF Queued, NoReview
<1> QED BY <1>1, <1>2, <1>3 DEF CatalogueInv

LEMMA ChangeKeepsCatalogue ==
  ASSUME CatalogueInv, NEW p, Change(p), Coherent(p)
  PROVE  CatalogueInv'
BY DEF Change, Commit, CatalogueInv

\* Words nobody but a concept owns may become its own.
LEMMA CreateKeeps ==
  ASSUME CatalogueInv, NEW id, NEW w, NEW words, CreateIngredientConcept(id, w, words)
  PROVE  CatalogueInv'
<1>1. id \notin DOMAIN pantry.concepts /\ Owners(pantry, {w} \cup words) = {}
      /\ Change(CreateIn(pantry, id, w, words)) /\ Coherent(pantry)
  BY DEF CreateIngredientConcept, Concepts, CatalogueInv
<1> QED BY <1>1, Created, ChangeKeepsCatalogue

LEMMA WordsKeep ==
  ASSUME CatalogueInv, NEW id \in Concepts, NEW words, AddIngredientVocabulary(id, words)
  PROVE  CatalogueInv'
<1> DEFINE old == pantry.concepts[id]
           new == old.words \cup (words \ Vocabulary(old))
           q == [pantry EXCEPT !.revision = @ + 1, !.concepts[id].words = @ \cup (words \ Vocabulary(pantry.concepts[id]))]
<1>1. Owners(pantry, words) \subseteq {id} /\ Change(q) /\ Coherent(pantry)
  BY DEF AddIngredientVocabulary, CatalogueInv
<1>2. old = [label |-> old.label, words |-> old.words] /\ id \in DOMAIN pantry.concepts
  BY <1>1 DEF Coherent, WellFormed, Concepts
<1>3. q = Pantry(pantry.revision + 1,
                 [pantry.concepts EXCEPT ![id] = [label |-> old.label, words |-> new]], pantry.rows)
  <2>1. [old EXCEPT !.words = new] = [label |-> old.label, words |-> new]
    BY <1>2
  <2>2. q = [pantry EXCEPT !.revision = pantry.revision + 1,
                           !.concepts = [pantry.concepts EXCEPT ![id] = [old EXCEPT !.words = new]]]
    OBVIOUS
  <2>3. pantry = [revision |-> pantry.revision, concepts |-> pantry.concepts, rows |-> pantry.rows]
    BY <1>1 DEF Coherent, WellFormed
  <2> HIDE DEF q, new, old
  <2> QED BY <2>1, <2>2, <2>3 DEF Pantry
<1>4. \A i \in DOMAIN pantry.concepts \ {id} :
         Vocabulary(pantry.concepts[i]) \cap ({old.label} \cup new) = {}
  <2> SUFFICES ASSUME NEW i \in DOMAIN pantry.concepts, i # id
               PROVE  Vocabulary(pantry.concepts[i]) \cap ({old.label} \cup new) = {}
    OBVIOUS
  <2>1. Vocabulary(pantry.concepts[i]) \cap Vocabulary(old) = {}
    BY <1>1, <1>2 DEF Coherent, Disjoint
  <2>2. Vocabulary(pantry.concepts[i]) \cap words = {}
    BY <1>1, Owned
  <2> QED BY <2>1, <2>2 DEF Vocabulary
<1> HIDE DEF new, old, q
<1>5. Coherent(q)
  BY <1>1, <1>2, <1>3, <1>4, Reworded
<1> QED BY <1>1, <1>5, ChangeKeepsCatalogue

LEMMA RenameKeeps ==
  ASSUME CatalogueInv, NEW id \in Concepts, NEW label, RenameIngredientConcept(id, label)
  PROVE  CatalogueInv'
<1> DEFINE old == pantry.concepts[id]
           q == [pantry EXCEPT !.revision = @ + 1,
                               !.concepts[id] = [label |-> label, words |-> old.words \cup {old.label}]]
<1>1. Owners(pantry, {label}) \subseteq {id} /\ Change(q) /\ Coherent(pantry) /\ id \in DOMAIN pantry.concepts
  BY DEF RenameIngredientConcept, CatalogueInv, Concepts
<1>2. q = Pantry(pantry.revision + 1,
                 [pantry.concepts EXCEPT ![id] = [label |-> label, words |-> old.words \cup {old.label}]], pantry.rows)
  <2>1. pantry = [revision |-> pantry.revision, concepts |-> pantry.concepts, rows |-> pantry.rows]
    BY <1>1 DEF Coherent, WellFormed
  <2>2. q = [pantry EXCEPT !.revision = pantry.revision + 1,
               !.concepts = [pantry.concepts EXCEPT ![id] = [label |-> label, words |-> old.words \cup {old.label}]]]
    OBVIOUS
  <2> HIDE DEF q, old
  <2> QED BY <2>1, <2>2 DEF Pantry
<1>3. \A i \in DOMAIN pantry.concepts \ {id} :
         Vocabulary(pantry.concepts[i]) \cap ({label} \cup (old.words \cup {old.label})) = {}
  <2> SUFFICES ASSUME NEW i \in DOMAIN pantry.concepts, i # id
               PROVE  Vocabulary(pantry.concepts[i]) \cap ({label} \cup (old.words \cup {old.label})) = {}
    OBVIOUS
  <2>1. Vocabulary(pantry.concepts[i]) \cap Vocabulary(old) = {}
    BY <1>1 DEF Coherent, Disjoint
  <2>2. Vocabulary(pantry.concepts[i]) \cap {label} = {}
    BY <1>1, Owned
  <2> QED BY <2>1, <2>2 DEF Vocabulary
<1> HIDE DEF old, q
<1>4. Coherent(q)
  BY <1>1, <1>2, <1>3, Reworded
<1> QED BY <1>1, <1>4, ChangeKeepsCatalogue

\* The survivor takes words of the merged alone, and their rows.
LEMMA MergeKeeps ==
  ASSUME CatalogueInv, NEW survivor \in Concepts, NEW merged \in SUBSET Concepts, NEW accepted, NEW policy,
         MergeIngredientConcepts(survivor, merged, accepted, policy)
  PROVE  CatalogueInv'
<1> DEFINE old == pantry.concepts[survivor]
           new == UNION {Vocabulary(pantry.concepts[id]) : id \in merged} \ Vocabulary(old)
           c == [id \in Concepts \ merged |->
                   IF id = survivor THEN [pantry.concepts[id] EXCEPT !.words = @ \cup accepted]
                   ELSE pantry.concepts[id]]
           l == [r \in Rows |-> IF pantry.rows[r].concept \in merged
                                THEN [pantry.rows[r] EXCEPT !.concept = survivor] ELSE pantry.rows[r]]
           q == Pantry(pantry.revision + 1, c, l)
<1>1. survivor \notin merged /\ accepted \subseteq new /\ Change(q) /\ Coherent(pantry)
  BY DEF MergeIngredientConcepts, CatalogueInv, Pantry
<1>2. survivor \in DOMAIN pantry.concepts /\ merged \subseteq DOMAIN pantry.concepts
  BY DEF Concepts
<1>3. DOMAIN c = DOMAIN pantry.concepts \ merged /\ survivor \in DOMAIN c
  BY <1>1, <1>2 DEF Concepts
<1>4. \A i \in DOMAIN pantry.concepts :
         pantry.concepts[i] = [label |-> pantry.concepts[i].label, words |-> pantry.concepts[i].words]
  BY <1>1 DEF Coherent, WellFormed
<1>5. /\ c[survivor] = [label |-> old.label, words |-> old.words \cup accepted]
      /\ \A i \in DOMAIN c \ {survivor} : c[i] = pantry.concepts[i]
  <2>1. [old EXCEPT !.words = @ \cup accepted] = [label |-> old.label, words |-> old.words \cup accepted]
    <3>1. old = [label |-> old.label, words |-> old.words]
      BY <1>2, <1>4
    <3> DEFINE both == old.words \cup accepted
    <3> HIDE DEF old, both
    <3>2. [old EXCEPT !.words = both] = [label |-> old.label, words |-> both]
      BY <3>1
    <3> QED BY <3>2 DEF both
  <2>2. c[survivor] = [old EXCEPT !.words = @ \cup accepted]
    BY <1>3
  <2>3. \A i \in DOMAIN c \ {survivor} : c[i] = pantry.concepts[i]
    OBVIOUS
  <2> HIDE DEF c, old
  <2> QED BY <2>1, <2>2, <2>3
<1>6. c = [i \in DOMAIN c |-> [label |-> c[i].label, words |-> c[i].words]]
  <2>1. \A i \in DOMAIN c : c[i] = [label |-> c[i].label, words |-> c[i].words]
    BY <1>3, <1>4, <1>5
  <2>2. c = [i \in DOMAIN c |-> c[i]]
    OBVIOUS
  <2> HIDE DEF c
  <2> QED BY <2>1, <2>2
<1>7. \A i, j \in DOMAIN c : i # j => Vocabulary(c[i]) \cap Vocabulary(c[j]) = {}
  <2> HIDE DEF c, old
  <2>1. \A i, j \in DOMAIN c : i # j => Vocabulary(pantry.concepts[i]) \cap Vocabulary(pantry.concepts[j]) = {}
    BY <1>1, <1>3 DEF Coherent, Disjoint
  <2>2. \A i \in DOMAIN c \ {survivor} : Vocabulary(pantry.concepts[i]) \cap Vocabulary(old) = {}
    BY <1>3, <2>1 DEF old
  <2>3. \A i \in DOMAIN c, id \in merged : Vocabulary(pantry.concepts[i]) \cap Vocabulary(pantry.concepts[id]) = {}
    BY <1>1, <1>2, <1>3 DEF Coherent, Disjoint
  <2>4. \A i \in DOMAIN c : Vocabulary(pantry.concepts[i]) \cap accepted = {}
    BY <1>1, <2>3
  <2>5. Vocabulary(c[survivor]) = Vocabulary(old) \cup accepted
    BY <1>5 DEF Vocabulary
  <2>6. \A i \in DOMAIN c \ {survivor} : Vocabulary(c[i]) \cap Vocabulary(c[survivor]) = {}
    BY <1>5, <2>2, <2>4, <2>5
  <2> QED BY <1>5, <2>1, <2>6
<1>8. \A r \in Rows : l[r] = [word |-> pantry.rows[r].word,
                              concept |-> IF pantry.rows[r].concept \in merged THEN survivor
                                          ELSE pantry.rows[r].concept]
  BY <1>1 DEF Coherent, WellFormed
<1>9. l = [r \in Rows |-> [word |-> l[r].word, concept |-> l[r].concept]]
  <2>1. \A r \in Rows : l[r] = [word |-> l[r].word, concept |-> l[r].concept]
    BY <1>8
  <2>2. l = [r \in Rows |-> l[r]]
    OBVIOUS
  <2> HIDE DEF l
  <2> QED BY <2>1, <2>2
<1>10. \A r \in Rows : l[r].concept \in DOMAIN c \cup {NoConcept}
  <2> SUFFICES ASSUME NEW r \in Rows PROVE l[r].concept \in DOMAIN c \cup {NoConcept}
    OBVIOUS
  <2>1. pantry.rows[r].concept \in DOMAIN pantry.concepts \cup {NoConcept}
    BY <1>1 DEF Coherent, Linked
  <2>2. l[r].concept = IF pantry.rows[r].concept \in merged THEN survivor ELSE pantry.rows[r].concept
    BY <1>8
  <2> HIDE DEF c, l
  <2> QED BY <1>3, <2>1, <2>2
<1> HIDE DEF c, l
<1>11. Coherent(q)
  BY <1>6, <1>7, <1>9, <1>10, Built
<1> HIDE DEF q
<1> QED BY <1>1, <1>11, ChangeKeepsCatalogue

LEMMA RowsKeep ==
  ASSUME CatalogueInv, NEW r, NEW word, NEW link, AddRow(r, word) \/ RenameRow(r, word, link)
  PROVE  CatalogueInv'
<1> DEFINE id == IF Cardinality(Named(pantry, word)) = 1 THEN CHOOSE i \in Named(pantry, word) : TRUE
                 ELSE NoConcept
<1>1. Coherent(pantry) /\ id \in DOMAIN pantry.concepts \cup {NoConcept}
  <2>1. ASSUME Cardinality(Named(pantry, word)) = 1 PROVE Named(pantry, word) # {}
    BY <2>1, FS_EmptySet
  <2>2. Named(pantry, word) \subseteq DOMAIN pantry.concepts
    BY DEF Named, Owners
  <2> QED BY <2>1, <2>2 DEF CatalogueInv
<1>2. ASSUME NEW to \in DOMAIN pantry.concepts \cup {NoConcept},
             Change([pantry EXCEPT !.rows[r] = [word |-> word, concept |-> to]])
      PROVE  CatalogueInv'
  <2> DEFINE x == [word |-> word, concept |-> to]
             q == [pantry EXCEPT !.rows[r] = x]
  <2>1. x.concept \in DOMAIN pantry.concepts \cup {NoConcept} /\ x = [word |-> x.word, concept |-> x.concept]
    OBVIOUS
  <2>2. Change(q)
    BY <1>2
  <2>3. q = [pantry EXCEPT !.rows[r] = x]
    OBVIOUS
  <2> HIDE DEF x, q
  <2>4. Coherent(q)
    BY <1>1, <2>1, <2>3, Relinked
  <2> QED BY <2>2, <2>4, ChangeKeepsCatalogue
<1>3. CASE AddRow(r, word)
  <2>1. Change([pantry EXCEPT !.rows[r] = [word |-> word, concept |-> id]])
    BY <1>3 DEF AddRow
  <2> HIDE DEF id
  <2> QED BY <1>1, <1>2, <2>1
<1>4. CASE RenameRow(r, word, link)
  BY <1>2, <1>4 DEF RenameRow, Concepts
<1> QED BY <1>3, <1>4

\* A row that is added and decided at once.
LEMMA AddedKeeps ==
  ASSUME CatalogueInv, NEW r, NEW word, NEW decision, NEW id, AddResolvedRow(r, word, decision, id)
  PROVE  CatalogueInv'
<1> DEFINE x == [word |-> word, concept |-> NoConcept]
           added == [pantry EXCEPT !.rows[r] = x]
<1>1. Decidable(added, r, decision, id) /\ Change(Decide(added, r, decision, id))
  BY DEF AddResolvedRow
<1>2. /\ x.concept \in DOMAIN pantry.concepts \cup {NoConcept}
      /\ x = [word |-> x.word, concept |-> x.concept] /\ Coherent(pantry)
  BY DEF CatalogueInv
<1>3. added = [pantry EXCEPT !.rows[r] = x]
  OBVIOUS
<1> HIDE DEF x, added
<1>4. Coherent(added)
  BY <1>2, <1>3, Relinked
<1> QED BY <1>1, <1>4, DecisionLands, ChangeKeepsCatalogue

LEMMA ReviewKeeps ==
  ASSUME CatalogueInv, NEW decisions, NEW ids, ApplyReview(decisions, ids)
  PROVE  CatalogueInv'
<1> DEFINE p == Batch(decisions, ids)
           rest == SubSeq(review.queue, Len(review.batch) + 1, Len(review.queue))
<1>1. /\ BatchAllowed(decisions, ids) /\ pantry' = p /\ basis' = pantry
      /\ review' = Preview(rest, p, version + 1, version + 1)
  BY DEF ApplyReview, Commit
<1>2. Coherent(p)
  <2>1. Len(review.batch) \in Nat /\ DOMAIN review.batch = 1 .. Len(review.batch)
    BY DEF CatalogueInv, Queued
  <2> HIDE DEF p
  <2> QED BY <1>1, <2>1, DecisionsLand DEF CatalogueInv, p
<1>3. rest \in Seq(Rows)
  <2>1. review.queue \in Seq(Rows) /\ Len(review.batch) \in 0 .. Len(review.queue)
    BY DEF CatalogueInv, Queued
  <2>2. Len(review.queue) \in Nat /\ \A i \in 1 .. Len(review.queue) : review.queue[i] \in Rows
    BY <2>1, LenProperties
  <2>3. \A i \in Len(review.batch) + 1 .. Len(review.queue) : review.queue[i] \in Rows
    BY <2>1, <2>2
  <2>4. Len(review.batch) + 1 \in Int /\ Len(review.queue) \in Int
    BY <2>1, <2>2
  <2> QED BY <2>3, <2>4, SubSeqProperties
<1> HIDE DEF p, rest
<1> QED BY <1>1, <1>2, <1>3, PreviewQueued DEF CatalogueInv

LEMMA CatalogueSteps ==
  ASSUME CatalogueInv, [CatalogueNext]_catalogueVars
  PROVE  CatalogueInv'
<1>1. ASSUME NEW r, NEW d, NEW id, ResolveIngredientOccurrence(r, d, id) PROVE CatalogueInv'
  <2>1. Coherent(Decide(pantry, r, d, id)) /\ Change(Decide(pantry, r, d, id))
    BY <1>1, DecisionLands DEF ResolveIngredientOccurrence, CatalogueInv
  <2> QED BY <2>1, ChangeKeepsCatalogue
<1>2. ASSUME UndoNewest PROVE CatalogueInv'
  BY <1>2 DEF UndoNewest, CatalogueInv
<1>3. ASSUME NEW queue \in SetToSeqs({r \in Rows : pantry.rows[r].word # "none" /\ pantry.rows[r].concept = NoConcept}),
             StartReview(queue)
      PROVE  CatalogueInv'
  <2> DEFINE S == {r \in Rows : pantry.rows[r].word # "none" /\ pantry.rows[r].concept = NoConcept}
  <2>1. Cardinality(S) \in Nat
    <3>1. S \in SUBSET Rows /\ IsFiniteSet(Rows)
      BY CatalogueAssumption
    <3> HIDE DEF S
    <3> QED BY <3>1, FS_Subset, FS_CardinalityType
  <2>2. queue \in [1 .. Cardinality(S) -> S]
    BY DEF SetToSeqs
  <2>3. queue \in Seq(Rows)
    <3>1. S \subseteq Rows
      OBVIOUS
    <3> HIDE DEF S
    <3>2. queue \in [1 .. Cardinality(S) -> Rows]
      BY <2>2, <3>1
    <3> QED BY <2>1, <3>2
  <2> QED BY <1>3, <2>3, PreviewQueued DEF StartReview, CatalogueInv
<1>4. ASSUME ReviewConflicts PROVE CatalogueInv'
  BY <1>4, PreviewQueued DEF ReviewConflicts, CatalogueInv, Queued
<1>5. ASSUME ShowNewest \/ UNCHANGED catalogueVars PROVE CatalogueInv'
  BY <1>5 DEF ShowNewest, catalogueVars, CatalogueInv
<1> QED
  BY <1>1, <1>2, <1>3, <1>4, <1>5, CreateKeeps, WordsKeep, RenameKeeps, MergeKeeps, RowsKeep, AddedKeeps,
     ReviewKeeps
  DEF CatalogueNext

\* Two concepts that share no word are not both named by one.
LEMMA OneOwner == CatalogueInv => CatalogueCoherent
<1> SUFFICES ASSUME CatalogueInv PROVE CatalogueCoherent
  OBVIOUS
<1>1. Coherent(pantry)
  BY DEF CatalogueInv
<1>2. ASSUME NEW w \in Names
      PROVE  Cardinality({id \in Concepts : w \in Vocabulary(pantry.concepts[id])}) <= 1
  <2> DEFINE S == {id \in Concepts : w \in Vocabulary(pantry.concepts[id])}
  <2>1. \A i, j \in S : i = j
    BY <1>1 DEF Coherent, Disjoint, Concepts
  <2> HIDE DEF S
  <2>2. ASSUME S = {} PROVE Cardinality(S) = 0
    BY <2>2, FS_EmptySet
  <2>3. ASSUME S # {} PROVE Cardinality(S) = 1
    <3>1. PICK i \in S : TRUE
      BY <2>3
    <3>2. S = {i}
      BY <2>1, <3>1
    <3>3. Cardinality({i}) = 1
      BY FS_Singleton
    <3> QED BY <3>2, <3>3
  <2>4. Cardinality(S) <= 1
    BY <2>2, <2>3
  <2> QED BY <2>4 DEF S
<1>3. \A r \in Rows : pantry.rows[r].concept \in Concepts \cup {NoConcept}
  BY <1>1 DEF Coherent, Linked, Concepts
<1> QED BY <1>2, <1>3 DEF CatalogueCoherent

\* Through creations inside a batch, renames, merges and undos, no word names
\* two concepts and no row is linked to one that is gone.
THEOREM AlwaysCoherent == CatalogueSpec => []CatalogueCoherent
BY CatalogueStarts, CatalogueSteps, OneOwner, PTL DEF CatalogueSpec
-----------------------------------------------------------------------------
(* The weeks. *)

MealRecords == [id : Nat, date : Int, status : MealStatuses, protein : BOOLEAN, frozen : BOOLEAN]
LeftoverRecords ==
  [id : Nat, source : Nat, state : {"available", "assigned", "consumed"}, date : Int, meal : Int,
   quality : Ratings \cup {""}]

WeekTyped(week) ==
  /\ week = [status |-> week.status, meals |-> week.meals, leftovers |-> week.leftovers,
             feedback |-> week.feedback, lesson |-> week.lesson]
  /\ week.meals \in Seq(MealRecords) /\ week.leftovers \in Seq(LeftoverRecords)

\* No two leftovers are of one meal; the meal is frozen as it was cooked, and
\* what is assigned is another meal the week has.
Sourced(week) ==
  /\ \A j, k \in DOMAIN week.leftovers : j # k => week.leftovers[j].source # week.leftovers[k].source
  /\ \A k \in DOMAIN week.leftovers :
       /\ \E j \in DOMAIN week.meals : week.meals[j].id = week.leftovers[k].source /\ week.meals[j].frozen
       /\ week.leftovers[k].state = "assigned" =>
            /\ week.leftovers[k].meal # week.leftovers[k].source
            /\ \E j \in DOMAIN week.meals : week.meals[j].id = week.leftovers[k].meal

Shelved(h) ==
  /\ h = [active |-> h.active, weeks |-> h.weeks]
  /\ h.weeks = [w \in WeekIds |-> h.weeks[w]]

WeeksInv ==
  /\ Shelved(household)
  /\ \A w \in WeekIds : WeekTyped(household.weeks[w]) /\ Sourced(household.weeks[w])
  /\ ValidWeeks(household)

LEMMA WeeksFacts ==
  ASSUME WeeksInv, NEW w \in WeekIds
  PROVE  LET week == household.weeks[w] IN
         /\ WeekTyped(week) /\ Sourced(week) /\ ValidMeals(w, week) /\ ValidLeftovers(w, week)
         /\ w \in Int /\ Days(w) \subseteq Int
BY WeeksAssumption DEF WeeksInv, ValidWeeks, Days

\* What becomes of one week decides what becomes of all.
LEMMA WeekFinished ==
  ASSUME WeeksInv, NEW w \in WeekIds, NEW week, UpdateWeek(w, week), WeekTyped(week),
         ValidMeals(w, week) /\ ValidLeftovers(w, week) => Sourced(week)
  PROVE  WeeksInv'
<1> DEFINE h == [household EXCEPT !.weeks[w] = week]
<1>1. CASE ValidWeeks(h)
  <2>1. household' = h
    BY <1>1 DEF UpdateWeek, FinishWeeks
  <2>2. Shelved(h) /\ h.weeks[w] = week /\ \A v \in WeekIds \ {w} : h.weeks[v] = household.weeks[v]
    BY DEF WeeksInv, Shelved
  <2> HIDE DEF h
  <2>3. Sourced(h.weeks[w])
    BY <1>1, <2>2 DEF ValidWeeks
  <2> QED BY <1>1, <2>1, <2>2, <2>3 DEF WeeksInv
<1>2. CASE ~ValidWeeks(h)
  BY <1>2 DEF UpdateWeek, FinishWeeks, WeeksInv
<1> QED BY <1>1, <1>2

\* Leftovers and meals that keep what Sourced is about.
Follows(old, new) ==
  /\ DOMAIN new.leftovers = DOMAIN old.leftovers
  /\ \A k \in DOMAIN old.leftovers :
       /\ new.leftovers[k].source = old.leftovers[k].source
       /\ new.leftovers[k].state = "assigned" =>
            old.leftovers[k].state = "assigned" /\ new.leftovers[k].meal = old.leftovers[k].meal
  /\ \A j \in DOMAIN old.meals : \E i \in DOMAIN new.meals :
       new.meals[i].id = old.meals[j].id /\ (old.meals[j].frozen => new.meals[i].frozen)

LEMMA SourcedFollows ==
  ASSUME NEW old, NEW new, Sourced(old), Follows(old, new)
  PROVE  Sourced(new)
BY DEF Sourced, Follows

\* A function on the places of a sequence is a sequence.
LEMMA StillSeq ==
  ASSUME NEW S, NEW T, NEW s \in Seq(S), NEW t, t = [k \in DOMAIN s |-> t[k]],
         \A k \in DOMAIN s : t[k] \in T
  PROVE  t \in Seq(T)
<1>1. Len(s) \in Nat /\ DOMAIN s = 1 .. Len(s)
  BY LenProperties
<1>2. t \in [1 .. Len(s) -> T]
  BY <1>1
<1> QED BY <1>1, <1>2

\* A leftover with another date, a meal with another date and mark.
Redated(l, new) == new = l \/ \E d \in Int : new = [l EXCEPT !.date = d]
Marked(m, new) ==
  \/ new = m
  \/ \E d \in Int, s \in MealStatuses, f \in BOOLEAN :
       new = [m EXCEPT !.date = d, !.status = s, !.frozen = f] /\ (m.frozen => f)

LEMMA Reassigned ==
  ASSUME NEW s \in Seq(LeftoverRecords), NEW t, t = [k \in DOMAIN s |-> t[k]],
         \A k \in DOMAIN s : Redated(s[k], t[k])
  PROVE  /\ t \in Seq(LeftoverRecords)
         /\ \A k \in DOMAIN s : /\ t[k].source = s[k].source /\ t[k].state = s[k].state
                                /\ t[k].meal = s[k].meal
<1>1. \A k \in DOMAIN s : s[k] \in LeftoverRecords
  BY LenProperties
<1>2. ASSUME NEW l \in LeftoverRecords, NEW new, Redated(l, new)
      PROVE  /\ new \in LeftoverRecords
             /\ new.source = l.source /\ new.state = l.state /\ new.meal = l.meal
  BY <1>2 DEF LeftoverRecords, Redated
<1>3. \A k \in DOMAIN s : /\ t[k] \in LeftoverRecords
                          /\ t[k].source = s[k].source /\ t[k].state = s[k].state
                          /\ t[k].meal = s[k].meal
  BY <1>1, <1>2
<1> QED BY <1>3, StillSeq

LEMMA Remarked ==
  ASSUME NEW s \in Seq(MealRecords), NEW t, t = [k \in DOMAIN s |-> t[k]],
         \A k \in DOMAIN s : Marked(s[k], t[k])
  PROVE  /\ t \in Seq(MealRecords)
         /\ \A k \in DOMAIN s : t[k].id = s[k].id /\ (s[k].frozen => t[k].frozen)
<1>1. \A k \in DOMAIN s : s[k] \in MealRecords
  BY LenProperties
<1>2. ASSUME NEW m \in MealRecords, NEW new, Marked(m, new)
      PROVE  new \in MealRecords /\ new.id = m.id /\ (m.frozen => new.frozen)
  BY <1>2 DEF MealRecords, Marked
<1>3. \A k \in DOMAIN s : t[k] \in MealRecords /\ t[k].id = s[k].id /\ (s[k].frozen => t[k].frozen)
  BY <1>1, <1>2
<1> QED BY <1>3, StillSeq

\* A week with other meals and leftovers.
Remade(week, meals, leftovers) ==
  [status |-> week.status, meals |-> meals, leftovers |-> leftovers,
   feedback |-> week.feedback, lesson |-> week.lesson]

LEMMA RemadeIs ==
  ASSUME NEW week, WeekTyped(week), NEW meals, NEW leftovers
  PROVE  /\ [week EXCEPT !.meals = meals, !.leftovers = leftovers] = Remade(week, meals, leftovers)
         /\ [week EXCEPT !.leftovers = leftovers, !.meals = meals] = Remade(week, meals, leftovers)
<1> DEFINE v == [week EXCEPT !.meals = meals]
           u == [week EXCEPT !.leftovers = leftovers]
<1>1. week = [status |-> week.status, meals |-> week.meals, leftovers |-> week.leftovers,
              feedback |-> week.feedback, lesson |-> week.lesson]
  BY DEF WeekTyped
<1>2. v = Remade(week, meals, week.leftovers) /\ u = Remade(week, week.meals, leftovers)
  BY <1>1 DEF Remade
<1>3. /\ [v EXCEPT !.leftovers = leftovers] = Remade(week, meals, leftovers)
      /\ [u EXCEPT !.meals = meals] = Remade(week, meals, leftovers)
  <2> HIDE DEF u, v
  <2> QED BY <1>2 DEF Remade
<1> QED BY <1>3

LEMMA RemadeWeek ==
  ASSUME NEW week, WeekTyped(week), NEW meals, NEW leftovers,
         meals = [k \in DOMAIN week.meals |-> meals[k]],
         \A k \in DOMAIN week.meals : Marked(week.meals[k], meals[k]),
         leftovers = [k \in DOMAIN week.leftovers |-> leftovers[k]],
         \A k \in DOMAIN week.leftovers : Redated(week.leftovers[k], leftovers[k])
  PROVE  LET new == Remade(week, meals, leftovers) IN WeekTyped(new) /\ Follows(week, new)
<1> DEFINE new == Remade(week, meals, leftovers)
<1>1. week.meals \in Seq(MealRecords) /\ week.leftovers \in Seq(LeftoverRecords)
  BY DEF WeekTyped
<1>2. meals \in Seq(MealRecords)
      /\ \A k \in DOMAIN week.meals : meals[k].id = week.meals[k].id /\ (week.meals[k].frozen => meals[k].frozen)
  BY <1>1, Remarked
<1>3. leftovers \in Seq(LeftoverRecords)
      /\ \A k \in DOMAIN week.leftovers : /\ leftovers[k].source = week.leftovers[k].source
                                          /\ leftovers[k].state = week.leftovers[k].state
                                          /\ leftovers[k].meal = week.leftovers[k].meal
  BY <1>1, Reassigned, ZenonT(60)
<1>4. new.meals = meals /\ new.leftovers = leftovers /\ WeekTyped(new)
  BY <1>2, <1>3 DEF Remade, WeekTyped
<1>5. DOMAIN meals = DOMAIN week.meals /\ DOMAIN leftovers = DOMAIN week.leftovers
  OBVIOUS
<1> HIDE DEF new
<1>6. Follows(week, new)
  BY <1>2, <1>3, <1>4, <1>5 DEF Follows
<1> QED BY <1>4, <1>6 DEF new

LEMMA WeekFollows ==
  ASSUME WeeksInv, NEW w \in WeekIds, NEW week, UpdateWeek(w, week), WeekTyped(week),
         Follows(household.weeks[w], week)
  PROVE  WeeksInv'
BY WeeksFacts, SourcedFollows, WeekFinished

LEMMA MealNamedIs ==
  ASSUME NEW week, NEW id \in MealIds(week)
  PROVE  MealNamed(week, id) \in MealsOf(week) /\ MealNamed(week, id).id = id
BY DEF MealIds, MealNamed

LEMMA MoveKeeps ==
  ASSUME WeeksInv, NEW w \in WeekIds, NEW id, NEW target \in Days(w), MoveMeal(w, id, target)
  PROVE  WeeksInv'
<1> DEFINE week == household.weeks[w]
           moving == MealNamed(week, id)
           meals == [k \in DOMAIN week.meals |-> IF week.meals[k].id = id
                       THEN [week.meals[k] EXCEPT !.date = target, !.status = "moved"] ELSE week.meals[k]]
           leftovers == [k \in DOMAIN week.leftovers |-> IF week.leftovers[k].state = "assigned"
                           THEN [week.leftovers[k] EXCEPT !.date = IF @ = moving.date THEN target ELSE @]
                           ELSE week.leftovers[k]]
<1>1. WeekTyped(week) /\ target \in Int
  BY WeeksFacts
<1>2. \A k \in DOMAIN week.meals : week.meals[k] \in MealRecords
  BY <1>1, LenProperties DEF WeekTyped
<1>3. \A k \in DOMAIN week.leftovers : week.leftovers[k] \in LeftoverRecords
  BY <1>1, LenProperties DEF WeekTyped
<1>4. UpdateWeek(w, [week EXCEPT !.leftovers = leftovers, !.meals = meals])
  BY DEF MoveMeal, Reassign
<1>5. [week EXCEPT !.leftovers = leftovers, !.meals = meals] = Remade(week, meals, leftovers)
  <2> HIDE DEF meals, leftovers, week
  <2> QED BY <1>1, RemadeIs
<1>6. \A k \in DOMAIN week.meals : Marked(week.meals[k], meals[k])
  <2> SUFFICES ASSUME NEW k \in DOMAIN week.meals PROVE Marked(week.meals[k], meals[k])
    OBVIOUS
  <2>1. meals[k] = week.meals[k]
        \/ meals[k] = [week.meals[k] EXCEPT !.date = target, !.status = "moved", !.frozen = week.meals[k].frozen]
    BY <1>2 DEF MealRecords
  <2>2. week.meals[k].frozen \in BOOLEAN /\ "moved" \in MealStatuses
    BY <1>2 DEF MealRecords, MealStatuses
  <2> HIDE DEF meals, week
  <2> QED BY <1>1, <2>1, <2>2 DEF Marked
<1>7. \A k \in DOMAIN week.leftovers : Redated(week.leftovers[k], leftovers[k])
  <2> SUFFICES ASSUME NEW k \in DOMAIN week.leftovers PROVE Redated(week.leftovers[k], leftovers[k])
    OBVIOUS
  <2> DEFINE d == IF week.leftovers[k].date = moving.date THEN target ELSE week.leftovers[k].date
  <2>1. d \in Int
    BY <1>1, <1>3 DEF LeftoverRecords
  <2>2. leftovers[k] = week.leftovers[k] \/ leftovers[k] = [week.leftovers[k] EXCEPT !.date = d]
    OBVIOUS
  <2> HIDE DEF d, leftovers
  <2> QED BY <2>1, <2>2 DEF Redated
<1>8. meals = [k \in DOMAIN week.meals |-> meals[k]] /\ leftovers = [k \in DOMAIN week.leftovers |-> leftovers[k]]
  OBVIOUS
<1> HIDE DEF meals, leftovers, week
<1>9. WeekTyped(Remade(week, meals, leftovers)) /\ Follows(week, Remade(week, meals, leftovers))
  BY <1>1, <1>6, <1>7, <1>8, RemadeWeek
<1> QED BY <1>4, <1>5, <1>9, WeekFollows DEF week

LEMMA SwapKeeps ==
  ASSUME WeeksInv, NEW w \in WeekIds, NEW first \in Days(w), NEW second \in Days(w),
         SwapMealDays(w, first, second)
  PROVE  WeeksInv'
<1> DEFINE week == household.weeks[w]
           affected == {m \in MealsOf(week) : m.date \in {first, second}}
           Swap(d) == IF d = first THEN second ELSE IF d = second THEN first ELSE d
           Status(m) == IF m \in affected /\ m.status # "flex" THEN "moved" ELSE m.status
           meals == [k \in DOMAIN week.meals |->
                       [week.meals[k] EXCEPT !.date = Swap(@), !.status = Status(week.meals[k])]]
           leftovers == [k \in DOMAIN week.leftovers |-> IF week.leftovers[k].state = "assigned"
                           THEN [week.leftovers[k] EXCEPT !.date = Swap(@)] ELSE week.leftovers[k]]
<1>1. WeekTyped(week) /\ first \in Int /\ second \in Int
  BY WeeksFacts
<1>2. \A k \in DOMAIN week.meals : week.meals[k] \in MealRecords
  BY <1>1, LenProperties DEF WeekTyped
<1>3. \A k \in DOMAIN week.leftovers : week.leftovers[k] \in LeftoverRecords
  BY <1>1, LenProperties DEF WeekTyped
<1>4. UpdateWeek(w, [week EXCEPT !.meals = meals, !.leftovers = leftovers])
  BY DEF SwapMealDays, Reassign, Redate
<1>5. [week EXCEPT !.meals = meals, !.leftovers = leftovers] = Remade(week, meals, leftovers)
  <2> HIDE DEF meals, leftovers, week
  <2> QED BY <1>1, RemadeIs
<1>6. \A k \in DOMAIN week.meals : Marked(week.meals[k], meals[k])
  <2> SUFFICES ASSUME NEW k \in DOMAIN week.meals PROVE Marked(week.meals[k], meals[k])
    OBVIOUS
  <2> DEFINE m == week.meals[k]
             d == Swap(m.date)
             mark == Status(m)
  <2>1. m \in MealRecords /\ d \in Int /\ mark \in MealStatuses /\ m.frozen \in BOOLEAN
    BY <1>1, <1>2 DEF MealRecords, MealStatuses
  <2>2. meals[k] = [m EXCEPT !.date = d, !.status = mark]
    OBVIOUS
  <2> HIDE DEF m, d, mark, meals, week
  <2>3. [m EXCEPT !.date = d, !.status = mark] = [m EXCEPT !.date = d, !.status = mark, !.frozen = m.frozen]
    BY <2>1 DEF MealRecords
  <2>4. Marked(m, meals[k])
    BY <2>1, <2>2, <2>3 DEF Marked
  <2> QED BY <2>4 DEF m
<1>7. \A k \in DOMAIN week.leftovers : Redated(week.leftovers[k], leftovers[k])
  <2> SUFFICES ASSUME NEW k \in DOMAIN week.leftovers PROVE Redated(week.leftovers[k], leftovers[k])
    OBVIOUS
  <2> DEFINE d == Swap(week.leftovers[k].date)
  <2>1. d \in Int
    BY <1>1, <1>3 DEF LeftoverRecords
  <2>2. leftovers[k] = week.leftovers[k] \/ leftovers[k] = [week.leftovers[k] EXCEPT !.date = d]
    OBVIOUS
  <2> HIDE DEF d, leftovers
  <2> QED BY <2>1, <2>2 DEF Redated
<1>8. meals = [k \in DOMAIN week.meals |-> meals[k]] /\ leftovers = [k \in DOMAIN week.leftovers |-> leftovers[k]]
  OBVIOUS
<1> HIDE DEF meals, leftovers, week
<1>9. WeekTyped(Remade(week, meals, leftovers)) /\ Follows(week, Remade(week, meals, leftovers))
  BY <1>1, <1>6, <1>7, <1>8, RemadeWeek
<1> QED BY <1>4, <1>5, <1>9, WeekFollows DEF week

\* Feedback and the lesson are none of the leftovers' business.
LEMMA NotesKeep ==
  ASSUME WeeksInv, NEW w \in WeekIds, NEW feedback, NEW lesson,
         \/ UpdateWeek(w, [household.weeks[w] EXCEPT !.feedback = feedback])
         \/ UpdateWeek(w, [household.weeks[w] EXCEPT !.lesson = lesson])
  PROVE  WeeksInv'
<1> DEFINE week == household.weeks[w]
<1>1. WeekTyped(week)
  BY WeeksFacts
<1> HIDE DEF week
<1>2. \A new : /\ new = [week EXCEPT !.feedback = feedback] \/ new = [week EXCEPT !.lesson = lesson]
               => WeekTyped(new) /\ new.meals = week.meals /\ new.leftovers = week.leftovers
  BY <1>1 DEF WeekTyped
<1>3. \A new : new.meals = week.meals /\ new.leftovers = week.leftovers => Follows(week, new)
  BY DEF Follows
<1> QED BY <1>2, <1>3, WeekFollows DEF week

\* A week has no more identifiers of meals than meals, and is left with all of
\* them by whatever gives each of its places one and no two places the same.
LEMMA MealIdsFinite ==
  ASSUME NEW week, WeekTyped(week)
  PROVE  IsFiniteSet(MealIds(week)) /\ Cardinality(MealIds(week)) <= Len(week.meals)
<1> DEFINE n == Len(week.meals)
           g == [k \in 1 .. n |-> week.meals[k].id]
           T == MealIds(week)
<1>1. n \in Nat /\ DOMAIN week.meals = 1 .. n
  BY LenProperties DEF WeekTyped
<1>2. g \in Surjection(1 .. n, T)
  <2>1. T = {week.meals[k].id : k \in 1 .. n}
    BY <1>1 DEF MealIds, MealsOf, ToSet
  <2> HIDE DEF T, n
  <2> QED BY <2>1 DEF Surjection
<1>3. IsFiniteSet(1 .. n) /\ Cardinality(1 .. n) = n
  BY <1>1, FS_Interval
<1> HIDE DEF g, T, n
<1>4. IsFiniteSet(T) /\ Cardinality(T) <= n
  BY <1>2, <1>3, FS_Surjection
<1> QED BY <1>4 DEF T, n

LEMMA AllMealsStay ==
  ASSUME NEW week, WeekTyped(week), NEW f \in [DOMAIN week.meals -> MealIds(week)],
         IsInjective(f), NEW id \in MealIds(week)
  PROVE  \E k \in DOMAIN week.meals : f[k] = id
<1> DEFINE n == Len(week.meals)
           T == MealIds(week)
           U == T \ {id}
           P == 1 .. n
<1> SUFFICES ASSUME \A k \in DOMAIN week.meals : f[k] # id PROVE FALSE
  OBVIOUS
<1>1. n \in Nat /\ DOMAIN week.meals = P
  BY LenProperties DEF WeekTyped
<1>2. IsFiniteSet(T) /\ Cardinality(T) <= n
  BY MealIdsFinite
<1>3. IsFiniteSet(P) /\ Cardinality(P) = n
  BY <1>1, FS_Interval
<1>4. f \in [P -> U]
  BY <1>1
<1> HIDE DEF T, n, P
<1>5. IsFiniteSet(U) /\ Cardinality(U) = Cardinality(T) - 1 /\ Cardinality(T) \in Nat
  BY <1>2, FS_RemoveElement, FS_CardinalityType DEF T
<1> HIDE DEF U
<1>6. Cardinality(U) < Cardinality(P)
  BY <1>1, <1>2, <1>3, <1>5
<1>7. \E x, y \in P : x # y /\ f[x] = f[y]
  BY <1>3, <1>4, <1>5, <1>6, FS_PigeonHole
<1> QED BY <1>1, <1>7 DEF IsInjective

LEMMA ReorderKeeps ==
  ASSUME WeeksInv, NEW w \in WeekIds, NEW day,
         NEW order \in [1 .. Cardinality(MealsOn(household.weeks[w], day)) -> MealsOn(household.weeks[w], day)],
         ReorderMeals(w, day, order)
  PROVE  WeeksInv'
<1> DEFINE week == household.weeks[w]
           places == {k \in DOMAIN week.meals : week.meals[k].date = day}
           Rank(k) == Cardinality({j \in places : j <= k})
           meals == [k \in DOMAIN week.meals |->
                       IF k \in places THEN MealNamed(week, order[Rank(k)]) ELSE week.meals[k]]
           new == [week EXCEPT !.meals = meals]
<1>1. /\ ToSet(order) \subseteq MealsOn(week, day) /\ Len(order) = Cardinality(places)
      /\ UpdateWeek(w, new)
  BY DEF ReorderMeals
<1>2. WeekTyped(week) /\ ValidMeals(w, week) /\ Sourced(week)
  BY WeeksFacts
<1>3. week.meals \in Seq(MealRecords) /\ Len(week.meals) \in Nat /\ DOMAIN week.meals = 1 .. Len(week.meals)
  BY <1>2, LenProperties DEF WeekTyped
<1>4. IsFiniteSet(places)
  <2>1. places \in SUBSET (1 .. Len(week.meals))
    BY <1>3
  <2>2. IsFiniteSet(1 .. Len(week.meals))
    BY <1>3, FS_Interval
  <2> HIDE DEF places
  <2> QED BY <2>1, <2>2, FS_Subset
<1>5. Len(order) \in Nat /\ DOMAIN order = 1 .. Len(order)
  <2> DEFINE S == MealsOn(week, day)
  <2>1. S \in SUBSET MealIds(week)
    BY DEF MealIds, MealsOn
  <2>2. order \in [1 .. Cardinality(S) -> S]
    OBVIOUS
  <2> HIDE DEF S, week
  <2>3. Cardinality(S) \in Nat
    BY <1>2, <2>1, MealIdsFinite, FS_Subset, FS_CardinalityType
  <2>4. order \in Seq(S)
    BY <2>2, <2>3
  <2> QED BY <2>4, LenProperties
<1>6. \A k \in places : Rank(k) \in DOMAIN order
  <2> SUFFICES ASSUME NEW k \in places PROVE Rank(k) \in 1 .. Cardinality(places)
    BY <1>1, <1>5
  <2> DEFINE S == {j \in places : j <= k}
  <2>1. S \in SUBSET places /\ k \in S
    BY <1>3
  <2> HIDE DEF S, places
  <2>2. IsFiniteSet(S) /\ Cardinality(S) <= Cardinality(places)
    BY <1>4, <2>1, FS_Subset
  <2>3. Cardinality(S) \in Nat /\ Cardinality(places) \in Nat /\ Cardinality(S) # 0
    BY <1>4, <2>1, <2>2, FS_CardinalityType, FS_EmptySet
  <2>4. Cardinality(S) \in 1 .. Cardinality(places)
    BY <2>2, <2>3
  <2> QED BY <2>4 DEF S
<1>7. ASSUME NEW k \in DOMAIN week.meals PROVE meals[k] \in MealsOf(week)
  <2>1. CASE k \in places
    <3>1. order[Rank(k)] \in ToSet(order)
      <4> HIDE DEF places
      <4> QED BY <1>6, <2>1 DEF ToSet
    <3>2. order[Rank(k)] \in MealIds(week)
      BY <1>1, <3>1 DEF MealIds, MealsOn
    <3>3. meals[k] = MealNamed(week, order[Rank(k)])
      BY <1>7, <2>1
    <3> HIDE DEF week, meals, places, Rank
    <3> QED BY <3>2, <3>3, MealNamedIs
  <2>2. CASE k \notin places
    BY <1>7, <2>2 DEF MealsOf, ToSet
  <2> QED BY <2>1, <2>2
<1>8. \A m \in MealsOf(week) : m \in MealRecords
  BY <1>3 DEF MealsOf, ToSet
<1>9. meals = [k \in DOMAIN week.meals |-> meals[k]]
  OBVIOUS
<1> HIDE DEF meals, places, Rank, week
<1>10. meals \in Seq(MealRecords)
  BY <1>3, <1>7, <1>8, <1>9, StillSeq
<1>11. WeekTyped(new) /\ new.meals = meals /\ new.leftovers = week.leftovers
  BY <1>2, <1>10 DEF WeekTyped
<1> HIDE DEF new
<1>12. ASSUME ValidMeals(w, new) PROVE Sourced(new)
  <2> DEFINE f == [k \in DOMAIN week.meals |-> meals[k].id]
  <2>1. f \in [DOMAIN week.meals -> MealIds(week)]
    BY <1>7 DEF MealIds
  <2>2. IsInjective(f)
    BY <1>9, <1>11, <1>12 DEF ValidMeals
  <2>3. ASSUME NEW j \in DOMAIN week.meals
        PROVE  \E k \in DOMAIN week.meals : meals[k].id = week.meals[j].id
    <3>1. week.meals[j].id \in MealIds(week)
      BY <2>3 DEF MealIds, MealsOf, ToSet
    <3>2. PICK k \in DOMAIN week.meals : f[k] = week.meals[j].id
      <4> HIDE DEF f
      <4> QED BY <1>2, <2>1, <2>2, <3>1, AllMealsStay
    <3> QED BY <3>2
  <2>4. \A m, n \in MealsOf(week) : m.id = n.id => m = n
    BY <1>2, <1>3 DEF ValidMeals, MealsOf, ToSet, IsInjective
  <2>5. \A j \in DOMAIN week.meals : week.meals[j] \in MealsOf(week)
    BY DEF MealsOf, ToSet
  <2>6. \A j \in DOMAIN week.meals : \E k \in DOMAIN week.meals : meals[k] = week.meals[j]
    BY <1>7, <2>3, <2>4, <2>5
  <2>7. DOMAIN new.meals = DOMAIN week.meals
    BY <1>9, <1>11
  <2>8. Follows(week, new)
    BY <1>11, <2>6, <2>7 DEF Follows
  <2> QED BY <1>2, <2>8, SourcedFollows
<1> QED BY <1>1, <1>11, <1>12, WeekFinished

\* A status that is given changes one meal, and freezes it when it is cooked.
LEMMA StatusKeeps ==
  ASSUME WeeksInv, NEW w \in WeekIds, NEW id, NEW status \in Statuses, UpdateMealStatus(w, id, status)
  PROVE  WeeksInv'
<1> DEFINE week == household.weeks[w]
           meal == MealNamed(week, id)
           cooked == status = "cooked"
           leaves == cooked /\ meal.protein /\ id \notin Tracked(week)
           leftover == [id |-> FreshId(week.leftovers), source |-> id, state |-> "available",
                        date |-> NoDay, meal |-> NoDay, quality |-> ""]
           meals == [k \in DOMAIN week.meals |-> IF week.meals[k].id = id
                       THEN [week.meals[k] EXCEPT !.status = status, !.frozen = week.meals[k].frozen \/ cooked]
                       ELSE week.meals[k]]
           leftovers == IF leaves THEN Append(week.leftovers, leftover) ELSE week.leftovers
           kept == Remade(week, meals, week.leftovers)
           new == Remade(week, meals, leftovers)
<1>1. /\ WeekTyped(week) /\ Sourced(week)
      /\ week.meals \in Seq(MealRecords) /\ week.leftovers \in Seq(LeftoverRecords)
      /\ Len(week.leftovers) \in Nat /\ DOMAIN week.leftovers = 1 .. Len(week.leftovers)
      /\ \A k \in DOMAIN week.meals : week.meals[k] \in MealRecords
  BY WeeksFacts, LenProperties DEF WeekTyped
<1>2. id \in MealIds(week) /\ UpdateWeek(w, [week EXCEPT !.meals = meals, !.leftovers = leftovers])
  <2>1. id \in MealIds(week)
    BY DEF UpdateMealStatus
  <2>2. UpdateWeek(w, [week EXCEPT !.meals = meals, !.leftovers = leftovers])
    BY Zenon DEF UpdateMealStatus
  <2> QED BY <2>1, <2>2
<1>3. [week EXCEPT !.meals = meals, !.leftovers = leftovers] = new
  <2> HIDE DEF meals, leftovers, week
  <2> QED BY <1>1, RemadeIs
<1>4. \A k \in DOMAIN week.meals : Marked(week.meals[k], meals[k])
  <2> SUFFICES ASSUME NEW k \in DOMAIN week.meals PROVE Marked(week.meals[k], meals[k])
    OBVIOUS
  <2> DEFINE m == week.meals[k]
             frozen == m.frozen \/ cooked
  <2>1. m \in MealRecords /\ status \in MealStatuses /\ frozen \in BOOLEAN /\ m.date \in Int
    BY <1>1, WeeksAssumption DEF MealRecords
  <2>2. meals[k] = m \/ meals[k] = [m EXCEPT !.status = status, !.frozen = frozen]
    OBVIOUS
  <2>3. m.frozen => frozen
    OBVIOUS
  <2> HIDE DEF m, frozen, meals, week
  <2>4. [m EXCEPT !.status = status, !.frozen = frozen]
          = [m EXCEPT !.date = m.date, !.status = status, !.frozen = frozen]
    BY <2>1 DEF MealRecords
  <2>5. Marked(m, meals[k])
    BY <2>1, <2>2, <2>3, <2>4 DEF Marked
  <2> QED BY <2>5 DEF m
<1>5. /\ meals = [k \in DOMAIN week.meals |-> meals[k]]
      /\ week.leftovers = [k \in DOMAIN week.leftovers |-> week.leftovers[k]]
  <2>1. week.leftovers \in [1 .. Len(week.leftovers) -> LeftoverRecords]
    BY <1>1, LenProperties
  <2> QED BY <2>1
<1>6. \A k \in DOMAIN week.leftovers : Redated(week.leftovers[k], week.leftovers[k])
  BY DEF Redated
<1>7. WeekTyped(kept) /\ Follows(week, kept)
  <2> HIDE DEF meals, week, kept
  <2> QED BY <1>1, <1>4, <1>5, <1>6, RemadeWeek DEF kept
<1>8. CASE ~leaves
  <2>1. new = kept
    BY <1>8
  <2> HIDE DEF meals, leftovers, week, kept, new
  <2> QED BY <1>2, <1>3, <1>7, <2>1, WeekFollows DEF week
<1>9. CASE leaves
  <2>1. Sourced(kept)
    BY <1>1, <1>7, SourcedFollows
  <2>2. PICK j \in DOMAIN week.meals : week.meals[j].id = id
    BY <1>2 DEF MealIds, MealsOf, ToSet
  <2>3. j \in DOMAIN meals /\ meals[j].id = id /\ meals[j].frozen /\ id \in Nat
    <3>1. week.meals[j] \in MealRecords /\ cooked
      BY <1>1, <1>9
    <3>2. meals[j] = [week.meals[j] EXCEPT !.status = status, !.frozen = week.meals[j].frozen \/ cooked]
      BY <2>2
    <3> HIDE DEF meals, week
    <3> QED BY <1>4, <1>5, <2>2, <3>1, <3>2 DEF MealRecords
  <2>4. leftover \in LeftoverRecords /\ leftover.source = id /\ leftover.state = "available"
    <3>0. id \in Nat
      BY <2>3
    <3> HIDE DEF week, meals
    <3>1. FreshId(week.leftovers) \in Nat /\ NoDay \in Int
      BY <1>1 DEF FreshId, NoDay
    <3> QED BY <3>0, <3>1 DEF LeftoverRecords
  <2>5. \A k \in DOMAIN week.leftovers : week.leftovers[k].source # id
    BY <1>9 DEF Tracked, ToSet
  <2> HIDE DEF meals, week, leftover, leaves
  <2>6. /\ leftovers \in Seq(LeftoverRecords) /\ DOMAIN leftovers = 1 .. Len(week.leftovers) + 1
        /\ leftovers[Len(week.leftovers) + 1] = leftover
        /\ \A k \in DOMAIN week.leftovers : leftovers[k] = week.leftovers[k]
    BY <1>1, <1>9, <2>4, AppendProperties, LenProperties
  <2>7. \A k \in DOMAIN leftovers : k \in DOMAIN week.leftovers \/ k = Len(week.leftovers) + 1
    BY <1>1, <2>6
  <2>8. kept.meals = meals /\ kept.leftovers = week.leftovers
        /\ new.meals = meals /\ new.leftovers = leftovers
    BY DEF Remade
  <2>9. WeekTyped(new)
    BY <1>7, <2>6, <2>8 DEF WeekTyped, Remade
  <2> HIDE DEF kept, new, leftovers
  <2>10. Sourced(new)
    <3>1. \A k \in DOMAIN leftovers :
            /\ \E i \in DOMAIN meals : meals[i].id = leftovers[k].source /\ meals[i].frozen
            /\ leftovers[k].state = "assigned" =>
                 /\ leftovers[k].meal # leftovers[k].source
                 /\ \E i \in DOMAIN meals : meals[i].id = leftovers[k].meal
      BY <2>1, <2>3, <2>4, <2>6, <2>7, <2>8 DEF Sourced
    <3>2. \A i, k \in DOMAIN leftovers : i # k => leftovers[i].source # leftovers[k].source
      BY <2>1, <2>4, <2>5, <2>6, <2>7, <2>8 DEF Sourced
    <3> QED BY <2>8, <3>1, <3>2 DEF Sourced
  <2> QED BY <1>2, <1>3, <2>9, <2>10, WeekFinished
<1> QED BY <1>8, <1>9

LEMMA WeekRecords ==
  ASSUME NEW week, WeekTyped(week)
  PROVE  /\ week.meals \in Seq(MealRecords) /\ week.leftovers \in Seq(LeftoverRecords)
         /\ Len(week.meals) \in Nat /\ DOMAIN week.meals = 1 .. Len(week.meals)
         /\ Len(week.leftovers) \in Nat /\ DOMAIN week.leftovers = 1 .. Len(week.leftovers)
         /\ \A k \in DOMAIN week.meals : week.meals[k] \in MealRecords
         /\ \A k \in DOMAIN week.leftovers : week.leftovers[k] \in LeftoverRecords
         /\ week.meals = [k \in DOMAIN week.meals |-> week.meals[k]]
         /\ week.leftovers = [k \in DOMAIN week.leftovers |-> week.leftovers[k]]
<1>1. week.meals \in Seq(MealRecords) /\ week.leftovers \in Seq(LeftoverRecords)
  BY DEF WeekTyped
<1>2. /\ week.meals \in [1 .. Len(week.meals) -> MealRecords]
      /\ week.leftovers \in [1 .. Len(week.leftovers) -> LeftoverRecords]
      /\ Len(week.meals) \in Nat /\ Len(week.leftovers) \in Nat
  BY <1>1, LenProperties
<1> QED BY <1>1, <1>2

\* What a leftover is rated changes nothing else of it.
LEMMA QualityKeeps ==
  ASSUME WeeksInv, NEW w \in WeekIds, NEW id, NEW quality \in Ratings, CaptureLeftoverQuality(w, id, quality)
  PROVE  WeeksInv'
<1> DEFINE week == household.weeks[w]
           leftovers == [k \in DOMAIN week.leftovers |-> IF week.leftovers[k].id = id
                           THEN [week.leftovers[k] EXCEPT !.quality = quality] ELSE week.leftovers[k]]
           new == [week EXCEPT !.leftovers = leftovers]
<1>1. WeekTyped(week)
  BY WeeksFacts
<1>2. UpdateWeek(w, new)
  BY DEF CaptureLeftoverQuality, ChangeLeftover
<1>3. ASSUME NEW k \in DOMAIN week.leftovers
      PROVE  /\ leftovers[k] \in LeftoverRecords /\ leftovers[k].source = week.leftovers[k].source
             /\ leftovers[k].state = week.leftovers[k].state /\ leftovers[k].meal = week.leftovers[k].meal
  <2>1. week.leftovers[k] \in LeftoverRecords
    BY <1>1, WeekRecords
  <2>2. leftovers[k] = week.leftovers[k] \/ leftovers[k] = [week.leftovers[k] EXCEPT !.quality = quality]
    OBVIOUS
  <2> HIDE DEF week, leftovers
  <2> QED BY <2>1, <2>2 DEF LeftoverRecords
<1>4. leftovers = [k \in DOMAIN week.leftovers |-> leftovers[k]]
  OBVIOUS
<1> HIDE DEF week, leftovers
<1>5. leftovers \in Seq(LeftoverRecords)
  BY <1>1, <1>3, <1>4, WeekRecords, StillSeq
<1>6. WeekTyped(new) /\ new.meals = week.meals /\ new.leftovers = leftovers
  BY <1>1, <1>5 DEF WeekTyped
<1> HIDE DEF new
<1>7. Follows(week, new)
  BY <1>3, <1>4, <1>6 DEF Follows
<1> QED BY <1>2, <1>6, <1>7, WeekFollows DEF week

LEMMA ConsumeKeeps ==
  ASSUME WeeksInv, NEW w \in WeekIds, NEW id, ConsumeLeftover(w, id)
  PROVE  WeeksInv'
<1> DEFINE week == household.weeks[w]
           leftover == CHOOSE l \in ToSet(week.leftovers) : l.id = id
           leftovers == [k \in DOMAIN week.leftovers |-> IF week.leftovers[k].id = id
                           THEN [week.leftovers[k] EXCEPT !.state = "consumed", !.date = NoDay, !.meal = NoDay]
                           ELSE week.leftovers[k]]
           between == [week EXCEPT !.leftovers = leftovers]
           meals == [k \in DOMAIN week.meals |->
                       IF week.meals[k].id = leftover.meal /\ week.meals[k].status = "leftover"
                       THEN [week.meals[k] EXCEPT !.status = "cooked"] ELSE week.meals[k]]
           new == [between EXCEPT !.meals = meals]
<1>1. WeekTyped(week)
  BY WeeksFacts
<1>2. between.meals = week.meals
  BY <1>1 DEF WeekTyped
<1>3. UpdateWeek(w, new)
  BY <1>2 DEF ConsumeLeftover, ChangeLeftover
<1>4. ASSUME NEW k \in DOMAIN week.leftovers
      PROVE  /\ leftovers[k] \in LeftoverRecords /\ leftovers[k].source = week.leftovers[k].source
             /\ leftovers[k].state = "assigned" =>
                  week.leftovers[k].state = "assigned" /\ leftovers[k].meal = week.leftovers[k].meal
  <2>1. week.leftovers[k] \in LeftoverRecords
    BY <1>1, WeekRecords
  <2>2. leftovers[k] = week.leftovers[k]
        \/ leftovers[k] = [week.leftovers[k] EXCEPT !.state = "consumed", !.date = NoDay, !.meal = NoDay]
    OBVIOUS
  <2> HIDE DEF week, leftovers
  <2>3. NoDay \in Int
    BY DEF NoDay
  <2> QED BY <2>1, <2>2, <2>3 DEF LeftoverRecords
<1>5. leftovers = [k \in DOMAIN week.leftovers |-> leftovers[k]] /\ meals = [k \in DOMAIN week.meals |-> meals[k]]
  OBVIOUS
<1>6. \A k \in DOMAIN week.meals : Marked(week.meals[k], meals[k])
  <2> SUFFICES ASSUME NEW k \in DOMAIN week.meals PROVE Marked(week.meals[k], meals[k])
    OBVIOUS
  <2> DEFINE m == week.meals[k]
  <2>1. m \in MealRecords
    BY <1>1, WeekRecords
  <2>2. meals[k] = m \/ meals[k] = [m EXCEPT !.status = "cooked"]
    OBVIOUS
  <2> HIDE DEF m, meals, week
  <2>3. [m EXCEPT !.status = "cooked"] = [m EXCEPT !.date = m.date, !.status = "cooked", !.frozen = m.frozen]
        /\ m.date \in Int /\ m.frozen \in BOOLEAN
    BY <2>1 DEF MealRecords
  <2>4. "cooked" \in MealStatuses
    BY DEF MealStatuses
  <2>5. Marked(m, meals[k])
    BY <2>2, <2>3, <2>4 DEF Marked
  <2> QED BY <2>5 DEF m
<1> HIDE DEF week, leftovers, meals
<1>7. leftovers \in Seq(LeftoverRecords)
  BY <1>1, <1>4, <1>5, WeekRecords, StillSeq
<1>8. /\ meals \in Seq(MealRecords)
      /\ \A k \in DOMAIN week.meals : meals[k].id = week.meals[k].id /\ (week.meals[k].frozen => meals[k].frozen)
  BY <1>1, <1>5, <1>6, WeekRecords, Remarked
<1>9. between = Remade(week, week.meals, leftovers)
  BY <1>1 DEF WeekTyped, Remade
<1> HIDE DEF between
<1>10. new = Remade(week, meals, leftovers)
  BY <1>9 DEF Remade
<1> HIDE DEF new
<1>11. WeekTyped(new) /\ new.meals = meals /\ new.leftovers = leftovers
  BY <1>7, <1>8, <1>10 DEF WeekTyped, Remade
<1>12. DOMAIN meals = DOMAIN week.meals /\ DOMAIN leftovers = DOMAIN week.leftovers
  BY <1>5
<1>13. Follows(week, new)
  BY <1>4, <1>8, <1>11, <1>12 DEF Follows
<1> QED BY <1>3, <1>11, <1>13, WeekFollows DEF week

\* The meal that is made for a leftover is a new one.
LEMMA AssignKeeps ==
  ASSUME WeeksInv, NEW w \in WeekIds, NEW id, NEW target \in Days(w), AssignLeftover(w, id, target)
  PROVE  WeeksInv'
<1> DEFINE week == household.weeks[w]
           n == Len(week.meals) + 1
           dinner == [id |-> n, date |-> target, status |-> "leftover", protein |-> FALSE, frozen |-> FALSE]
           leftovers == [k \in DOMAIN week.leftovers |-> IF week.leftovers[k].id = id
                           THEN [week.leftovers[k] EXCEPT !.state = "assigned", !.date = target, !.meal = n]
                           ELSE week.leftovers[k]]
           between == [week EXCEPT !.leftovers = leftovers]
           meals == Append(week.meals, dinner)
           new == [between EXCEPT !.meals = meals]
<1>1. WeekTyped(week) /\ Sourced(week) /\ target \in Int
  BY WeeksFacts
<1>2. between.meals = week.meals
  BY <1>1 DEF WeekTyped
<1>3. UpdateWeek(w, new)
  BY <1>2 DEF AssignLeftover, ChangeLeftover, FreshId
<1>4. n \in Nat /\ n \in Int /\ n - 1 = Len(week.meals) /\ DOMAIN week.meals = 1 .. n - 1
  BY <1>1, WeekRecords
<1>5. ASSUME NEW k \in DOMAIN week.leftovers
      PROVE  /\ leftovers[k] \in LeftoverRecords /\ leftovers[k].source = week.leftovers[k].source
             /\ leftovers[k] = week.leftovers[k] \/ leftovers[k].meal = n
  <2>1. week.leftovers[k] \in LeftoverRecords
    BY <1>1, WeekRecords
  <2>2. leftovers[k] = week.leftovers[k]
        \/ leftovers[k] = [week.leftovers[k] EXCEPT !.state = "assigned", !.date = target, !.meal = n]
    OBVIOUS
  <2> HIDE DEF week, leftovers, n
  <2> QED BY <1>1, <1>4, <2>1, <2>2 DEF LeftoverRecords
<1>6. leftovers = [k \in DOMAIN week.leftovers |-> leftovers[k]]
  OBVIOUS
<1> HIDE DEF week, leftovers, n
<1>7. leftovers \in Seq(LeftoverRecords)
  BY <1>1, <1>5, <1>6, WeekRecords, StillSeq
<1>8. dinner \in MealRecords /\ dinner.id = n
  BY <1>1, <1>4 DEF MealRecords, MealStatuses
<1> HIDE DEF dinner
<1>9. /\ meals \in Seq(MealRecords) /\ DOMAIN meals = 1 .. n /\ meals[n] = dinner
      /\ \A j \in DOMAIN week.meals : meals[j] = week.meals[j]
  <2>1. week.meals \in Seq(MealRecords) /\ Len(week.meals) + 1 = n
    BY <1>1, WeekRecords DEF n
  <2> QED BY <1>4, <1>8, <2>1, AppendProperties, LenProperties
<1> HIDE DEF meals
<1>10. between = Remade(week, week.meals, leftovers)
  BY <1>1 DEF WeekTyped, Remade
<1> HIDE DEF between
<1>11. new = Remade(week, meals, leftovers)
  BY <1>10 DEF Remade
<1> HIDE DEF new
<1>12. WeekTyped(new) /\ new.meals = meals /\ new.leftovers = leftovers
  BY <1>7, <1>9, <1>11 DEF WeekTyped, Remade
<1>13. ASSUME ValidMeals(w, new) PROVE Sourced(new)
  <2>1. \A i, j \in 1 .. n : meals[i].id = meals[j].id => i = j
    BY <1>9, <1>12, <1>13 DEF ValidMeals, IsInjective
  <2>2. n \in 1 .. n /\ \A j \in DOMAIN week.meals : j \in 1 .. n /\ j # n
    BY <1>4
  <2>3. \A j \in DOMAIN week.meals : week.meals[j].id # n
    BY <1>8, <1>9, <2>1, <2>2
  <2>4. DOMAIN leftovers = DOMAIN week.leftovers
    BY <1>6
  <2>5. ASSUME NEW k \in DOMAIN week.leftovers
        PROVE  /\ \E j \in 1 .. n : meals[j].id = leftovers[k].source /\ meals[j].frozen
               /\ leftovers[k].source # n
               /\ leftovers[k].state = "assigned" =>
                    /\ leftovers[k].meal # leftovers[k].source
                    /\ \E j \in 1 .. n : meals[j].id = leftovers[k].meal
    <3>1. PICK j \in DOMAIN week.meals : week.meals[j].id = week.leftovers[k].source /\ week.meals[j].frozen
      BY <1>1 DEF Sourced
    <3>2. CASE leftovers[k] = week.leftovers[k]
      BY <1>1, <1>9, <2>2, <2>3, <3>1, <3>2 DEF Sourced
    <3>3. CASE leftovers[k].meal = n
      BY <1>5, <1>8, <1>9, <2>2, <2>3, <3>1, <3>3
    <3> QED BY <1>5, <3>2, <3>3
  <2>6. \A i, j \in DOMAIN leftovers : i # j => leftovers[i].source # leftovers[j].source
    BY <1>1, <1>5, <2>4 DEF Sourced
  <2> QED BY <1>9, <1>12, <2>4, <2>5, <2>6 DEF Sourced
<1> QED BY <1>3, <1>12, <1>13, WeekFinished DEF week

\* A new week has its meals and nothing left over.
LEMMA PlanKeeps ==
  ASSUME WeeksInv, NEW w \in WeekIds, NEW dinners \in Plans, CreateWeekPlan(w, dinners)
  PROVE  WeeksInv'
<1> DEFINE meals == [k \in DOMAIN dinners |-> [id |-> k, date |-> w + dinners[k].day,
                       status |-> dinners[k].status, protein |-> dinners[k].protein, frozen |-> FALSE]]
           new == [NoWeek EXCEPT !.status = "planned", !.meals = meals]
<1>1. UpdateWeek(w, new)
  BY DEF CreateWeekPlan, UpdateWeek
<1>2. /\ Len(dinners) \in Nat /\ DOMAIN dinners = 1 .. Len(dinners) /\ w \in Int
      /\ \A k \in DOMAIN dinners : dinners[k] \in [day : Int, status : MealStatuses, protein : BOOLEAN]
  BY WeeksAssumption, LenProperties
<1>3. ASSUME NEW k \in DOMAIN dinners PROVE meals[k] \in MealRecords
  <2>1. k \in Nat /\ w + dinners[k].day \in Int
    BY <1>2, <1>3
  <2> QED BY <1>2, <1>3, <2>1 DEF MealRecords
<1>4. meals = [k \in DOMAIN dinners |-> meals[k]]
  OBVIOUS
<1> HIDE DEF meals
<1>5. meals \in Seq(MealRecords)
  BY <1>3, <1>4, WeeksAssumption, StillSeq
<1>6. WeekTyped(new) /\ new.leftovers = <<>>
  <2>1. new = [status |-> "planned", meals |-> meals, leftovers |-> <<>>, feedback |-> <<>>, lesson |-> ""]
    <3> DEFINE v == [NoWeek EXCEPT !.status = "planned"]
    <3>1. v = [status |-> "planned", meals |-> <<>>, leftovers |-> <<>>, feedback |-> <<>>, lesson |-> ""]
      <4> DEFINE none == <<>>
                 missing == "missing"
                 plain == ""
      <4>1. NoWeek = [status |-> missing, meals |-> none, leftovers |-> none, feedback |-> none,
                      lesson |-> plain]
        BY DEF NoWeek
      <4> HIDE DEF none, missing, plain
      <4>2. v = [status |-> "planned", meals |-> none, leftovers |-> none, feedback |-> none,
                 lesson |-> plain]
        BY <4>1
      <4> QED BY <4>2 DEF none, plain
    <3>2. new = [v EXCEPT !.meals = meals]
      OBVIOUS
    <3> HIDE DEF v, new
    <3> QED BY <3>1, <3>2
  <2>2. <<>> \in Seq(LeftoverRecords)
    OBVIOUS
  <2> HIDE DEF new
  <2> QED BY <1>5, <2>1, <2>2 DEF WeekTyped
<1> HIDE DEF new
<1>7. Sourced(new)
  BY <1>6 DEF Sourced
<1> QED BY <1>1, <1>6, <1>7, WeekFinished

\* The life of a week changes no meal and no leftover.
LEMMA LifeKeeps ==
  ASSUME WeeksInv, NEW next, FinishWeeks(next), Shelved(next),
         \A v \in WeekIds : \E status : next.weeks[v] = [household.weeks[v] EXCEPT !.status = status]
  PROVE  WeeksInv'
<1>1. ASSUME NEW v \in WeekIds PROVE WeekTyped(next.weeks[v]) /\ Sourced(next.weeks[v])
  <2> DEFINE week == household.weeks[v]
             new == next.weeks[v]
  <2>1. WeekTyped(week) /\ Sourced(week)
    BY <1>1, WeeksFacts
  <2>2. PICK status : new = [week EXCEPT !.status = status]
    BY <1>1
  <2> HIDE DEF week, new
  <2>3. WeekTyped(new) /\ new.meals = week.meals /\ new.leftovers = week.leftovers
    BY <2>1, <2>2 DEF WeekTyped
  <2>4. Sourced(new)
    BY <2>1, <2>3 DEF Sourced
  <2> QED BY <2>3, <2>4 DEF new
<1>2. CASE ValidWeeks(next)
  BY <1>1, <1>2 DEF FinishWeeks, WeeksInv
<1>3. CASE ~ValidWeeks(next)
  BY <1>3 DEF FinishWeeks, WeeksInv
<1> QED BY <1>2, <1>3

\* A week is what it is with the status it has.
LEMMA SameStatus ==
  ASSUME WeeksInv, NEW v \in WeekIds
  PROVE  household.weeks[v] = [household.weeks[v] EXCEPT !.status = household.weeks[v].status]
BY WeeksFacts DEF WeekTyped

LEMMA WeekLives ==
  ASSUME WeeksInv, NEW w \in WeekIds, NEW following \in WeekIds,
         ActivateWeek(w) \/ ArchiveWeek(w) \/ HandoffWeek(w, following)
  PROVE  WeeksInv'
<1> DEFINE h == household
<1>1. h = [active |-> h.active, weeks |-> h.weeks] /\ h.weeks = [v \in WeekIds |-> h.weeks[v]]
  BY DEF WeeksInv, Shelved
<1>2. \A v \in WeekIds : h.weeks[v] = [h.weeks[v] EXCEPT !.status = h.weeks[v].status]
  BY SameStatus
<1> HIDE DEF h
<1>3. ASSUME NEW status, NEW active
      PROVE  LET next == [h EXCEPT !.weeks[w].status = status, !.active = active]
             IN  Shelved(next) /\ \A v \in WeekIds : \E s : next.weeks[v] = [h.weeks[v] EXCEPT !.status = s]
  <2> DEFINE weeks == [h.weeks EXCEPT ![w] = [h.weeks[w] EXCEPT !.status = status]]
             next == [h EXCEPT !.weeks[w].status = status, !.active = active]
  <2>1. next.weeks = weeks /\ next = [active |-> active, weeks |-> weeks]
    <3>1. next = [[h EXCEPT !.weeks = weeks] EXCEPT !.active = active]
      OBVIOUS
    <3> HIDE DEF next, weeks
    <3> QED BY <1>1, <3>1
  <2>2. weeks = [v \in WeekIds |-> weeks[v]] /\ weeks[w] = [h.weeks[w] EXCEPT !.status = status]
        /\ \A v \in WeekIds \ {w} : weeks[v] = h.weeks[v]
    BY <1>1
  <2> HIDE DEF next, weeks
  <2>3. \A v \in WeekIds : \E s : weeks[v] = [h.weeks[v] EXCEPT !.status = s]
    BY <1>2, <2>2
  <2>4. Shelved(next)
    BY <2>1, <2>2 DEF Shelved
  <2> QED BY <2>1, <2>3, <2>4 DEF next
<1>4. CASE ActivateWeek(w)
  BY <1>3, <1>4, LifeKeeps DEF ActivateWeek, h
<1>5. CASE ArchiveWeek(w)
  BY <1>3, <1>5, LifeKeeps DEF ArchiveWeek, h
<1>6. CASE HandoffWeek(w, following)
  <2> DEFINE mid == [h.weeks EXCEPT ![w] = [h.weeks[w] EXCEPT !.status = "archived"]]
             weeks == [mid EXCEPT ![following] = [mid[following] EXCEPT !.status = "active"]]
             next == [h EXCEPT !.weeks[w].status = "archived",
                               !.weeks[following].status = "active", !.active = following]
  <2>1. FinishWeeks(next) /\ following # w
    BY <1>6 DEF HandoffWeek, h
  <2>2. next = [active |-> following, weeks |-> weeks]
    <3>1. next = [[[h EXCEPT !.weeks = mid] EXCEPT !.weeks = weeks] EXCEPT !.active = following]
      BY <1>1
    <3> HIDE DEF next, weeks, mid
    <3> QED BY <1>1, <3>1
  <2>3. /\ weeks = [v \in WeekIds |-> weeks[v]]
        /\ weeks[w] = [h.weeks[w] EXCEPT !.status = "archived"]
        /\ weeks[following] = [h.weeks[following] EXCEPT !.status = "active"]
        /\ \A v \in WeekIds \ {w, following} : weeks[v] = h.weeks[v]
    BY <1>1, <2>1
  <2> HIDE DEF next, weeks
  <2>4. Shelved(next) /\ \A v \in WeekIds : \E s : next.weeks[v] = [h.weeks[v] EXCEPT !.status = s]
    BY <1>2, <2>2, <2>3 DEF Shelved
  <2> QED BY <2>1, <2>4, LifeKeeps DEF h
<1> QED BY <1>4, <1>5, <1>6

LEMMA WeeksStart == WeeksInit => WeeksInv
<1> SUFFICES ASSUME WeeksInit PROVE WeeksInv
  OBVIOUS
<1>1. /\ household.active = NoDay /\ Shelved(household)
      /\ \A w \in WeekIds : household.weeks[w] = NoWeek
  BY DEF WeeksInit, Shelved
<1>2. WeekTyped(NoWeek) /\ Sourced(NoWeek)
  BY DEF WeekTyped, Sourced, NoWeek
<1>3. ASSUME NEW w \in WeekIds PROVE ValidMeals(w, NoWeek) /\ ValidLeftovers(w, NoWeek) /\ ValidFeedback(NoWeek)
  BY DEF ValidMeals, ValidLeftovers, ValidFeedback, NoWeek, MealsOf, ToSet, IsInjective
<1>4. {w \in WeekIds : household.weeks[w].status = "active"} = {household.active} \ {NoDay}
  <2>1. NoWeek.status # "active"
    BY DEF NoWeek
  <2>2. \A w \in WeekIds : household.weeks[w].status # "active"
    BY <1>1, <2>1
  <2> QED BY <1>1, <2>2
<1> QED BY <1>1, <1>2, <1>3, <1>4 DEF WeeksInv, ValidWeeks

\* What an undo would bring back is as sound as what there is, and has every
\* week that has ended since as it was.
GoodWeeks(h) ==
  /\ Shelved(h)
  /\ \A w \in WeekIds : WeekTyped(h.weeks[w]) /\ Sourced(h.weeks[w])
  /\ ValidWeeks(h)

Active(week) == [week EXCEPT !.status = "active"]
Ended(old, new) ==
  \A w \in WeekIds : new.weeks[w].status = "archived" =>
    old.weeks[w] = new.weeks[w] \/ old.weeks[w] = Active(new.weeks[w])

WeeksUndo == \A h \in weeksBefore : GoodWeeks(h) /\ Ended(h, household)

LEMMA WeeksCommanded ==
  ASSUME WeeksInv, WeeksNext, ~UndoWeeks
  PROVE  WeeksInv'
<1>1. PICK w \in WeekIds :
        LET week == household.weeks[w] IN
        \/ \E id \in MealIds(week), d \in Days(w) : MoveMeal(w, id, d)
        \/ \E d \in Days(w) : \E order \in [1 .. Cardinality(MealsOn(week, d)) -> MealsOn(week, d)] :
             order # <<>> /\ ReorderMeals(w, d, order)
        \/ \E c, d \in Days(w) : SwapMealDays(w, c, d)
        \/ \E id \in MealIds(week), s \in Statuses : UpdateMealStatus(w, id, s)
        \/ \E id \in MealIds(week), v \in Ratings : CaptureFeedback(w, id, v)
        \/ \E text \in Ratings \cup {""} : CaptureWeekLesson(w, text)
        \/ \E l \in ToSet(week.leftovers), v \in Ratings : CaptureLeftoverQuality(w, l.id, v)
        \/ \E l \in ToSet(week.leftovers), d \in Days(w) : AssignLeftover(w, l.id, d)
        \/ \E l \in ToSet(week.leftovers) : ConsumeLeftover(w, l.id)
        \/ \E dinners \in Plans : CreateWeekPlan(w, dinners)
        \/ ActivateWeek(w) \/ ArchiveWeek(w)
        \/ \E following \in WeekIds : HandoffWeek(w, following)
  BY Zenon DEF WeeksNext
<1>2. ASSUME NEW id, NEW v, CaptureFeedback(w, id, v) PROVE WeeksInv'
  BY <1>2, NotesKeep DEF CaptureFeedback
<1>3. ASSUME NEW text, CaptureWeekLesson(w, text) PROVE WeeksInv'
  BY <1>3, NotesKeep DEF CaptureWeekLesson
<1> QED
  BY <1>1, <1>2, <1>3, MoveKeeps, ReorderKeeps, SwapKeeps, StatusKeeps, QualityKeeps, AssignKeeps,
     ConsumeKeeps, PlanKeeps, WeekLives

LEMMA LeftoversSourced == WeeksInv => LeftoversFromOneCooking
<1> SUFFICES ASSUME WeeksInv, NEW w \in WeekIds
             PROVE  LET week == household.weeks[w] IN \A l \in ToSet(week.leftovers) :
                      /\ \A other \in ToSet(week.leftovers) : other.source = l.source => other = l
                      /\ MealNamed(week, l.source).frozen
                      /\ l.state = "assigned" =>
                           /\ l.meal \in MealIds(week) \ {l.source}
                           /\ MealNamed(week, l.source).date < l.date
  BY DEF LeftoversFromOneCooking
<1> DEFINE week == household.weeks[w]
<1>1. WeekTyped(week) /\ Sourced(week) /\ ValidMeals(w, week) /\ ValidLeftovers(w, week)
  BY WeeksFacts
<1> HIDE DEF week
<1> SUFFICES ASSUME NEW k \in DOMAIN week.leftovers
             PROVE  /\ \A j \in DOMAIN week.leftovers :
                         week.leftovers[j].source = week.leftovers[k].source => week.leftovers[j] = week.leftovers[k]
                    /\ MealNamed(week, week.leftovers[k].source).frozen
                    /\ week.leftovers[k].state = "assigned" =>
                         /\ week.leftovers[k].meal \in MealIds(week) \ {week.leftovers[k].source}
                         /\ MealNamed(week, week.leftovers[k].source).date < week.leftovers[k].date
  BY DEF ToSet, week
<1> DEFINE l == week.leftovers[k]
<1>2. \A j \in DOMAIN week.leftovers : week.leftovers[j].source = l.source => week.leftovers[j] = l
  BY <1>1 DEF Sourced
<1>3. PICK j \in DOMAIN week.meals : week.meals[j].id = l.source /\ week.meals[j].frozen
  BY <1>1 DEF Sourced
<1>4. MealNamed(week, l.source) = week.meals[j]
  <2>1. \A m, n \in MealsOf(week) : m.id = n.id => m = n
    BY <1>1 DEF ValidMeals, MealsOf, ToSet, IsInjective
  <2>2. week.meals[j] \in MealsOf(week) /\ l.source \in MealIds(week)
    BY <1>3 DEF MealIds, MealsOf, ToSet
  <2> HIDE DEF l
  <2>3. MealNamed(week, l.source) \in MealsOf(week) /\ MealNamed(week, l.source).id = l.source
    BY <2>2, MealNamedIs
  <2> QED BY <1>3, <2>1, <2>2, <2>3
<1>5. ASSUME l.state = "assigned"
      PROVE  l.meal \in MealIds(week) \ {l.source} /\ MealNamed(week, l.source).date < l.date
  <2>1. l.meal # l.source /\ l.meal \in MealIds(week)
    BY <1>1, <1>5 DEF Sourced, MealIds, MealsOf, ToSet
  <2>2. l.date > MealNamed(week, l.source).date
    BY <1>1, <1>5 DEF ValidLeftovers, ToSet
  <2>3. l.date \in Int /\ week.meals[j].date \in Int
    BY <1>1, WeekRecords DEF LeftoverRecords, MealRecords
  <2> QED BY <1>4, <2>1, <2>2, <2>3
<1> QED BY <1>2, <1>3, <1>4, <1>5

\* A week that is replaced, by one of the status it has or by a new plan.
Replaced ==
  \E w \in WeekIds : \E week :
    /\ UpdateWeek(w, week) /\ household.weeks[w].status # "archived" /\ week.status # "archived"

\* A command replaces a week or changes what becomes of one.
LEMMA WeekReplaced ==
  ASSUME WeeksInv, WeeksNext, ~UndoWeeks
  PROVE  \/ Replaced
         \/ \E w \in WeekIds : \/ ActivateWeek(w) \/ ArchiveWeek(w)
                               \/ \E following \in WeekIds : HandoffWeek(w, following)
<1> DEFINE Same(w, week) == UpdateWeek(w, week) /\ WeekWritable(w) /\ week.status = household.weeks[w].status
<1>0. \A w \in WeekIds : LET week == household.weeks[w] IN
        week = [status |-> week.status, meals |-> week.meals, leftovers |-> week.leftovers,
                feedback |-> week.feedback, lesson |-> week.lesson]
  BY DEF WeeksInv, WeekTyped
<1>1. ASSUME NEW w \in WeekIds, NEW x, NEW y
      PROVE  LET week == household.weeks[w] IN
             /\ [week EXCEPT !.meals = x].status = week.status
             /\ [week EXCEPT !.meals = x, !.leftovers = y].status = week.status
             /\ [week EXCEPT !.leftovers = y, !.meals = x].status = week.status
             /\ [week EXCEPT !.leftovers = x].status = week.status
             /\ [week EXCEPT !.feedback = x].status = week.status
             /\ [week EXCEPT !.lesson = x].status = week.status
  <2> DEFINE week == household.weeks[w]
  <2>1. week = [status |-> week.status, meals |-> week.meals, leftovers |-> week.leftovers,
                feedback |-> week.feedback, lesson |-> week.lesson]
    BY <1>0, <1>1
  <2> HIDE DEF week
  <2>2. /\ [week EXCEPT !.meals = x].status = week.status
        /\ [week EXCEPT !.leftovers = x].status = week.status
        /\ [week EXCEPT !.feedback = x].status = week.status
        /\ [week EXCEPT !.lesson = x].status = week.status
    BY <2>1
  <2>3. [week EXCEPT !.meals = x, !.leftovers = y].status = week.status
    BY <2>1
  <2>4. [week EXCEPT !.leftovers = y, !.meals = x].status = week.status
    BY <2>1
  <2> QED BY <2>2, <2>3, <2>4 DEF week
<1>2. ASSUME NEW w \in WeekIds, NEW id, NEW d, MoveMeal(w, id, d) PROVE \E week : Same(w, week)
  <2>1. \E x, y : WeekWritable(w) /\ UpdateWeek(w, [household.weeks[w] EXCEPT !.leftovers = x, !.meals = y])
    BY <1>2, Zenon DEF MoveMeal
  <2>2. PICK x, y : WeekWritable(w) /\ UpdateWeek(w, [household.weeks[w] EXCEPT !.leftovers = x, !.meals = y])
    BY <2>1
  <2>3. [household.weeks[w] EXCEPT !.leftovers = x, !.meals = y].status = household.weeks[w].status
    BY <1>1
  <2> QED BY <2>2, <2>3
<1>3. ASSUME NEW w \in WeekIds, NEW d, NEW order, ReorderMeals(w, d, order) PROVE \E week : Same(w, week)
  BY <1>1, <1>3, Zenon DEF ReorderMeals
<1>4. ASSUME NEW w \in WeekIds, NEW c, NEW d, SwapMealDays(w, c, d) PROVE \E week : Same(w, week)
  <2>1. \E x, y : WeekWritable(w) /\ UpdateWeek(w, [household.weeks[w] EXCEPT !.meals = x, !.leftovers = y])
    BY <1>4, Zenon DEF SwapMealDays
  <2>2. PICK x, y : WeekWritable(w) /\ UpdateWeek(w, [household.weeks[w] EXCEPT !.meals = x, !.leftovers = y])
    BY <2>1
  <2>3. [household.weeks[w] EXCEPT !.meals = x, !.leftovers = y].status = household.weeks[w].status
    BY <1>1
  <2> QED BY <2>2, <2>3
<1>5. ASSUME NEW w \in WeekIds, NEW id, NEW status, UpdateMealStatus(w, id, status) PROVE \E week : Same(w, week)
  <2>1. \E x, y : WeekWritable(w) /\ UpdateWeek(w, [household.weeks[w] EXCEPT !.meals = x, !.leftovers = y])
    BY <1>5, Zenon DEF UpdateMealStatus
  <2>2. PICK x, y : WeekWritable(w) /\ UpdateWeek(w, [household.weeks[w] EXCEPT !.meals = x, !.leftovers = y])
    BY <2>1
  <2>3. [household.weeks[w] EXCEPT !.meals = x, !.leftovers = y].status = household.weeks[w].status
    BY <1>1
  <2> QED BY <2>2, <2>3
<1>6. ASSUME NEW w \in WeekIds, NEW id, NEW v, CaptureFeedback(w, id, v) \/ CaptureWeekLesson(w, v)
      PROVE  \E week : Same(w, week)
  BY <1>1, <1>6, Zenon DEF CaptureFeedback, CaptureWeekLesson
<1>7. ASSUME NEW w \in WeekIds, NEW id, NEW v, CaptureLeftoverQuality(w, id, v) PROVE \E week : Same(w, week)
  BY <1>1, <1>7, Zenon DEF CaptureLeftoverQuality, ChangeLeftover
<1>8. ASSUME NEW w \in WeekIds, NEW id, NEW d, AssignLeftover(w, id, d) \/ ConsumeLeftover(w, id)
      PROVE  \E week : Same(w, week)
  <2>1. \E x, y : /\ WeekWritable(w)
                  /\ UpdateWeek(w, [[household.weeks[w] EXCEPT !.leftovers = x] EXCEPT !.meals = y])
    BY <1>8, Zenon DEF AssignLeftover, ConsumeLeftover, ChangeLeftover
  <2>2. PICK x, y : /\ WeekWritable(w)
                    /\ UpdateWeek(w, [[household.weeks[w] EXCEPT !.leftovers = x] EXCEPT !.meals = y])
    BY <2>1
  <2>3. [[household.weeks[w] EXCEPT !.leftovers = x] EXCEPT !.meals = y].status = household.weeks[w].status
    BY <1>1
  <2> QED BY <2>2, <2>3
<1>9. ASSUME NEW w \in WeekIds, NEW dinners, CreateWeekPlan(w, dinners) PROVE Replaced
  <2>1. \E x : UpdateWeek(w, [NoWeek EXCEPT !.status = "planned", !.meals = x])
               /\ household.weeks[w].status = "missing"
    BY <1>9, Zenon DEF CreateWeekPlan, UpdateWeek
  <2>2. \A x : [NoWeek EXCEPT !.status = "planned", !.meals = x].status = "planned"
    <3> DEFINE none == <<>>
    <3>1. NoWeek = [status |-> "missing", meals |-> none, leftovers |-> none, feedback |-> none, lesson |-> ""]
      BY DEF NoWeek
    <3> HIDE DEF none
    <3> QED BY <3>1
  <2>3. "planned" # "archived" /\ "missing" # "archived"
    OBVIOUS
  <2> QED BY <1>9, <2>1, <2>2, <2>3 DEF Replaced
<1>10. ASSUME NEW w \in WeekIds, NEW week, Same(w, week) PROVE Replaced
  BY <1>10 DEF Replaced, WeekWritable
<1> HIDE DEF Same
<1> QED BY <1>2, <1>3, <1>4, <1>5, <1>6, <1>7, <1>8, <1>9, <1>10, Zenon DEF WeeksNext

\* What a command does to the ended weeks: they stay, and each was active before.
EndedStay ==
  /\ weeksBefore' = {household} \/ UNCHANGED <<household, weeksBefore>>
  /\ \A w \in WeekIds :
       /\ household.weeks[w].status = "archived" => household'.weeks[w] = household.weeks[w]
       /\ household'.weeks[w].status = "archived" =>
            household.weeks[w] = household'.weeks[w] \/ household.weeks[w] = Active(household'.weeks[w])

LEMMA EndedCommanded ==
  ASSUME WeeksInv, WeeksNext, ~UndoWeeks
  PROVE  EndedStay
<1>0. /\ DOMAIN household.weeks = WeekIds /\ "weeks" \in DOMAIN household
      /\ household = [active |-> household.active, weeks |-> household.weeks]
  BY DEF WeeksInv, Shelved
<1>1. ASSUME NEW next, FinishWeeks(next),
             \A w \in WeekIds :
               /\ household.weeks[w].status = "archived" => next.weeks[w] = household.weeks[w]
               /\ next.weeks[w].status = "archived" =>
                    household.weeks[w] = next.weeks[w] \/ household.weeks[w] = Active(next.weeks[w])
      PROVE  EndedStay
  BY <1>1 DEF FinishWeeks, EndedStay
<1>2. CASE Replaced
  <2>1. PICK w \in WeekIds : \E week :
          UpdateWeek(w, week) /\ household.weeks[w].status # "archived" /\ week.status # "archived"
    BY <1>2 DEF Replaced
  <2>2. PICK week : UpdateWeek(w, week) /\ household.weeks[w].status # "archived" /\ week.status # "archived"
    BY <2>1
  <2> DEFINE next == [household EXCEPT !.weeks[w] = week]
  <2>3. next.weeks[w] = week /\ \A v \in WeekIds \ {w} : next.weeks[v] = household.weeks[v]
    BY <1>0
  <2>4. FinishWeeks(next)
    BY <2>2 DEF UpdateWeek
  <2> HIDE DEF next
  <2> QED BY <1>1, <2>2, <2>3, <2>4
<1>3. ASSUME NEW v \in WeekIds, household.weeks[v].status = "active"
      PROVE  household.weeks[v] = Active([household.weeks[v] EXCEPT !.status = "archived"])
  <2> DEFINE week == household.weeks[v]
  <2>1. week = [status |-> "active", meals |-> week.meals, leftovers |-> week.leftovers,
                feedback |-> week.feedback, lesson |-> week.lesson]
    BY <1>3 DEF WeeksInv, WeekTyped
  <2> HIDE DEF week
  <2>2. week = [[week EXCEPT !.status = "archived"] EXCEPT !.status = "active"]
    <3>1. PICK a, b, c, d : week = [status |-> "active", meals |-> a, leftovers |-> b, feedback |-> c, lesson |-> d]
      BY <2>1
    <3> DEFINE before == "active"
               after == "archived"
               ended == [week EXCEPT !.status = after]
    <3>2. week = [status |-> before, meals |-> a, leftovers |-> b, feedback |-> c, lesson |-> d]
      BY <3>1
    <3> HIDE DEF before, after
    <3>3. ended = [status |-> after, meals |-> a, leftovers |-> b, feedback |-> c, lesson |-> d]
      BY <3>2
    <3> HIDE DEF ended
    <3>4. [ended EXCEPT !.status = before] = [status |-> before, meals |-> a, leftovers |-> b, feedback |-> c, lesson |-> d]
      BY <3>3
    <3>5. week = [ended EXCEPT !.status = before]
      BY <3>2, <3>4
    <3> QED BY <3>5 DEF before, after, ended
  <2> QED BY <2>2 DEF Active, week
<1>4. \A v \in WeekIds : \A status : [household.weeks[v] EXCEPT !.status = status].status = status
  BY DEF WeeksInv, WeekTyped
<1>5. ASSUME NEW w \in WeekIds, ActivateWeek(w) PROVE EndedStay
  <2> DEFINE next == [household EXCEPT !.weeks[w].status = "active", !.active = w]
  <2>1. FinishWeeks(next) /\ household.weeks[w].status = "planned"
    BY <1>5 DEF ActivateWeek
  <2>2. next.weeks[w] = [household.weeks[w] EXCEPT !.status = "active"]
        /\ \A v \in WeekIds \ {w} : next.weeks[v] = household.weeks[v]
    BY <1>0
  <2> HIDE DEF next
  <2>3. next.weeks[w].status = "active"
    BY <1>4, <2>2
  <2>4. household.weeks[w].status # "archived"
    BY <2>1
  <2> QED BY <1>1, <2>1, <2>2, <2>3, <2>4
<1>6. ASSUME NEW w \in WeekIds, ArchiveWeek(w) PROVE EndedStay
  <2> DEFINE next == [household EXCEPT !.weeks[w].status = "archived", !.active = NoDay]
  <2>1. FinishWeeks(next) /\ household.weeks[w].status = "active"
    BY <1>6 DEF ArchiveWeek
  <2>2. next.weeks[w] = [household.weeks[w] EXCEPT !.status = "archived"]
        /\ \A v \in WeekIds \ {w} : next.weeks[v] = household.weeks[v]
    BY <1>0
  <2>3. household.weeks[w] = Active(next.weeks[w]) /\ household.weeks[w].status # "archived"
    BY <1>3, <2>1, <2>2
  <2> HIDE DEF next
  <2> QED BY <1>1, <2>1, <2>2, <2>3
<1>7. ASSUME NEW w \in WeekIds, NEW following \in WeekIds, HandoffWeek(w, following) PROVE EndedStay
  <2> DEFINE next == [household EXCEPT !.weeks[w].status = "archived",
                                       !.weeks[following].status = "active", !.active = following]
  <2>1. /\ FinishWeeks(next) /\ household.weeks[w].status = "active"
        /\ household.weeks[following].status = "planned" /\ following # w
    BY <1>7 DEF HandoffWeek
  <2>2. /\ next.weeks[w] = [household.weeks[w] EXCEPT !.status = "archived"]
        /\ next.weeks[following] = [household.weeks[following] EXCEPT !.status = "active"]
        /\ \A v \in WeekIds \ {w, following} : next.weeks[v] = household.weeks[v]
    BY <1>0, <2>1
  <2>3. /\ household.weeks[w] = Active(next.weeks[w]) /\ household.weeks[w].status # "archived"
        /\ household.weeks[following].status # "archived" /\ next.weeks[following].status = "active"
    BY <1>3, <1>4, <2>1, <2>2
  <2> HIDE DEF next
  <2> QED BY <1>1, <2>1, <2>2, <2>3
<1> QED BY <1>2, <1>5, <1>6, <1>7, WeekReplaced

\* What an undo does to them: the newest one may be active again.
LEMMA EndedUndone ==
  ASSUME WeeksInv, WeeksUndo, UndoWeeks
  PROVE  WeeksInv' /\ Ended(household', household) /\ weeksBefore' = {}
<1>1. household' \in weeksBefore /\ weeksBefore' = {}
  BY DEF UndoWeeks
<1>2. GoodWeeks(household') /\ Ended(household', household)
  BY <1>1 DEF WeeksUndo
<1> QED BY <1>1, <1>2 DEF GoodWeeks, WeeksInv

WeeksGood == WeeksInv /\ WeeksUndo

LEMMA WeeksSteps ==
  ASSUME WeeksGood, [WeeksNext]_weekVars
  PROVE  /\ WeeksGood'
         /\ \A w \in WeekIds : household.weeks[w].status = "archived" =>
              household'.weeks[w] \in {household.weeks[w], [household.weeks[w] EXCEPT !.status = "active"]}
<1>1. CASE UNCHANGED weekVars
  BY <1>1 DEF weekVars, WeeksGood, WeeksInv, WeeksUndo
<1>2. CASE UndoWeeks
  BY <1>2, EndedUndone DEF WeeksGood, WeeksUndo, Ended, Active
<1>3. CASE WeeksNext /\ ~UndoWeeks
  <2>1. WeeksInv' /\ EndedStay
    BY <1>3, WeeksCommanded, EndedCommanded DEF WeeksGood
  <2>2. CASE weeksBefore' = {household}
    <3>1. GoodWeeks(household)
      BY DEF WeeksGood, WeeksInv, GoodWeeks
    <3>2. Ended(household, household')
      BY <2>1 DEF EndedStay, Ended
    <3>3. WeeksUndo'
      BY <2>2, <3>1, <3>2 DEF WeeksUndo, GoodWeeks, Ended
    <3> QED BY <2>1, <3>3 DEF WeeksGood, EndedStay
  <2>3. CASE UNCHANGED <<household, weeksBefore>>
    <3>1. WeeksUndo'
      BY <2>3 DEF WeeksGood, WeeksUndo
    <3> QED BY <2>1, <3>1 DEF WeeksGood, EndedStay
  <2> QED BY <2>1, <2>2, <2>3 DEF EndedStay
<1> QED BY <1>1, <1>2, <1>3

LEMMA WeeksBegin == WeeksInit => WeeksGood
BY WeeksStart DEF WeeksInit, WeeksGood, WeeksUndo

\* Whatever is cooked, moved, swapped, assigned, eaten and undone in any weeks.
THEOREM LeftoversAlwaysFromOneCooking == WeeksSpec => []LeftoversFromOneCooking
<1>1. WeeksGood /\ [WeeksNext]_weekVars => WeeksGood'
  BY WeeksSteps
<1>2. WeeksGood => LeftoversFromOneCooking
  BY LeftoversSourced DEF WeeksGood
<1> QED BY <1>1, <1>2, WeeksBegin, PTL DEF WeeksSpec

\* An ended week stays as it was, or is active again as it was, by the undo of its end.
THEOREM ArchivedAlwaysKept == WeeksSpec => ArchivedKept
<1>1. WeeksGood /\ [WeeksNext]_weekVars => WeeksGood'
  BY WeeksSteps
<1>2. WeeksGood /\ [WeeksNext]_weekVars =>
        [\A w \in WeekIds : household.weeks[w].status = "archived" =>
           household'.weeks[w] \in {household.weeks[w], [household.weeks[w] EXCEPT !.status = "active"]}]_weekVars
  BY WeeksSteps
<1> QED BY <1>1, <1>2, WeeksBegin, PTL DEF WeeksSpec, ArchivedKept

-----------------------------------------------------------------------------
(* The recipes of a week.                                                   *)

RowRecords == [id : Nat, word : Words, detail : {0, 1}]
StepRecords == [id : Nat, inputs : Seq(Nat), text : Texts, complete : BOOLEAN]

PlanTyped(p) ==
  /\ p = [rows |-> p.rows, steps |-> p.steps, frozen |-> p.frozen, groceries |-> p.groceries, prep |-> p.prep]
  /\ p.rows \in [Meals -> Seq(RowRecords)]
  /\ p.steps \in [Meals -> Seq(StepRecords)]
  /\ p.frozen \in [Meals -> BOOLEAN]

\* No two rows of the week have one identifier, whichever their meals, nor two steps.
Once(f) == \A m, n \in Meals : \A j \in DOMAIN f[m], k \in DOMAIN f[n] : f[m][j].id = f[n][k].id => m = n /\ j = k
RowsOnce(p) == Once(p.rows)
StepsOnce(p) == Once(p.steps)

\* The queues of the prep dates. An entry is on one date, under one identifier.
EntryTyped(e) ==
  /\ e = [id |-> e.id, kind |-> e.kind, text |-> e.text, sources |-> e.sources,
          complete |-> e.complete, review |-> e.review]
  /\ \E S : e.sources \in Seq(S)
  /\ e.kind = "combined" => Sources(e) # {}
OnDates(b) == UNION {ToSet(b[d]) : d \in PrepDates}
QueuesTyped(b) ==
  /\ b = [d \in PrepDates |-> b[d]] /\ \A d \in PrepDates : b[d] \in Seq(OnDates(b))
  /\ \A e \in OnDates(b) : EntryTyped(e)
QueuesOnce(b) ==
  \A c, d \in PrepDates : \A e \in ToSet(b[c]), f \in ToSet(b[d]) : e.id = f.id => c = d /\ e = f

\* What the last validation of a command has seen to.
Seen(p) ==
  /\ \A m \in Meals : \A s \in ToSet(p.steps[m]) : ToSet(s.inputs) \subseteq RowIds(p.rows[m])
  /\ DOMAIN p.groceries = AllRows(p)
  /\ \A e \in EntriesOf(p) : Sources(e) \subseteq AllSteps(p)
  /\ \A e \in CombinedIn(EntriesOf(p)) : ~(e.complete /\ e.review)
  /\ \A d \in PrepDates : \A j, k \in DOMAIN p.prep[d] :
       j # k => Sources(p.prep[d][j]) \cap Sources(p.prep[d][k]) = {}

RecipesInv ==
  /\ PlanTyped(plan) /\ RowsOnce(plan) /\ StepsOnce(plan)
  /\ QueuesTyped(plan.prep) /\ QueuesOnce(plan.prep)
  /\ Seen(plan) /\ PreparedAsWritten

\* What is promised of a plan that replaces this one, by a command or an undo.
Says(step) == <<step.text, step.inputs>>
CookedSame(p) ==
  \A m \in Meals : plan.frozen[m] \/ p.frozen[m] =>
    /\ p.rows[m] = plan.rows[m]
    /\ DOMAIN p.steps[m] = DOMAIN plan.steps[m]
    /\ \A k \in DOMAIN p.steps[m] : Says(p.steps[m][k]) = Says(plan.steps[m][k])
MarksIn(p) ==
  \A m \in Meals : \A r \in ToSet(plan.rows[m]), q \in ToSet(p.rows[m]) :
    r.id = q.id /\ r.word = q.word => p.groceries[r.id] = plan.groceries[r.id]
MarksSame(p) == [p EXCEPT !.groceries = plan.groceries] # plan => MarksIn(p)
Keeping(p) == PlanTyped(p) /\ RowsOnce(p) /\ StepsOnce(p) /\ CookedSame(p) /\ MarksSame(p)

\* What every command keeps; an accepted one can be undone.
Promised ==
  /\ RecipesInv' /\ CookedSame(plan') /\ MarksSame(plan')
  /\ recipesBefore' = {<<plan, written>>} \/ UNCHANGED <<plan, written, recipesBefore>>

\* What a step says with its rows; the content of a combined entry is that of its sources.
Worded(p, s) == <<StepNamed(p, s).text, {r \in ToSet(p.rows[MealOf(p, s)]) : r.id \in InputsOf(p, s)}>>
CombinedSteps == UNION {Sources(e) : e \in CombinedIn(EntriesOf(plan))}
Mended(p, out) == \A s \in CombinedSteps \ out : Worded(p, s) = Worded(plan, s)

\* An entry that was here, with the steps it had and what they said.
WasHere(p, e) ==
  \E old \in CombinedIn(EntriesOf(plan)) :
    /\ old.id = e.id /\ Sources(old) = Sources(e) /\ (old.review => e.review)
    /\ \A s \in Sources(e) : Worded(p, s) = Worded(plan, s)
Tells(p, fresh) ==
  /\ QueuesTyped(p.prep) /\ QueuesOnce(p.prep)
  /\ \A e \in CombinedIn(EntriesOf(p)) : e.id \in fresh \/ (e.review /\ ~e.complete) \/ WasHere(p, e)

LEMMA SamePlan == RecipesInv => CookedSame(plan) /\ MarksSame(plan)
BY DEF RecipesInv, CookedSame, MarksSame, MarksIn

\* A plan the last validation accepts.
LEMMA Validated ==
  ASSUME NEW p, ValidRecipes(p), ValidPrep(p)
  PROVE  Seen(p)
BY DEF ValidRecipes, ValidPrep, Seen

LEMMA ContentIs == \A p, e : Content(p, e) = [s \in Sources(e) |-> Worded(p, s)]
BY DEF Content, Worded

\* Every command ends with FinishEdit.
LEMMA Finished ==
  ASSUME RecipesInv, NEW p, NEW fresh, FinishEdit(p, fresh), Keeping(p), Tells(p, fresh)
  PROVE  Promised
<1>1. ASSUME ValidRecipes(p), ValidPrep(p), plan' = p,
             written' = [id \in {e.id : e \in CombinedIn(EntriesOf(p))} |->
               IF id \in fresh THEN Content(p, CHOOSE e \in EntriesOf(p) : e.id = id) ELSE written[id]]
      PROVE  RecipesInv' /\ CookedSame(plan') /\ MarksSame(plan')
  <2>1. Seen(p)
    BY <1>1, Validated
  <2>2. ASSUME NEW e \in CombinedIn(EntriesOf(p)), Content(p, e) # written'[e.id] PROVE e.review /\ ~e.complete
    <3>1. CASE e.id \in fresh
      <4> DEFINE x == CHOOSE f \in EntriesOf(p) : f.id = e.id
      <4>1. e \in EntriesOf(p)
        BY DEF CombinedIn
      <4>2. x \in EntriesOf(p) /\ x.id = e.id
        BY <4>1
      <4>3. x = e
        BY <4>1, <4>2 DEF Tells, QueuesOnce, EntriesOf
      <4>4. written'[e.id] = Content(p, x)
        BY <1>1, <3>1
      <4> QED BY <2>2, <4>3, <4>4
    <3>2. CASE e.id \notin fresh /\ WasHere(p, e)
      <4>1. written'[e.id] = written[e.id]
        BY <1>1, <3>2
      <4>2. PICK old \in CombinedIn(EntriesOf(plan)) :
              /\ old.id = e.id /\ Sources(old) = Sources(e) /\ (old.review => e.review)
              /\ \A s \in Sources(e) : Worded(p, s) = Worded(plan, s)
        BY <3>2 DEF WasHere
      <4>3. Content(p, e) = Content(plan, old)
        BY <4>2, ContentIs
      <4>4. old.review
        BY <2>2, <4>1, <4>2, <4>3 DEF RecipesInv, PreparedAsWritten
      <4> QED BY <2>1, <4>2, <4>4 DEF Seen
    <3> QED BY <3>1, <3>2 DEF Tells
  <2>3. PreparedAsWritten'
    BY <1>1, <2>2 DEF PreparedAsWritten
  <2>4. PlanTyped(plan') /\ RowsOnce(plan') /\ StepsOnce(plan') /\ QueuesTyped(plan'.prep) /\ QueuesOnce(plan'.prep)
    BY <1>1 DEF Keeping, Tells
  <2>5. Seen(plan') /\ CookedSame(plan') /\ MarksSame(plan')
    BY <1>1, <2>1 DEF Keeping
  <2> QED BY <2>3, <2>4, <2>5 DEF RecipesInv
<1>2. ASSUME plan' = plan, written' = written PROVE RecipesInv'
  <2>1. PreparedAsWritten'
    BY <1>2 DEF RecipesInv, PreparedAsWritten
  <2> QED BY <1>2, <2>1 DEF RecipesInv
<1>3. plan' = plan => CookedSame(plan') /\ MarksSame(plan')
  BY SamePlan
<1>4. recipesBefore' = {<<plan, written>>} \/ UNCHANGED <<plan, written, recipesBefore>>
  BY DEF FinishEdit
<1> QED BY <1>1, <1>2, <1>3, <1>4 DEF FinishEdit, Promised

\* A plan is its fields.
LEMMA FieldsOf ==
  ASSUME NEW p, PlanTyped(p), NEW x
  PROVE  /\ [p EXCEPT !.prep = x] = [rows |-> p.rows, steps |-> p.steps, frozen |-> p.frozen, groceries |-> p.groceries, prep |-> x]
         /\ [p EXCEPT !.groceries = x] = [rows |-> p.rows, steps |-> p.steps, frozen |-> p.frozen, groceries |-> x, prep |-> p.prep]
         /\ [p EXCEPT !.frozen = x] = [rows |-> p.rows, steps |-> p.steps, frozen |-> x, groceries |-> p.groceries, prep |-> p.prep]
         /\ [p EXCEPT !.steps = x] = [rows |-> p.rows, steps |-> x, frozen |-> p.frozen, groceries |-> p.groceries, prep |-> p.prep]
         /\ [p EXCEPT !.rows = x] = [rows |-> x, steps |-> p.steps, frozen |-> p.frozen, groceries |-> p.groceries, prep |-> p.prep]
<1>1. PICK a, b, c, d, e : p = [rows |-> a, steps |-> b, frozen |-> c, groceries |-> d, prep |-> e]
  BY DEF PlanTyped
<1>2. p.rows = a /\ p.steps = b /\ p.frozen = c /\ p.groceries = d /\ p.prep = e
  BY <1>1
<1>3. [p EXCEPT !.prep = x] = [rows |-> a, steps |-> b, frozen |-> c, groceries |-> d, prep |-> x]
  BY <1>1
<1>4. [p EXCEPT !.groceries = x] = [rows |-> a, steps |-> b, frozen |-> c, groceries |-> x, prep |-> e]
  BY <1>1
<1>5. [p EXCEPT !.frozen = x] = [rows |-> a, steps |-> b, frozen |-> x, groceries |-> d, prep |-> e]
  BY <1>1
<1>6. [p EXCEPT !.steps = x] = [rows |-> a, steps |-> x, frozen |-> c, groceries |-> d, prep |-> e]
  BY <1>1
<1>7. [p EXCEPT !.rows = x] = [rows |-> x, steps |-> b, frozen |-> c, groceries |-> d, prep |-> e]
  BY <1>1
<1> QED BY <1>2, <1>3, <1>4, <1>5, <1>6, <1>7, Zenon

-----------------------------------------------------------------------------
(* Sequences, and a step found.                                             *)

LEMMA SeqMade ==
  ASSUME NEW S, NEW s \in Seq(S), NEW T, NEW f, f = [k \in DOMAIN s |-> f[k]], \A k \in DOMAIN s : f[k] \in T
  PROVE  f \in Seq(T) /\ Len(f) = Len(s)
<1> DEFINE n == Len(s)
<1>1. n \in Nat /\ DOMAIN s = 1 .. n
  BY LenProperties
<1> HIDE DEF n
<1>2. f \in [1 .. n -> T] /\ DOMAIN f = 1 .. n
  BY <1>1
<1>3. f \in Seq(T)
  BY <1>1, <1>2, SeqDef
<1>4. Len(f) = n
  BY <1>1, <1>2, <1>3, LenProperties
<1> QED BY <1>3, <1>4 DEF n

LEMMA Removed ==
  ASSUME NEW S, NEW s \in Seq(S), NEW k \in DOMAIN s
  PROVE  /\ RemoveAt(s, k) \in Seq(S) /\ Len(RemoveAt(s, k)) = Len(s) - 1
         /\ \A j \in 1 .. Len(s) - 1 : RemoveAt(s, k)[j] = IF j < k THEN s[j] ELSE s[j + 1]
<1>1. Len(s) \in Nat /\ k \in 1 .. Len(s) /\ \A i \in 1 .. Len(s) : s[i] \in S
  BY LenProperties, ElementOfSeq
<1> DEFINE a == SubSeq(s, 1, k - 1)
           b == SubSeq(s, k + 1, Len(s))
<1>2. a \in Seq(S) /\ Len(a) = k - 1 /\ \A i \in 1 .. k - 1 : a[i] = s[i]
  BY <1>1, SubSeqProperties
<1>3. b \in Seq(S) /\ Len(b) = Len(s) - k /\ \A i \in 1 .. Len(s) - k : b[i] = s[k + i]
  BY <1>1, SubSeqProperties
<1>4. RemoveAt(s, k) = a \o b
  BY DEF RemoveAt
<1> HIDE DEF a, b
<1>5. a \o b \in Seq(S) /\ Len(a \o b) = Len(s) - 1
      /\ \A j \in 1 .. Len(s) - 1 : (a \o b)[j] = IF j <= k - 1 THEN a[j] ELSE b[j - (k - 1)]
  <2>1. a \o b \in Seq(S) /\ Len(a \o b) = Len(a) + Len(b)
        /\ \A j \in 1 .. Len(a) + Len(b) : (a \o b)[j] = IF j <= Len(a) THEN a[j] ELSE b[j - Len(a)]
    BY <1>2, <1>3, ConcatProperties
  <2>2. Len(a) + Len(b) = Len(s) - 1
    BY <1>1, <1>2, <1>3
  <2> QED BY <1>2, <2>1, <2>2
<1>6. \A j \in 1 .. Len(s) - 1 : (a \o b)[j] = IF j < k THEN s[j] ELSE s[j + 1]
  <2> SUFFICES ASSUME NEW j \in 1 .. Len(s) - 1 PROVE (a \o b)[j] = IF j < k THEN s[j] ELSE s[j + 1]
    OBVIOUS
  <2>1. CASE j < k
    <3>1. j \in 1 .. k - 1
      BY <1>1, <2>1
    <3> QED BY <1>1, <1>2, <1>5, <2>1, <3>1
  <2>2. CASE ~(j < k)
    <3>1. j - (k - 1) \in 1 .. Len(s) - k /\ k + (j - (k - 1)) = j + 1 /\ ~(j <= k - 1)
      BY <1>1, <2>2
    <3> QED BY <1>3, <1>5, <2>2, <3>1
  <2> QED BY <2>1, <2>2
<1> QED BY <1>4, <1>5, <1>6

Leaving(n, s, out, g) ==
  g = [k \in 0 .. n |-> IF k = 0 THEN <<>>
                        ELSE IF s[k] \in out THEN g[k - 1] ELSE Append(g[k - 1], s[k])]

LEMMA LeavingExists ==
  ASSUME NEW s, NEW out, NEW n \in Nat
  PROVE  \E g : Leaving(n, s, out, g)
<1> DEFINE none == <<>>
           T == {m \in Nat : ~\E g : Leaving(m, s, out, g)}
<1> SUFFICES ASSUME T # {} PROVE FALSE
  OBVIOUS
<1>1. PICK m \in T : \A y \in T : m <= y
  BY LeastNat
<1>2. m \in Nat
  OBVIOUS
<1>3. m # 0
  <2>1. ASSUME m = 0 PROVE FALSE
    <3> DEFINE g == [k \in 0 .. m |-> none]
    <3>1. Leaving(m, s, out, g)
      BY <2>1 DEF Leaving
    <3> HIDE DEF g
    <3> QED BY <3>1
  <2> QED BY <2>1
<1>4. m - 1 \in Nat /\ m - 1 \notin T
  BY <1>1, <1>2, <1>3
<1>5. PICK h : Leaving(m - 1, s, out, h)
  BY <1>4
<1> DEFINE last == IF s[m] \in out THEN h[m - 1] ELSE Append(h[m - 1], s[m])
           g == [k \in 0 .. m |-> IF k = m THEN last ELSE h[k]]
<1>6. /\ h[0] = none
      /\ \A k \in 1 .. m - 1 : h[k] = IF s[k] \in out THEN h[k - 1] ELSE Append(h[k - 1], s[k])
  <2>1. 0 \in 0 .. m - 1 /\ \A k \in 1 .. m - 1 : k \in 0 .. m - 1 /\ k # 0
    BY <1>2, <1>3
  <2> QED BY <1>5, <2>1 DEF Leaving
<1>7. /\ g[m] = last
      /\ \A k \in 0 .. m - 1 : g[k] = h[k]
      /\ g = [k \in 0 .. m |-> g[k]]
  BY <1>2, <1>3
<1> HIDE DEF last, g
<1>8. \A k \in 0 .. m : g[k] = IF k = 0 THEN none
                               ELSE IF s[k] \in out THEN g[k - 1] ELSE Append(g[k - 1], s[k])
  <2> SUFFICES ASSUME NEW k \in 0 .. m
               PROVE  g[k] = IF k = 0 THEN none
                             ELSE IF s[k] \in out THEN g[k - 1] ELSE Append(g[k - 1], s[k])
    OBVIOUS
  <2> HIDE DEF none
  <2>1. CASE k = 0
    <3>1. 0 \in 0 .. m - 1
      BY <1>2, <1>3
    <3> QED BY <1>6, <1>7, <2>1, <3>1
  <2>2. CASE k = m
    <3>1. m - 1 \in 0 .. m - 1
      BY <1>2, <1>3
    <3> QED BY <1>3, <1>7, <2>2, <3>1 DEF last
  <2>3. CASE k \in 1 .. m - 1
    <3>1. k - 1 \in 0 .. m - 1 /\ k \in 0 .. m - 1 /\ k # 0
      BY <1>2, <2>3
    <3> QED BY <1>6, <1>7, <2>3, <3>1
  <2> QED BY <1>2, <2>1, <2>2, <2>3
<1>9. g = [k \in 0 .. m |-> IF k = 0 THEN none
                           ELSE IF s[k] \in out THEN g[k - 1] ELSE Append(g[k - 1], s[k])]
  BY <1>7, <1>8
<1> QED BY <1>9 DEF Leaving

LEMMA WithoutIs ==
  ASSUME NEW S, NEW s \in Seq(S), NEW out
  PROVE  Without(s, out) \in Seq(S) /\ ToSet(Without(s, out)) = ToSet(s) \ out
<1> DEFINE n == Len(s)
           g == CHOOSE h : Leaving(n, s, out, h)
<1>1. n \in Nat /\ DOMAIN s = 1 .. n /\ \A i \in 1 .. n : s[i] \in S
  BY LenProperties, ElementOfSeq
<1>2. Without(s, out) = g[n]
  BY DEF Without, Leaving
<1>3. Leaving(n, s, out, g)
  <2> HIDE DEF n
  <2>1. \E h : Leaving(n, s, out, h)
    BY <1>1, LeavingExists
  <2> QED BY <2>1, Zenon
<1> HIDE DEF g, n
<1> DEFINE none == <<>>
           first(k) == {s[i] : i \in 1 .. k} \ out
           T == {k \in 0 .. n : ~(g[k] \in Seq(S) /\ ToSet(g[k]) = first(k))}
<1>4. g[0] = none
  BY <1>1, <1>3 DEF Leaving
<1>5. \A k \in 1 .. n : g[k] = IF s[k] \in out THEN g[k - 1] ELSE Append(g[k - 1], s[k])
  <2>1. \A k \in 1 .. n : k \in 0 .. n /\ k # 0
    BY <1>1
  <2> QED BY <2>1, <1>3 DEF Leaving
<1>6. ASSUME T # {} PROVE FALSE
  <2>0. T \in SUBSET Nat
    BY <1>1
  <2>1. PICK k \in T : \A y \in T : k <= y
    <3> HIDE DEF T
    <3> QED BY <1>6, <2>0, LeastNat
  <2>2. k \in 0 .. n /\ ~(g[k] \in Seq(S) /\ ToSet(g[k]) = first(k))
    OBVIOUS
  <2>3. k # 0
    <3>1. none \in Seq(S) /\ DOMAIN none = {} /\ first(0) = {}
      OBVIOUS
    <3>2. ToSet(none) = first(0)
      BY <3>1 DEF ToSet
    <3> HIDE DEF none, first
    <3> QED BY <2>2, <3>1, <3>2, <1>4
  <2>4. k \in 1 .. n /\ k - 1 \in 0 .. n /\ k - 1 \notin T
    <3>1. k \in 1 .. n /\ k - 1 \in 0 .. n /\ ~(k <= k - 1)
      BY <1>1, <2>2, <2>3
    <3> HIDE DEF T
    <3> QED BY <2>1, <3>1
  <2> DEFINE r == g[k - 1]
  <2>5. r \in Seq(S) /\ ToSet(r) = first(k - 1)
    BY <2>4
  <2>6. first(k) = first(k - 1) \cup ({s[k]} \ out)
    <3>1. 1 .. k = (1 .. k - 1) \cup {k}
      BY <1>1, <2>4
    <3> QED BY <3>1
  <2>7. g[k] = IF s[k] \in out THEN r ELSE Append(r, s[k])
    BY <1>5, <2>4
  <2>8. s[k] \in S
    BY <1>1, <2>4
  <2>9. Append(r, s[k]) \in Seq(S) /\ ToSet(Append(r, s[k])) = ToSet(r) \cup {s[k]}
    <3> HIDE DEF r
    <3>1. /\ Append(r, s[k]) \in Seq(S) /\ Len(Append(r, s[k])) = Len(r) + 1 /\ Len(r) \in Nat
          /\ \A i \in 1 .. Len(r) : Append(r, s[k])[i] = r[i]
          /\ Append(r, s[k])[Len(r) + 1] = s[k]
      BY <2>5, <2>8, AppendProperties, LenProperties
    <3>2. DOMAIN Append(r, s[k]) = (1 .. Len(r)) \cup {Len(r) + 1} /\ DOMAIN r = 1 .. Len(r)
      BY <2>5, <3>1, LenProperties
    <3> QED BY <3>1, <3>2 DEF ToSet
  <2> HIDE DEF r, first
  <2>10. CASE s[k] \in out
    BY <2>2, <2>5, <2>6, <2>7, <2>10
  <2>11. CASE s[k] \notin out
    BY <2>2, <2>5, <2>6, <2>7, <2>9, <2>11
  <2> QED BY <2>10, <2>11
<1>7. n \in 0 .. n /\ n \notin T
  <2>1. n \in 0 .. n
    BY <1>1
  <2> HIDE DEF T
  <2> QED BY <2>1, <1>6
<1>8. g[n] \in Seq(S) /\ ToSet(g[n]) = first(n)
  BY <1>7
<1>9. ToSet(s) = {s[i] : i \in 1 .. n}
  BY <1>1 DEF ToSet
<1> QED BY <1>2, <1>8, <1>9

LEMMA SameSteps ==
  ASSUME NEW p, NEW q, p.steps = q.steps, NEW s
  PROVE  MealOf(p, s) = MealOf(q, s) /\ PlaceOf(p, s) = PlaceOf(q, s) /\ StepNamed(p, s) = StepNamed(q, s)
<1>1. MealOf(p, s) = MealOf(q, s)
  BY DEF MealOf
<1>2. PlaceOf(p, s) = PlaceOf(q, s)
  BY <1>1 DEF PlaceOf
<1> QED BY <1>1, <1>2 DEF StepNamed

LEMMA StepAt ==
  ASSUME NEW p, StepsOnce(p), NEW m \in Meals, NEW k \in DOMAIN p.steps[m]
  PROVE  LET s == p.steps[m][k].id IN MealOf(p, s) = m /\ PlaceOf(p, s) = k /\ StepNamed(p, s) = p.steps[m][k]
<1> DEFINE s == p.steps[m][k].id
           n == MealOf(p, s)
           j == PlaceOf(p, s)
<1>1. n \in Meals /\ \E t \in ToSet(p.steps[n]) : t.id = s
  <2>1. \E t \in ToSet(p.steps[m]) : t.id = s
    BY DEF ToSet
  <2> HIDE DEF s
  <2> QED BY <2>1 DEF MealOf
<1>2. n = m
  BY <1>1 DEF StepsOnce, Once, ToSet
<1>3. j \in DOMAIN p.steps[m] /\ p.steps[m][j].id = s
  <2> HIDE DEF n
  <2>1. k \in DOMAIN p.steps[m] /\ p.steps[m][k].id = s
    OBVIOUS
  <2> HIDE DEF s
  <2> QED BY <1>2, <2>1 DEF PlaceOf, n
<1>4. j = k
  BY <1>3 DEF StepsOnce, Once
<1> QED BY <1>2, <1>4 DEF StepNamed

LEMMA WordedAt ==
  ASSUME NEW p, StepsOnce(p), NEW m \in Meals, NEW t \in ToSet(p.steps[m])
  PROVE  Worded(p, t.id) = <<t.text, {r \in ToSet(p.rows[m]) : r.id \in ToSet(t.inputs)}>>
<1>1. PICK k \in DOMAIN p.steps[m] : t = p.steps[m][k]
  BY DEF ToSet
<1>2. MealOf(p, t.id) = m /\ StepNamed(p, t.id) = t
  BY <1>1, StepAt
<1> QED BY <1>2 DEF Worded, InputsOf

LEMMA SameWords ==
  ASSUME NEW p, NEW q, p.steps = q.steps, p.rows = q.rows, NEW s
  PROVE  Worded(p, s) = Worded(q, s)
<1>1. MealOf(p, s) = MealOf(q, s) /\ StepNamed(p, s) = StepNamed(q, s)
  BY SameSteps
<1> QED BY <1>1 DEF Worded, InputsOf

LEMMA SamePrep ==
  ASSUME RecipesInv, NEW p, p.prep = plan.prep, Mended(p, {})
  PROVE  Tells(p, {})
<1>1. EntriesOf(p) = EntriesOf(plan)
  BY DEF EntriesOf
<1>2. \A e \in CombinedIn(EntriesOf(p)) : WasHere(p, e)
  BY <1>1 DEF WasHere, Mended, CombinedSteps
<1> QED BY <1>2 DEF Tells, RecipesInv

LEMMA OnlyPrep ==
  ASSUME RecipesInv, NEW x
  PROVE  LET p == [plan EXCEPT !.prep = x]
         IN  Keeping(p) /\ p.prep = x /\ \A s : Worded(p, s) = Worded(plan, s)
<1> DEFINE p == [plan EXCEPT !.prep = x]
<1>1. p = [rows |-> plan.rows, steps |-> plan.steps, frozen |-> plan.frozen, groceries |-> plan.groceries, prep |-> x]
  BY FieldsOf DEF RecipesInv
<1> HIDE DEF p
<1>2. p.rows = plan.rows /\ p.steps = plan.steps /\ p.frozen = plan.frozen /\ p.groceries = plan.groceries /\ p.prep = x
  BY <1>1
<1>3. PlanTyped(p)
  BY <1>1, <1>2 DEF RecipesInv, PlanTyped
<1>4. RowsOnce(p) /\ StepsOnce(p) /\ CookedSame(p)
  BY <1>2 DEF RecipesInv, RowsOnce, StepsOnce, CookedSame
<1>5. MarksSame(p)
  BY <1>2 DEF MarksSame, MarksIn
<1>6. \A s : Worded(p, s) = Worded(plan, s)
  BY <1>2, SameWords
<1> QED BY <1>2, <1>3, <1>4, <1>5, <1>6 DEF Keeping, p

LEMMA OnlyMarks ==
  ASSUME RecipesInv, NEW x
  PROVE  LET p == [plan EXCEPT !.groceries = x] IN Keeping(p) /\ Tells(p, {})
<1> DEFINE p == [plan EXCEPT !.groceries = x]
<1>1. p = [rows |-> plan.rows, steps |-> plan.steps, frozen |-> plan.frozen, groceries |-> x, prep |-> plan.prep]
  BY FieldsOf DEF RecipesInv
<1> HIDE DEF p
<1>2. p.rows = plan.rows /\ p.steps = plan.steps /\ p.frozen = plan.frozen /\ p.groceries = x /\ p.prep = plan.prep
  BY <1>1
<1>3. PlanTyped(p)
  BY <1>1, <1>2 DEF RecipesInv, PlanTyped
<1>4. RowsOnce(p) /\ StepsOnce(p) /\ CookedSame(p)
  BY <1>2 DEF RecipesInv, RowsOnce, StepsOnce, CookedSame
<1>5. [p EXCEPT !.groceries = plan.groceries] = plan
  <2>1. [p EXCEPT !.groceries = plan.groceries]
          = [rows |-> p.rows, steps |-> p.steps, frozen |-> p.frozen, groceries |-> plan.groceries, prep |-> p.prep]
    BY <1>3, FieldsOf
  <2> QED BY <1>2, <2>1 DEF RecipesInv, PlanTyped
<1>6. Mended(p, {})
  BY <1>2, SameWords DEF Mended
<1>7. Tells(p, {})
  BY <1>2, <1>6, SamePrep
<1> QED BY <1>3, <1>4, <1>5, <1>7 DEF Keeping, MarksSame, p

\* The identifiers of finitely many sequences, and one that is none of them.
LEMMA IdsFinite ==
  ASSUME NEW I, IsFiniteSet(I), NEW S, NEW f \in [I -> Seq(S)]
  PROVE  IsFiniteSet(UNION {{r.id : r \in ToSet(f[m])} : m \in I})
<1> DEFINE ids(m) == {r.id : r \in ToSet(f[m])}
           all == {ids(m) : m \in I}
<1>1. ASSUME NEW m \in I PROVE IsFiniteSet(ids(m))
  <2> DEFINE n == Len(f[m])
             g == [k \in 1 .. n |-> f[m][k].id]
  <2>1. n \in Nat /\ DOMAIN f[m] = 1 .. n
    BY LenProperties
  <2>2. g \in Surjection(1 .. n, ids(m))
    BY <2>1 DEF Surjection, ToSet
  <2>3. IsFiniteSet(1 .. n)
    BY <2>1, FS_Interval
  <2> HIDE DEF g, ids, n
  <2> QED BY <2>2, <2>3, FS_Surjection
<1>2. IsFiniteSet(all)
  <2> DEFINE g == [m \in I |-> ids(m)]
  <2>1. g \in Surjection(I, all)
    BY DEF Surjection
  <2> HIDE DEF g, all
  <2> QED BY <2>1, FS_Surjection
<1>3. \A x \in all : IsFiniteSet(x)
  BY <1>1
<1> HIDE DEF all
<1> QED BY <1>2, <1>3, FS_UNION DEF all

LEMMA FreshIs ==
  ASSUME NEW used, IsFiniteSet(used)
  PROVE  Fresh(used) \in Nat /\ Fresh(used) \notin used
<1> DEFINE n == Cardinality(used)
<1>1. n \in Nat
  BY FS_CardinalityType
<1>2. \E k \in 1 .. n + 1 : k \notin used
  <2> SUFFICES ASSUME \A k \in 1 .. n + 1 : k \in used PROVE FALSE
    OBVIOUS
  <2>1. 1 .. n + 1 \in SUBSET used
    OBVIOUS
  <2>2. Cardinality(1 .. n + 1) <= n
    BY <2>1, FS_Subset
  <2>3. Cardinality(1 .. n + 1) = n + 1
    <3> HIDE DEF n
    <3>1. n + 1 \in Int /\ 1 \in Int /\ ~(1 > n + 1) /\ n + 1 - 1 + 1 = n + 1
      BY <1>1
    <3> QED BY <3>1, FS_Interval
  <2> HIDE DEF n
  <2> QED BY <1>1, <2>2, <2>3
<1>3. Fresh(used) \in 1 .. n + 1 /\ Fresh(used) \notin used
  <2> HIDE DEF n
  <2>1. Fresh(used) = CHOOSE k \in 1 .. n + 1 : k \notin used
    BY DEF Fresh, n
  <2> QED BY <1>2, <2>1
<1> QED BY <1>1, <1>3

LEMMA FreshOnes ==
  ASSUME NEW p, PlanTyped(p)
  PROVE  /\ Fresh(AllRows(p)) \in Nat /\ Fresh(AllRows(p)) \notin AllRows(p)
         /\ Fresh(AllSteps(p)) \in Nat /\ Fresh(AllSteps(p)) \notin AllSteps(p)
<1>1. IsFiniteSet(AllRows(p))
  <2>1. p.rows \in [Meals -> Seq(RowRecords)] /\ IsFiniteSet(Meals)
    BY RecipesAssumption DEF PlanTyped
  <2>2. IsFiniteSet(UNION {{r.id : r \in ToSet(p.rows[m])} : m \in Meals})
    BY <2>1, IdsFinite
  <2> QED BY <2>2 DEF AllRows, RowIds
<1>2. IsFiniteSet(AllSteps(p))
  <2>1. p.steps \in [Meals -> Seq(StepRecords)] /\ IsFiniteSet(Meals)
    BY RecipesAssumption DEF PlanTyped
  <2>2. IsFiniteSet(UNION {{s.id : s \in ToSet(p.steps[m])} : m \in Meals})
    BY <2>1, IdsFinite
  <2> QED BY <2>2 DEF AllSteps
<1> QED BY <1>1, <1>2, FreshIs

\* As many new identifiers as are asked for.
LEMMA NewIds ==
  ASSUME NEW used, IsFiniteSet(used), NEW n \in Nat
  PROVE  LET ids == FreshIds(used, n) IN
         /\ \A j, k \in 1 .. n : ids[j] = ids[k] => j = k
         /\ \A k \in 1 .. n : ids[k] \notin used
<1> DEFINE c == Cardinality(used)
           all == 1 .. c + n
           free == all \ used
           f == Cardinality(free)
           Fits == {ids \in [1 .. n -> free] : IsInjective(ids)}
<1>1. c \in Nat
  BY FS_CardinalityType
<1>2. IsFiniteSet(all) /\ Cardinality(all) = c + n
  <2> HIDE DEF c
  <2>1. 1 \in Int /\ c + n \in Int /\ (c + n >= 1 => ~(1 > c + n) /\ c + n - 1 + 1 = c + n) /\ (1 > c + n => c + n = 0)
    BY <1>1
  <2> QED BY <2>1, FS_Interval
<1>3. IsFiniteSet(free) /\ f >= n
  <2> HIDE DEF all, c
  <2>1. IsFiniteSet(free) /\ f = Cardinality(all) - Cardinality(all \cap used)
    BY <1>2, FS_Difference
  <2>2. all \cap used \in SUBSET used
    OBVIOUS
  <2>3. Cardinality(all \cap used) <= c /\ Cardinality(all \cap used) \in Nat
    <3>1. IsFiniteSet(all \cap used)
      BY <2>2, FS_Subset
    <3> QED BY <2>2, <3>1, FS_Subset, FS_CardinalityType DEF c
  <2> HIDE DEF f, free
  <2> QED BY <1>1, <1>2, <2>1, <2>3
<1>4. f \in Nat /\ ExistsBijection(1 .. f, free)
  <2> HIDE DEF free
  <2> QED BY <1>3, FS_CardinalityType
<1> HIDE DEF f, free
<1>5. PICK g : g \in Bijection(1 .. f, free)
  BY <1>4 DEF ExistsBijection
<1> DEFINE h == [k \in 1 .. n |-> g[k]]
<1>6. \A k \in 1 .. n : k \in 1 .. f /\ g[k] \in free
  BY <1>3, <1>4, <1>5 DEF Bijection, Injection
<1>7. h \in Fits
  BY <1>5, <1>6 DEF Bijection, Injection, IsInjective
<1>8. FreshIds(used, n) \in Fits
  <2>1. FreshIds(used, n) = CHOOSE ids \in [1 .. n -> free] : IsInjective(ids)
    BY DEF FreshIds, free
  <2> HIDE DEF h
  <2> QED BY <1>7, <2>1
<1>9. FreshIds(used, n) \in [1 .. n -> free] /\ IsInjective(FreshIds(used, n))
  BY <1>8
<1> QED BY <1>9 DEF IsInjective, free

LEMMA QueuedFinite ==
  ASSUME NEW b, QueuesTyped(b)
  PROVE  IsFiniteSet({e.id : e \in OnDates(b)})
<1>1. b \in [PrepDates -> Seq(OnDates(b))]
  BY DEF QueuesTyped
<1>2. IsFiniteSet(UNION {{r.id : r \in ToSet(b[d])} : d \in PrepDates})
  BY <1>1, IdsFinite, RecipesAssumption
<1>3. {e.id : e \in OnDates(b)} = UNION {{r.id : r \in ToSet(b[d])} : d \in PrepDates}
  BY DEF OnDates
<1> QED BY <1>2, <1>3

-----------------------------------------------------------------------------
(* A meal that is not cooked gets other rows and steps: its own, or new ones. *)

OnceIn(s) == \A j, k \in DOMAIN s : s[j].id = s[k].id => j = k
Rowed(m, rows) ==
  /\ rows \in Seq(RowRecords) /\ OnceIn(rows)
  /\ \A k \in DOMAIN rows : rows[k].id \in AllRows(plan) => rows[k].id \in RowIds(plan.rows[m])
Stepped(m, steps) ==
  /\ steps \in Seq(StepRecords) /\ OnceIn(steps)
  /\ \A k \in DOMAIN steps : steps[k].id \in AllSteps(plan) => steps[k].id \in RowIds(plan.steps[m])
Replaces(m, rows, steps) == Rowed(m, rows) /\ Stepped(m, steps)

Edited(p, m, rows, steps) ==
  /\ p = [rows |-> p.rows, steps |-> p.steps, frozen |-> p.frozen, groceries |-> p.groceries, prep |-> p.prep]
  /\ p.rows = [plan.rows EXCEPT ![m] = rows] /\ p.steps = [plan.steps EXCEPT ![m] = steps]
  /\ p.frozen = plan.frozen

\* The steps of combined entries, but for some, say what they said with the rows they had.
Telling(m, rows, steps, out) ==
  \A t \in ToSet(plan.steps[m]) : t.id \in CombinedSteps \ out =>
    \E u \in ToSet(steps) :
      /\ u.id = t.id /\ u.text = t.text /\ ToSet(u.inputs) = ToSet(t.inputs)
      /\ {r \in ToSet(rows) : r.id \in ToSet(t.inputs)} = {r \in ToSet(plan.rows[m]) : r.id \in ToSet(t.inputs)}

LEMMA ReplacedOnce ==
  ASSUME NEW f, DOMAIN f = Meals, Once(f), NEW m \in Meals, NEW s, OnceIn(s),
         \A k \in DOMAIN s : s[k].id \in UNION {RowIds(f[n]) : n \in Meals} => s[k].id \in RowIds(f[m])
  PROVE  Once([f EXCEPT ![m] = s])
<1> DEFINE g == [f EXCEPT ![m] = s]
<1>1. \A n \in Meals : g[n] = IF n = m THEN s ELSE f[n]
  OBVIOUS
<1> HIDE DEF g
<1> SUFFICES ASSUME NEW a \in Meals, NEW b \in Meals, NEW j \in DOMAIN g[a], NEW k \in DOMAIN g[b],
                    g[a][j].id = g[b][k].id
             PROVE  a = b /\ j = k
  BY DEF Once, g
<1>2. ASSUME NEW n \in Meals \ {m}, NEW i \in DOMAIN s, NEW l \in DOMAIN f[n], s[i].id = f[n][l].id
      PROVE  FALSE
  <2>1. f[n][l].id \in RowIds(f[n])
    BY DEF RowIds, ToSet
  <2>2. s[i].id \in RowIds(f[m])
    BY <1>2, <2>1
  <2>3. PICK o \in DOMAIN f[m] : f[m][o].id = s[i].id
    BY <2>2 DEF RowIds, ToSet
  <2> QED BY <1>2, <2>3 DEF Once
<1>3. CASE a = m /\ b = m
  BY <1>1, <1>3 DEF OnceIn
<1>4. CASE a = m /\ b # m
  BY <1>1, <1>2, <1>4
<1>5. CASE a # m /\ b = m
  BY <1>1, <1>2, <1>5
<1>6. CASE a # m /\ b # m
  BY <1>1, <1>6 DEF Once
<1> QED BY <1>3, <1>4, <1>5, <1>6

LEMMA EditedKeeps ==
  ASSUME RecipesInv, NEW p, NEW m \in Meals, NEW rows, NEW steps,
         Replaces(m, rows, steps), Edited(p, m, rows, steps)
  PROVE  PlanTyped(p) /\ RowsOnce(p) /\ StepsOnce(p) /\ (~plan.frozen[m] => CookedSame(p))
<1>1. PlanTyped(p)
  BY DEF RecipesInv, PlanTyped, Edited, Replaces, Rowed, Stepped
<1>2. RowsOnce(p)
  <2>1. DOMAIN plan.rows = Meals /\ Once(plan.rows) /\ OnceIn(rows)
    BY DEF RecipesInv, PlanTyped, RowsOnce, Replaces, Rowed
  <2>2. \A k \in DOMAIN rows :
          rows[k].id \in UNION {RowIds(plan.rows[n]) : n \in Meals} => rows[k].id \in RowIds(plan.rows[m])
    BY DEF Replaces, Rowed, AllRows
  <2>3. Once([plan.rows EXCEPT ![m] = rows])
    BY <2>1, <2>2, ReplacedOnce
  <2> QED BY <2>3 DEF RowsOnce, Edited
<1>3. StepsOnce(p)
  <2>1. DOMAIN plan.steps = Meals /\ Once(plan.steps) /\ OnceIn(steps)
    BY DEF RecipesInv, PlanTyped, StepsOnce, Replaces, Stepped
  <2>2. \A k \in DOMAIN steps :
          steps[k].id \in UNION {RowIds(plan.steps[n]) : n \in Meals} => steps[k].id \in RowIds(plan.steps[m])
    BY DEF Replaces, Stepped, AllSteps, RowIds
  <2>3. Once([plan.steps EXCEPT ![m] = steps])
    BY <2>1, <2>2, ReplacedOnce
  <2> QED BY <2>3 DEF StepsOnce, Edited
<1>4. ~plan.frozen[m] => CookedSame(p)
  BY DEF CookedSame, Edited, RecipesInv, PlanTyped
<1> QED BY <1>1, <1>2, <1>3, <1>4

LEMMA EditedTells ==
  ASSUME RecipesInv, NEW p, NEW m \in Meals, NEW rows, NEW steps, NEW out,
         Replaces(m, rows, steps), Edited(p, m, rows, steps), Telling(m, rows, steps, out)
  PROVE  Mended(p, out)
<1> SUFFICES ASSUME NEW s \in CombinedSteps \ out PROVE Worded(p, s) = Worded(plan, s)
  BY DEF Mended
<1>1. s \in AllSteps(plan)
  BY DEF CombinedSteps, RecipesInv, Seen, CombinedIn
<1>8. PICK n \in Meals : \E t \in ToSet(plan.steps[n]) : t.id = s
  BY <1>1 DEF AllSteps
<1>2. PICK t \in ToSet(plan.steps[n]) : t.id = s
  BY <1>8
<1>3. StepsOnce(p) /\ StepsOnce(plan)
  BY EditedKeeps DEF RecipesInv
<1>4. \A i \in Meals : /\ p.rows[i] = IF i = m THEN rows ELSE plan.rows[i]
                       /\ p.steps[i] = IF i = m THEN steps ELSE plan.steps[i]
  BY DEF Edited, RecipesInv, PlanTyped
<1>5. Worded(plan, s) = <<t.text, {r \in ToSet(plan.rows[n]) : r.id \in ToSet(t.inputs)}>>
  BY <1>2, <1>3, WordedAt
<1>6. CASE n = m
  <2>1. PICK u \in ToSet(steps) :
          /\ u.id = t.id /\ u.text = t.text /\ ToSet(u.inputs) = ToSet(t.inputs)
          /\ {r \in ToSet(rows) : r.id \in ToSet(t.inputs)} = {r \in ToSet(plan.rows[m]) : r.id \in ToSet(t.inputs)}
    BY <1>2, <1>6 DEF Telling
  <2>2. u \in ToSet(p.steps[m]) /\ p.rows[m] = rows
    BY <1>4
  <2>3. Worded(p, u.id) = <<u.text, {r \in ToSet(p.rows[m]) : r.id \in ToSet(u.inputs)}>>
    BY <1>3, <2>2, WordedAt
  <2> QED BY <1>2, <1>5, <1>6, <2>1, <2>2, <2>3
<1>7. CASE n # m
  <2>1. t \in ToSet(p.steps[n]) /\ p.rows[n] = plan.rows[n]
    BY <1>4, <1>7
  <2>2. Worded(p, t.id) = <<t.text, {r \in ToSet(p.rows[n]) : r.id \in ToSet(t.inputs)}>>
    BY <1>3, <2>1, WordedAt
  <2> QED BY <1>2, <1>5, <2>1, <2>2
<1> QED BY <1>6, <1>7

\* The projection of the rows on the shopping list.
LEMMA Reconciled ==
  ASSUME RecipesInv, NEW p, PlanTyped(p), RowsOnce(p), StepsOnce(p), CookedSame(p),
         DOMAIN p.groceries = AllRows(plan), MarksIn(p), Tells(p, {})
  PROVE  Keeping(Reconcile(p)) /\ Tells(Reconcile(p), {})
<1> DEFINE g == [r \in AllRows(p) |-> IF r \in DOMAIN p.groceries THEN p.groceries[r] ELSE NewItem]
           q == Reconcile(p)
<1>1. q = [rows |-> p.rows, steps |-> p.steps, frozen |-> p.frozen, groceries |-> g, prep |-> p.prep]
  <2>1. q = [p EXCEPT !.groceries = g]
    BY DEF Reconcile
  <2> HIDE DEF g, q
  <2> QED BY <2>1, FieldsOf
<1>2. \A x \in AllRows(p) \cap AllRows(plan) : g[x] = p.groceries[x]
  OBVIOUS
<1> HIDE DEF g, q
<1>3. q.rows = p.rows /\ q.steps = p.steps /\ q.frozen = p.frozen /\ q.groceries = g /\ q.prep = p.prep
  BY <1>1
<1>4. PlanTyped(q)
  BY <1>1, <1>3 DEF PlanTyped
<1>5. RowsOnce(q) /\ StepsOnce(q) /\ CookedSame(q)
  BY <1>3 DEF RowsOnce, StepsOnce, CookedSame
<1>6. MarksIn(q)
  <2> SUFFICES ASSUME NEW m \in Meals, NEW r \in ToSet(plan.rows[m]), NEW x \in ToSet(q.rows[m]),
                      r.id = x.id, r.word = x.word
               PROVE  q.groceries[r.id] = plan.groceries[r.id]
    BY DEF MarksIn
  <2>1. r.id \in AllRows(plan) /\ x.id \in AllRows(p)
    BY <1>3 DEF AllRows, RowIds
  <2>2. p.groceries[r.id] = plan.groceries[r.id]
    BY <1>3 DEF MarksIn
  <2> QED BY <1>2, <1>3, <2>1, <2>2
<1>7. Tells(q, {})
  <2>1. \A s : Worded(q, s) = Worded(p, s)
    BY <1>3, SameWords
  <2>2. \A e : WasHere(p, e) => WasHere(q, e)
    BY <2>1 DEF WasHere
  <2> QED BY <1>3, <2>2 DEF Tells, EntriesOf
<1> QED BY <1>4, <1>5, <1>6, <1>7 DEF Keeping, MarksSame, q

\* Most edits leave the list to the projection.
LEMMA EditReconciled ==
  ASSUME RecipesInv, NEW p, NEW m \in Meals, ~plan.frozen[m], NEW rows, NEW steps,
         Replaces(m, rows, steps), Edited(p, m, rows, steps), p.groceries = plan.groceries, Tells(p, {})
  PROVE  Keeping(Reconcile(p)) /\ Tells(Reconcile(p), {})
<1>1. PlanTyped(p) /\ RowsOnce(p) /\ StepsOnce(p) /\ CookedSame(p)
  BY EditedKeeps
<1>2. DOMAIN p.groceries = AllRows(plan) /\ MarksIn(p)
  BY DEF RecipesInv, Seen, MarksIn
<1> QED BY <1>1, <1>2, Reconciled

-----------------------------------------------------------------------------
(* Entries reopened for review.                                             *)

LEMMA ReopenedIs ==
  ASSUME NEW p, NEW e, EntryTyped(e), NEW out
  PROVE  LET f == Reopened(p, e, out) IN
         /\ EntryTyped(f) /\ f.id = e.id /\ f.kind = e.kind /\ Sources(f) = Sources(e)
         /\ f = e \/ (f.review /\ ~f.complete)
         /\ e.kind = "combined" /\ Sources(e) \cap out # {} => f.review /\ ~f.complete
<1> DEFINE f == Reopened(p, e, out)
           new == Rebased(p, e, out)
<1>1. CASE e.kind = "combined" /\ Sources(e) \cap out # {}
  <2>1. f = [e EXCEPT !.complete = FALSE, !.review = TRUE, !.sources = new]
    BY <1>1 DEF Reopened
  <2>2. DOMAIN new = DOMAIN e.sources /\ \A k \in DOMAIN new : new[k].step = e.sources[k].step
    BY DEF Rebased, SourceOf
  <2> HIDE DEF new, f
  <2>3. f = [id |-> e.id, kind |-> e.kind, text |-> e.text, sources |-> new, complete |-> FALSE, review |-> TRUE]
    <3>1. PICK a, b, c, d, u, v : e = [id |-> a, kind |-> b, text |-> c, sources |-> d, complete |-> u, review |-> v]
      BY DEF EntryTyped
    <3>2. e.id = a /\ e.kind = b /\ e.text = c
      BY <3>1
    <3> DEFINE no == FALSE
               yes == TRUE
               once == [e EXCEPT !.complete = no]
               twice == [once EXCEPT !.review = yes]
               last == [twice EXCEPT !.sources = new]
    <3>3. f = last
      BY <2>1
    <3> HIDE DEF no, yes
    <3>4. once = [id |-> a, kind |-> b, text |-> c, sources |-> d, complete |-> no, review |-> v]
      BY <3>1
    <3> HIDE DEF once
    <3>5. twice = [id |-> a, kind |-> b, text |-> c, sources |-> d, complete |-> no, review |-> yes]
      BY <3>4
    <3> HIDE DEF twice
    <3>6. last = [id |-> a, kind |-> b, text |-> c, sources |-> new, complete |-> no, review |-> yes]
      BY <3>5
    <3> QED BY <3>2, <3>3, <3>6 DEF no, yes
  <2>4. /\ f.id = e.id /\ f.kind = e.kind /\ f.text = e.text /\ f.sources = new /\ f.complete = FALSE /\ f.review = TRUE
    BY <2>3
  <2>5. Sources(f) = Sources(e)
    BY <2>2, <2>4 DEF Sources
  <2>6. \E S : f.sources \in Seq(S)
    <3>1. PICK S : e.sources \in Seq(S)
      BY DEF EntryTyped
    <3>2. new = [k \in DOMAIN e.sources |-> new[k]]
      BY DEF new, Rebased
    <3> DEFINE T == {new[k] : k \in DOMAIN e.sources}
    <3>3. new \in Seq(T)
      BY <3>1, <3>2, SeqMade
    <3> QED BY <2>4, <3>3
  <2>7. EntryTyped(f)
    BY <2>2, <2>3, <2>4, <2>5, <2>6 DEF EntryTyped
  <2> QED BY <2>4, <2>5, <2>7 DEF f
<1>2. CASE ~(e.kind = "combined" /\ Sources(e) \cap out # {})
  BY <1>2 DEF Reopened
<1> QED BY <1>1, <1>2

LEMMA Invalidated ==
  ASSUME RecipesInv, NEW q, PlanTyped(q), q.prep = plan.prep, NEW out, Mended(q, out)
  PROVE  LET p == Invalidate(q, out) IN
         /\ p = [rows |-> p.rows, steps |-> p.steps, frozen |-> p.frozen, groceries |-> p.groceries, prep |-> p.prep]
         /\ p.rows = q.rows /\ p.steps = q.steps /\ p.frozen = q.frozen /\ p.groceries = q.groceries
         /\ Tells(p, {})
<1> DEFINE p == Invalidate(q, out)
           New(e) == Reopened(q, e, out)
           b == plan.prep
           x == [d \in PrepDates |-> [k \in DOMAIN b[d] |-> New(b[d][k])]]
<1>1. p = [q EXCEPT !.prep = x]
  BY DEF Invalidate
<1>2. p = [rows |-> q.rows, steps |-> q.steps, frozen |-> q.frozen, groceries |-> q.groceries, prep |-> x]
  <2> HIDE DEF p, x
  <2> QED BY <1>1, FieldsOf
<1> HIDE DEF p
<1>3. /\ p = [rows |-> p.rows, steps |-> p.steps, frozen |-> p.frozen, groceries |-> p.groceries, prep |-> p.prep]
      /\ p.rows = q.rows /\ p.steps = q.steps /\ p.frozen = q.frozen /\ p.groceries = q.groceries
      /\ p.prep = x
  <2> HIDE DEF x
  <2> QED BY <1>2
<1>4. QueuesTyped(b) /\ QueuesOnce(b)
  BY DEF RecipesInv
<1>5. ASSUME NEW d \in PrepDates PROVE ToSet(x[d]) = {New(e) : e \in ToSet(b[d])}
  BY DEF ToSet
<1>6. ASSUME NEW e \in OnDates(b)
      PROVE  /\ EntryTyped(New(e)) /\ New(e).id = e.id /\ New(e).kind = e.kind /\ Sources(New(e)) = Sources(e)
             /\ New(e) = e \/ (New(e).review /\ ~New(e).complete)
             /\ e.kind = "combined" /\ Sources(e) \cap out # {} => New(e).review /\ ~New(e).complete
  <2>1. EntryTyped(e)
    BY <1>4 DEF QueuesTyped
  <2> QED BY <2>1, ReopenedIs
<1>7. OnDates(x) = {New(e) : e \in OnDates(b)}
  <2>1. \A d \in PrepDates : ToSet(x[d]) = {New(e) : e \in ToSet(b[d])}
    BY <1>5
  <2> HIDE DEF x, New, b
  <2> QED BY <2>1 DEF OnDates
<1>8. ASSUME NEW d \in PrepDates PROVE x[d] \in Seq(OnDates(x))
  <2> DEFINE n == Len(b[d])
  <2>1. b[d] \in Seq(OnDates(b))
    BY <1>4 DEF QueuesTyped
  <2>2. n \in Nat /\ DOMAIN b[d] = 1 .. n /\ \A k \in 1 .. n : b[d][k] \in OnDates(b)
    BY <2>1, LenProperties, ElementOfSeq
  <2>3. x[d] = [k \in 1 .. n |-> New(b[d][k])]
    BY <2>2
  <2> HIDE DEF x, New, n, b
  <2>4. \A k \in 1 .. n : New(b[d][k]) \in OnDates(x)
    BY <1>7, <2>2
  <2>5. x[d] \in [1 .. n -> OnDates(x)]
    BY <2>3, <2>4
  <2> QED BY <2>2, <2>5, SeqDef
<1>9. x = [d \in PrepDates |-> x[d]]
  OBVIOUS
<1> HIDE DEF x, New, b
<1>10. QueuesTyped(x)
  BY <1>6, <1>7, <1>8, <1>9 DEF QueuesTyped
<1>11. \A d \in PrepDates : ToSet(b[d]) \subseteq OnDates(b)
  BY DEF OnDates
<1>12. QueuesOnce(x)
  BY <1>4, <1>5, <1>6, <1>11 DEF QueuesOnce
<1>13. ASSUME NEW f \in CombinedIn(EntriesOf(p)) PROVE (f.review /\ ~f.complete) \/ WasHere(p, f)
  <2>1. PICK e \in OnDates(b) : f = New(e)
    BY <1>3, <1>7 DEF CombinedIn, EntriesOf, OnDates
  <2>2. CASE f = e /\ Sources(e) \cap out = {}
    <3>1. e \in CombinedIn(EntriesOf(plan))
      BY <2>2 DEF CombinedIn, EntriesOf, OnDates, b
    <3>2. \A s : Worded(p, s) = Worded(q, s)
      BY <1>3, SameWords
    <3>3. \A s \in Sources(e) : s \in CombinedSteps \ out
      BY <2>2, <3>1 DEF CombinedSteps
    <3> QED BY <2>2, <3>1, <3>2, <3>3 DEF WasHere, Mended
  <2>3. f.kind = "combined"
    BY DEF CombinedIn
  <2> QED BY <1>6, <2>1, <2>2, <2>3
<1>14. Tells(p, {})
  BY <1>3, <1>10, <1>12, <1>13 DEF Tells
<1> QED BY <1>3, <1>14 DEF p

-----------------------------------------------------------------------------
(* The rows of a meal, and the inputs of a step.                            *)

LEMMA OwnRows ==
  ASSUME RecipesInv, NEW m \in Meals
  PROVE  /\ Rowed(m, plan.rows[m]) /\ Stepped(m, plan.steps[m])
         /\ plan.rows[m] \in Seq(RowRecords) /\ plan.steps[m] \in Seq(StepRecords)
         /\ RowIds(plan.rows[m]) \subseteq AllRows(plan) /\ RowIds(plan.steps[m]) \subseteq AllSteps(plan)
<1>1. plan.rows[m] \in Seq(RowRecords) /\ plan.steps[m] \in Seq(StepRecords)
  BY DEF RecipesInv, PlanTyped
<1>2. \A k \in DOMAIN plan.rows[m] : plan.rows[m][k].id \in RowIds(plan.rows[m])
  BY DEF RowIds, ToSet
<1>3. \A k \in DOMAIN plan.steps[m] : plan.steps[m][k].id \in RowIds(plan.steps[m])
  BY DEF RowIds, ToSet
<1>4. OnceIn(plan.rows[m]) /\ OnceIn(plan.steps[m])
  BY DEF RecipesInv, RowsOnce, StepsOnce, Once, OnceIn
<1>5. RowIds(plan.rows[m]) \subseteq AllRows(plan) /\ RowIds(plan.steps[m]) \subseteq AllSteps(plan)
  BY DEF RowIds, AllRows, AllSteps
<1> QED BY <1>1, <1>2, <1>3, <1>4, <1>5 DEF Rowed, Stepped

LEMMA SameRow ==
  ASSUME RecipesInv, NEW m \in Meals, NEW n \in Meals,
         NEW r \in ToSet(plan.rows[m]), NEW o \in ToSet(plan.rows[n]), r.id = o.id
  PROVE  m = n /\ r = o
<1>1. PICK j \in DOMAIN plan.rows[m], k \in DOMAIN plan.rows[n] : r = plan.rows[m][j] /\ o = plan.rows[n][k]
  BY DEF ToSet
<1> QED BY <1>1 DEF RecipesInv, RowsOnce, Once

\* The rows a meal has, and others of new identifiers: its steps use what they used.
Extends(m, rows) ==
  /\ ToSet(plan.rows[m]) \subseteq ToSet(rows)
  /\ \A r \in ToSet(rows) \ ToSet(plan.rows[m]) : r.id \notin RowIds(plan.rows[m])

LEMMA ExtendsTells ==
  ASSUME RecipesInv, NEW m \in Meals, NEW rows, Extends(m, rows), NEW steps, NEW out,
         \A t \in ToSet(plan.steps[m]) : t.id \in CombinedSteps \ out =>
           \E u \in ToSet(steps) : u.id = t.id /\ u.text = t.text /\ u.inputs = t.inputs
  PROVE  Telling(m, rows, steps, out)
<1>1. \A t \in ToSet(plan.steps[m]) : ToSet(t.inputs) \subseteq RowIds(plan.rows[m])
  BY DEF RecipesInv, Seen
<1>2. \A t \in ToSet(plan.steps[m]) :
        {r \in ToSet(rows) : r.id \in ToSet(t.inputs)} = {r \in ToSet(plan.rows[m]) : r.id \in ToSet(t.inputs)}
  BY <1>1 DEF Extends
<1>3. ASSUME NEW t \in ToSet(plan.steps[m]), t.id \in CombinedSteps \ out
      PROVE  \E u \in ToSet(steps) :
               /\ u.id = t.id /\ u.text = t.text /\ ToSet(u.inputs) = ToSet(t.inputs)
               /\ {r \in ToSet(rows) : r.id \in ToSet(t.inputs)} = {r \in ToSet(plan.rows[m]) : r.id \in ToSet(t.inputs)}
  <2>1. PICK u \in ToSet(steps) : u.id = t.id /\ u.text = t.text /\ u.inputs = t.inputs
    BY <1>3
  <2> QED BY <1>2, <2>1
<1> QED BY <1>3 DEF Telling

\* One row more, of an identifier of its own.
LEMMA RowAdded ==
  ASSUME RecipesInv, NEW m \in Meals, NEW rows, Rowed(m, rows), NEW row \in RowRecords,
         row.id \notin AllRows(plan), row.id \notin RowIds(rows)
  PROVE  Rowed(m, Append(rows, row)) /\ RowIds(Append(rows, row)) = RowIds(rows) \cup {row.id}
         /\ ToSet(Append(rows, row)) = ToSet(rows) \cup {row}
<1> DEFINE n == Len(rows)
           r == Append(rows, row)
<1>1. rows \in Seq(RowRecords) /\ n \in Nat /\ DOMAIN rows = 1 .. n
  BY LenProperties DEF Rowed
<1>2. r \in Seq(RowRecords) /\ Len(r) = n + 1 /\ r[n + 1] = row /\ \A i \in 1 .. n : r[i] = rows[i]
  BY <1>1, AppendProperties
<1>3. DOMAIN r = (1 .. n) \cup {n + 1}
  BY <1>1, <1>2, LenProperties
<1>4. \A i \in 1 .. n : rows[i].id # row.id
  BY <1>1 DEF RowIds, ToSet
<1> HIDE DEF r, n
<1>5. Rowed(m, r)
  BY <1>1, <1>2, <1>3, <1>4 DEF Rowed, OnceIn
<1>6. ToSet(r) = ToSet(rows) \cup {row}
  BY <1>1, <1>2, <1>3 DEF ToSet
<1>7. RowIds(r) = RowIds(rows) \cup {row.id}
  BY <1>6 DEF RowIds
<1> QED BY <1>5, <1>6, <1>7 DEF r

Linking(l, m) ==
  /\ l = [p |-> l.p, inputs |-> l.inputs] /\ l.inputs \in Seq(Nat)
  /\ Edited(l.p, m, l.p.rows[m], plan.steps[m]) /\ l.p.groceries = plan.groceries /\ l.p.prep = plan.prep
  /\ Replaces(m, l.p.rows[m], plan.steps[m]) /\ Extends(m, l.p.rows[m])

LEMMA LinkStarts ==
  ASSUME RecipesInv, NEW m \in Meals
  PROVE  Linking([p |-> plan, inputs |-> <<>>], m)
<1> DEFINE none == <<>>
<1>1. none \in Seq(Nat)
  OBVIOUS
<1> HIDE DEF none
<1> DEFINE l == [p |-> plan, inputs |-> none]
<1>2. l.p = plan /\ l.inputs = none /\ l = [p |-> l.p, inputs |-> l.inputs]
  OBVIOUS
<1> HIDE DEF l
<1>3. Edited(plan, m, plan.rows[m], plan.steps[m])
  BY DEF RecipesInv, PlanTyped, Edited
<1>4. Replaces(m, plan.rows[m], plan.steps[m]) /\ Extends(m, plan.rows[m])
  BY OwnRows DEF Replaces, Extends
<1>5. Linking(l, m)
  BY <1>1, <1>2, <1>3, <1>4 DEF Linking
<1> QED BY <1>5 DEF l, none

LEMMA LinkKeeps ==
  ASSUME RecipesInv, NEW m \in Meals, NEW l, Linking(l, m), NEW word \in Words
  PROVE  Linking(LinkInput(l, m, word), m)
<1> DEFINE same == {r \in ToSet(l.p.rows[m]) : r.word = word}
           new == Fresh(AllRows(l.p))
           row == [id |-> new, word |-> word, detail |-> 0]
           next == LinkInput(l, m, word)
<1>1. PlanTyped(l.p)
  BY EditedKeeps DEF Linking
<1>2. l.p.rows[m] \in Seq(RowRecords) /\ DOMAIN l.p.rows[m] = 1 .. Len(l.p.rows[m])
  BY <1>1, LenProperties DEF PlanTyped
<1>3. CASE Cardinality(same) = 1
  <2> DEFINE id == (CHOOSE r \in same : TRUE).id
  <2>1. same # {}
    BY <1>3, FS_EmptySet
  <2>2. (CHOOSE r \in same : TRUE) \in same
    <3> HIDE DEF same
    <3> QED BY <2>1
  <2>3. same \subseteq RowRecords
    BY <1>2 DEF ToSet
  <2>4. id \in Nat
    <3> DEFINE x == CHOOSE r \in same : TRUE
    <3>1. x \in RowRecords
      BY <2>2, <2>3
    <3> HIDE DEF x
    <3>2. x.id \in Nat
      BY <3>1 DEF RowRecords
    <3> QED BY <3>2 DEF x
  <2>5. next = [l EXCEPT !.inputs = Append(l.inputs, id)]
    BY <1>3 DEF LinkInput
  <2> HIDE DEF id, next
  <2>6. Append(l.inputs, id) \in Seq(Nat)
    BY <2>4, AppendProperties DEF Linking
  <2>7. next = [p |-> l.p, inputs |-> Append(l.inputs, id)]
    <3>1. PICK a, b : l = [p |-> a, inputs |-> b]
      BY DEF Linking
    <3> QED BY <2>5, <3>1
  <2> DEFINE inputs == Append(l.inputs, id)
  <2> HIDE DEF inputs
  <2>8. next = [p |-> l.p, inputs |-> inputs] /\ inputs \in Seq(Nat)
    BY <2>6, <2>7 DEF inputs
  <2>9. next.p = l.p /\ next.inputs = inputs
    BY <2>8
  <2>10. Linking(next, m)
    BY <2>8, <2>9 DEF Linking
  <2> QED BY <2>10 DEF next
<1>4. CASE Cardinality(same) # 1
  <2>1. new \in Nat /\ new \notin AllRows(l.p)
    BY <1>1, FreshOnes
  <2>2. AllRows(plan) \subseteq AllRows(l.p) /\ RowIds(l.p.rows[m]) \subseteq AllRows(l.p)
    <3>1. \A n \in Meals : RowIds(plan.rows[n]) \subseteq RowIds(l.p.rows[n])
      BY DEF Linking, Edited, Extends, RowIds, RecipesInv, PlanTyped
    <3> QED BY <3>1 DEF AllRows
  <2> DEFINE rows == Append(l.p.rows[m], row)
             q == [l.p EXCEPT !.rows = [l.p.rows EXCEPT ![m] = rows]]
  <2>3. row \in RowRecords /\ row.id = new
    BY <2>1 DEF RowRecords
  <2>4. next = [p |-> q, inputs |-> Append(l.inputs, new)]
    BY <1>4 DEF LinkInput
  <2> HIDE DEF new, row, next, same
  <2>5. Rowed(m, rows) /\ ToSet(rows) = ToSet(l.p.rows[m]) \cup {row}
    BY <2>1, <2>2, <2>3, RowAdded DEF Linking, Replaces
  <2>6. Append(l.inputs, new) \in Seq(Nat)
    BY <2>1, AppendProperties DEF Linking
  <2> HIDE DEF rows
  <2>7. q = [rows |-> [l.p.rows EXCEPT ![m] = rows], steps |-> l.p.steps, frozen |-> l.p.frozen,
             groceries |-> l.p.groceries, prep |-> l.p.prep]
    BY <1>1, FieldsOf
  <2> HIDE DEF q
  <2>8. [l.p.rows EXCEPT ![m] = rows] = [plan.rows EXCEPT ![m] = rows]
        /\ [plan.rows EXCEPT ![m] = rows][m] = rows
    BY DEF Linking, Edited, RecipesInv, PlanTyped
  <2>9. /\ q.rows = [plan.rows EXCEPT ![m] = rows] /\ q.rows[m] = rows
        /\ q.steps = l.p.steps /\ q.frozen = l.p.frozen /\ q.groceries = l.p.groceries /\ q.prep = l.p.prep
        /\ q = [rows |-> q.rows, steps |-> q.steps, frozen |-> q.frozen, groceries |-> q.groceries, prep |-> q.prep]
    BY <2>7, <2>8
  <2>10. Edited(q, m, q.rows[m], plan.steps[m]) /\ q.groceries = plan.groceries /\ q.prep = plan.prep
    BY <2>9 DEF Linking, Edited
  <2>11. Replaces(m, q.rows[m], plan.steps[m])
    BY <2>5, <2>9 DEF Linking, Replaces
  <2>12. Extends(m, q.rows[m])
    <3>1. row.id \notin RowIds(plan.rows[m])
      BY <2>1, <2>2, <2>3, OwnRows
    <3> QED BY <2>5, <2>9, <3>1 DEF Linking, Extends
  <2> DEFINE inputs == Append(l.inputs, new)
  <2> HIDE DEF inputs
  <2>13. next = [p |-> q, inputs |-> inputs] /\ inputs \in Seq(Nat)
    BY <2>4, <2>6 DEF inputs
  <2>14. next.p = q /\ next.inputs = inputs
    BY <2>13
  <2>15. Linking(next, m)
    BY <2>10, <2>11, <2>12, <2>13, <2>14 DEF Linking
  <2> QED BY <2>15 DEF next
<1> QED BY <1>3, <1>4

\* The commands are given at most one new input each.
LEMMA InputsLinked ==
  ASSUME RecipesInv, NEW m \in Meals, NEW words \in Seq(Words), Len(words) <= 1
  PROVE  Linking(LinkInputs(plan, m, words), m)
<1> DEFINE n == Len(words)
           none == <<>>
           a == [p |-> plan, inputs |-> none]
           g == CHOOSE h : h = [k \in 0 .. n |-> IF k = 0 THEN a ELSE LinkInput(h[k - 1], m, words[k])]
<1>1. n \in {0, 1} /\ \A k \in 1 .. n : words[k] \in Words
  <2>1. n \in Nat /\ n <= 1 /\ \A k \in 1 .. n : words[k] \in Words
    BY LenProperties, ElementOfSeq
  <2> HIDE DEF n
  <2>2. n = 0 \/ n = 1
    BY <2>1
  <2> QED BY <2>1, <2>2
<1>2. LinkInputs(plan, m, words) = g[n]
  BY DEF LinkInputs
<1>3. Linking(a, m)
  BY LinkStarts
<1> HIDE DEF n, none, a
<1>4. g = [k \in 0 .. n |-> IF k = 0 THEN a ELSE LinkInput(g[k - 1], m, words[k])]
  <2> DEFINE h == [k \in 0 .. n |-> IF k = 0 THEN a ELSE LinkInput(a, m, words[k])]
  <2>1. \A k \in 0 .. n : k # 0 => k = 1 /\ k - 1 = 0 /\ 0 \in 0 .. n
    BY <1>1
  <2>2. h = [k \in 0 .. n |-> IF k = 0 THEN a ELSE LinkInput(h[k - 1], m, words[k])]
    BY <2>1
  <2> HIDE DEF h
  <2> QED BY <2>2, Zenon
<1> HIDE DEF g
<1>5. 0 \in 0 .. n /\ n \in 0 .. n
  BY <1>1
<1>6. g[0] = a
  BY <1>4, <1>5
<1>7. CASE n = 0
  BY <1>2, <1>3, <1>6, <1>7
<1>8. CASE n = 1
  <2>1. g[1] = LinkInput(g[0], m, words[1]) /\ words[1] \in Words
    BY <1>1, <1>4, <1>5, <1>8
  <2> QED BY <1>2, <1>3, <1>6, <1>8, <2>1, LinkKeeps
<1> QED BY <1>1, <1>7, <1>8

-----------------------------------------------------------------------------
(* Sequences with others in their midst.                                    *)

LEMMA SplicedAt ==
  ASSUME NEW S, NEW s \in Seq(S), NEW k \in 0 .. Len(s), NEW new \in Seq(S)
  PROVE  LET r == Splice(s, k, new)
             n == Len(new)
         IN  /\ r \in Seq(S) /\ Len(r) = Len(s) + n
             /\ \A j \in 1 .. Len(s) + n :
                  r[j] = IF j <= k THEN s[j] ELSE IF j <= k + n THEN new[j - k] ELSE s[j - n]
<1> DEFINE a == SubSeq(s, 1, k)
           b == SubSeq(s, k + 1, Len(s))
           n == Len(new)
           ab == a \o new
           r == ab \o b
<1>1. Len(s) \in Nat /\ n \in Nat /\ \A i \in 1 .. Len(s) : s[i] \in S
  BY LenProperties, ElementOfSeq
<1>2. a \in Seq(S) /\ Len(a) = k /\ \A i \in 1 .. k : a[i] = s[i]
  BY <1>1, SubSeqProperties
<1>3. b \in Seq(S) /\ Len(b) = Len(s) - k /\ \A i \in 1 .. Len(s) - k : b[i] = s[k + i]
  BY <1>1, SubSeqProperties
<1>4. Splice(s, k, new) = r
  BY DEF Splice
<1> HIDE DEF a, b, n
<1>5. /\ ab \in Seq(S) /\ Len(ab) = k + n
      /\ \A i \in 1 .. k + n : ab[i] = IF i <= k THEN a[i] ELSE new[i - k]
  BY <1>2, ConcatProperties DEF n
<1> HIDE DEF ab
<1>6. /\ r \in Seq(S) /\ Len(r) = (k + n) + (Len(s) - k)
      /\ \A j \in 1 .. (k + n) + (Len(s) - k) : r[j] = IF j <= k + n THEN ab[j] ELSE b[j - (k + n)]
  BY <1>3, <1>5, ConcatProperties
<1>7. (k + n) + (Len(s) - k) = Len(s) + n
  BY <1>1
<1> HIDE DEF r
<1>8. ASSUME NEW j \in 1 .. Len(s) + n
      PROVE  r[j] = IF j <= k THEN s[j] ELSE IF j <= k + n THEN new[j - k] ELSE s[j - n]
  <2>1. r[j] = IF j <= k + n THEN ab[j] ELSE b[j - (k + n)]
    BY <1>6, <1>7
  <2>2. CASE j <= k
    <3>1. j \in 1 .. k /\ j \in 1 .. k + n /\ j <= k + n
      BY <1>1, <2>2
    <3> QED BY <1>2, <1>5, <2>1, <2>2, <3>1
  <2>3. CASE ~(j <= k) /\ j <= k + n
    <3>1. j \in 1 .. k + n
      BY <1>1, <2>3
    <3> QED BY <1>5, <2>1, <2>3, <3>1
  <2>4. CASE ~(j <= k + n)
    <3>1. j - (k + n) \in 1 .. Len(s) - k /\ k + (j - (k + n)) = j - n /\ ~(j <= k)
      BY <1>1, <2>4
    <3> QED BY <1>3, <2>1, <2>4, <3>1
  <2> QED BY <2>2, <2>3, <2>4
<1> QED BY <1>4, <1>6, <1>7, <1>8 DEF n

LEMMA Spliced ==
  ASSUME NEW S, NEW s \in Seq(S), NEW k \in 0 .. Len(s), NEW new \in Seq(S)
  PROVE  Splice(s, k, new) \in Seq(S) /\ ToSet(Splice(s, k, new)) = ToSet(s) \cup ToSet(new)
<1> DEFINE r == Splice(s, k, new)
           n == Len(new)
           l == Len(s)
<1>1. /\ r \in Seq(S) /\ Len(r) = l + n
      /\ \A j \in 1 .. l + n : r[j] = IF j <= k THEN s[j] ELSE IF j <= k + n THEN new[j - k] ELSE s[j - n]
  BY SplicedAt
<1>2. l \in Nat /\ n \in Nat /\ k \in 0 .. l /\ DOMAIN s = 1 .. l /\ DOMAIN new = 1 .. n /\ DOMAIN r = 1 .. l + n
  BY <1>1, LenProperties
<1> HIDE DEF r, n, l
<1>3. ToSet(r) \subseteq ToSet(s) \cup ToSet(new)
  <2> SUFFICES ASSUME NEW j \in 1 .. l + n PROVE r[j] \in ToSet(s) \cup ToSet(new)
    BY <1>2 DEF ToSet
  <2>1. (j <= k => j \in 1 .. l) /\ (~(j <= k) /\ j <= k + n => j - k \in 1 .. n) /\ (~(j <= k + n) => j - n \in 1 .. l)
    BY <1>2
  <2> QED BY <1>1, <1>2, <2>1 DEF ToSet
<1>4. ToSet(s) \subseteq ToSet(r)
  <2> SUFFICES ASSUME NEW j \in 1 .. l PROVE s[j] \in ToSet(r)
    BY <1>2 DEF ToSet
  <2>1. CASE j <= k
    <3>1. j \in 1 .. l + n /\ r[j] = s[j]
      BY <1>1, <1>2, <2>1
    <3> QED BY <1>2, <3>1 DEF ToSet
  <2>2. CASE ~(j <= k)
    <3> DEFINE i == j + n
    <3>1. i \in 1 .. l + n /\ ~(i <= k + n) /\ ~(i <= k) /\ i - n = j
      BY <1>2, <2>2
    <3> HIDE DEF i
    <3>2. r[i] = IF i <= k THEN s[i] ELSE IF i <= k + n THEN new[i - k] ELSE s[i - n]
      BY <1>1, <3>1
    <3>3. r[i] = s[j]
      BY <3>1, <3>2
    <3> QED BY <1>2, <3>1, <3>3 DEF ToSet
  <2> QED BY <2>1, <2>2
<1>5. ToSet(new) \subseteq ToSet(r)
  <2> SUFFICES ASSUME NEW j \in 1 .. n PROVE new[j] \in ToSet(r)
    BY <1>2 DEF ToSet
  <2>1. j + k \in 1 .. l + n /\ ~(j + k <= k) /\ j + k <= k + n /\ j + k - k = j
    BY <1>2
  <2> DEFINE i == j + k
  <2>2. i \in 1 .. l + n /\ ~(i <= k) /\ i <= k + n /\ i - k = j
    BY <2>1
  <2> HIDE DEF i
  <2>3. r[i] = IF i <= k THEN s[i] ELSE IF i <= k + n THEN new[i - k] ELSE s[i - n]
    BY <1>1, <2>2
  <2>4. r[i] = new[j]
    BY <2>2, <2>3
  <2> QED BY <1>2, <2>2, <2>4 DEF ToSet
<1> QED BY <1>1, <1>3, <1>4, <1>5 DEF r

\* One more, of an identifier of its own.
LEMMA SplicedOnce ==
  ASSUME NEW S, NEW s \in Seq(S), NEW k \in 0 .. Len(s), NEW x \in S, OnceIn(s), x.id \notin RowIds(s)
  PROVE  LET r == Splice(s, k, <<x>>) IN r \in Seq(S) /\ ToSet(r) = ToSet(s) \cup {x} /\ OnceIn(r)
<1> DEFINE one == <<x>>
           r == Splice(s, k, one)
           l == Len(s)
<1>1. one \in Seq(S) /\ Len(one) = 1 /\ one[1] = x /\ ToSet(one) = {x}
  BY DEF ToSet
<1>2. /\ r \in Seq(S) /\ Len(r) = l + 1 /\ ToSet(r) = ToSet(s) \cup {x}
      /\ \A j \in 1 .. l + 1 : r[j] = IF j <= k THEN s[j] ELSE IF j <= k + 1 THEN one[j - k] ELSE s[j - 1]
  <2> HIDE DEF one
  <2>1. r \in Seq(S) /\ ToSet(r) = ToSet(s) \cup ToSet(one)
    BY <1>1, Spliced
  <2>2. Len(r) = l + Len(one)
        /\ \A j \in 1 .. l + Len(one) : r[j] = IF j <= k THEN s[j] ELSE IF j <= k + Len(one) THEN one[j - k] ELSE s[j - Len(one)]
    <3>1. one \in Seq(S)
      BY <1>1
    <3> QED BY <3>1, SplicedAt
  <2> QED BY <1>1, <2>1, <2>2
<1>3. l \in Nat /\ k \in 0 .. l /\ DOMAIN s = 1 .. l /\ DOMAIN r = 1 .. l + 1
  BY <1>2, LenProperties
<1> HIDE DEF one, r, l
<1>4. \A j \in 1 .. l : s[j].id # x.id
  BY <1>3 DEF RowIds, ToSet
<1> DEFINE at(j) == IF j <= k THEN j ELSE j - 1
<1>5. \A j \in 1 .. l + 1 : IF j = k + 1 THEN r[j] = x ELSE at(j) \in 1 .. l /\ r[j] = s[at(j)]
  <2> SUFFICES ASSUME NEW j \in 1 .. l + 1
               PROVE  IF j = k + 1 THEN r[j] = x ELSE at(j) \in 1 .. l /\ r[j] = s[at(j)]
    OBVIOUS
  <2>1. CASE j = k + 1
    <3>1. ~(j <= k) /\ j <= k + 1 /\ j - k = 1
      BY <1>3, <2>1
    <3> QED BY <1>1, <1>2, <2>1, <3>1
  <2>2. CASE j # k + 1
    <3>1. (j <= k \/ ~(j <= k + 1)) /\ at(j) \in 1 .. l
      BY <1>3, <2>2
    <3>2. j <= k => j <= k + 1
      BY <1>3
    <3>3. r[j] = s[at(j)]
      BY <1>2, <3>1, <3>2
    <3> QED BY <2>2, <3>1, <3>3
  <2> QED BY <2>1, <2>2
<1>6. \A i, j \in 1 .. l + 1 : i # k + 1 /\ j # k + 1 /\ at(i) = at(j) => i = j
  BY <1>3
<1> HIDE DEF at
<1>7. OnceIn(r)
  BY <1>3, <1>4, <1>5, <1>6 DEF OnceIn
<1> QED BY <1>2, <1>7 DEF r, one

LEMMA RemovedOnce ==
  ASSUME NEW S, NEW s \in Seq(S), OnceIn(s), NEW k \in DOMAIN s
  PROVE  LET r == RemoveAt(s, k) IN
         /\ r \in Seq(S) /\ OnceIn(r) /\ Len(r) = Len(s) - 1
         /\ ToSet(r) = {x \in ToSet(s) : x.id # s[k].id}
<1> DEFINE r == RemoveAt(s, k)
           n == Len(s)
           from(j) == IF j < k THEN j ELSE j + 1
<1>1. /\ r \in Seq(S) /\ Len(r) = n - 1
      /\ \A j \in 1 .. n - 1 : r[j] = IF j < k THEN s[j] ELSE s[j + 1]
  BY Removed
<1>2. n \in Nat /\ DOMAIN s = 1 .. n /\ k \in 1 .. n /\ DOMAIN r = 1 .. n - 1
  BY <1>1, LenProperties
<1> HIDE DEF r, n
<1>3. \A j \in 1 .. n - 1 : from(j) \in 1 .. n /\ from(j) # k /\ r[j] = s[from(j)]
  BY <1>1, <1>2
<1>4. \A i, j \in 1 .. n - 1 : from(i) = from(j) => i = j
  BY <1>2
<1>5. \A i \in 1 .. n : i # k => \E j \in 1 .. n - 1 : from(j) = i
  <2> SUFFICES ASSUME NEW i \in 1 .. n, i # k PROVE \E j \in 1 .. n - 1 : from(j) = i
    OBVIOUS
  <2>1. CASE i < k
    <3>1. i \in 1 .. n - 1 /\ from(i) = i
      BY <1>2, <2>1
    <3> QED BY <3>1
  <2>2. CASE ~(i < k)
    <3>1. i - 1 \in 1 .. n - 1 /\ from(i - 1) = i
      BY <1>2, <2>2
    <3> QED BY <3>1
  <2> QED BY <2>1, <2>2
<1> HIDE DEF from
<1>6. OnceIn(r)
  BY <1>2, <1>3, <1>4 DEF OnceIn
<1>7. \A x \in ToSet(r) : x \in ToSet(s) /\ x.id # s[k].id
  BY <1>2, <1>3 DEF ToSet, OnceIn
<1>8. \A x \in ToSet(s) : x.id # s[k].id => x \in ToSet(r)
  <2> SUFFICES ASSUME NEW i \in 1 .. n, s[i].id # s[k].id PROVE s[i] \in ToSet(r)
    BY <1>2 DEF ToSet
  <2>1. PICK j \in 1 .. n - 1 : from(j) = i
    BY <1>5
  <2> QED BY <1>2, <1>3, <2>1 DEF ToSet
<1> QED BY <1>1, <1>6, <1>7, <1>8 DEF r, n

\* Another of the same identifier in its place.
LEMMA ReplacedOne ==
  ASSUME NEW S, NEW s \in Seq(S), OnceIn(s), NEW k \in DOMAIN s, NEW x \in S, x.id = s[k].id
  PROVE  LET r == [s EXCEPT ![k] = x] IN
         /\ r \in Seq(S) /\ OnceIn(r) /\ DOMAIN r = DOMAIN s /\ RowIds(r) = RowIds(s)
         /\ x \in ToSet(r) /\ \A y \in ToSet(s) : y.id # x.id => y \in ToSet(r)
<1> DEFINE r == [s EXCEPT ![k] = x]
<1>1. DOMAIN s = 1 .. Len(s) /\ k \in 1 .. Len(s)
  BY LenProperties
<1>2. r \in Seq(S)
  BY <1>1, ExceptSeq
<1>3. DOMAIN r = DOMAIN s /\ \A j \in DOMAIN s : r[j] = IF j = k THEN x ELSE s[j]
  OBVIOUS
<1> HIDE DEF r
<1>4. \A j \in DOMAIN s : r[j].id = s[j].id
  BY <1>3
<1>5. OnceIn(r) /\ RowIds(r) = RowIds(s)
  BY <1>3, <1>4 DEF OnceIn, RowIds, ToSet
<1>6. x \in ToSet(r) /\ \A y \in ToSet(s) : y.id # x.id => y \in ToSet(r)
  BY <1>3 DEF ToSet
<1> QED BY <1>2, <1>3, <1>5, <1>6 DEF r

-----------------------------------------------------------------------------
(* The commands on rows and steps.                                          *)

LEMMA Found ==
  ASSUME RecipesInv, NEW m \in Meals, NEW step \in ToSet(plan.steps[m])
  PROVE  /\ MealOf(plan, step.id) = m /\ StepNamed(plan, step.id) = step /\ step \in StepRecords
         /\ PlaceOf(plan, step.id) \in DOMAIN plan.steps[m] /\ plan.steps[m][PlaceOf(plan, step.id)] = step
<1>1. PICK k \in DOMAIN plan.steps[m] : step = plan.steps[m][k]
  BY DEF ToSet
<1>2. MealOf(plan, step.id) = m /\ PlaceOf(plan, step.id) = k /\ StepNamed(plan, step.id) = step
  BY <1>1, StepAt DEF RecipesInv
<1>3. step \in StepRecords
  BY <1>1, OwnRows, LenProperties, ElementOfSeq
<1> QED BY <1>1, <1>2, <1>3

LEMMA SteppedBy ==
  ASSUME NEW m, NEW steps \in Seq(StepRecords), OnceIn(steps),
         \A t \in ToSet(steps) : t.id \in AllSteps(plan) => t.id \in RowIds(plan.steps[m])
  PROVE  Stepped(m, steps)
BY DEF Stepped, ToSet

LEMMA Unreferenced ==
  ASSUME NEW steps, ~References(plan, steps)
  PROVE  CombinedSteps \cap steps = {}
BY DEF References, CombinedSteps, CombinedIn

LEMMA FreshStep ==
  ASSUME RecipesInv, NEW inputs \in Seq(Nat), NEW text \in Texts
  PROVE  LET step == [id |-> Fresh(AllSteps(plan)), inputs |-> inputs, text |-> text, complete |-> FALSE]
         IN  step \in StepRecords /\ step.id \notin AllSteps(plan)
BY FreshOnes DEF RecipesInv, StepRecords

\* An edit that leaves the prep alone, and what it says to the sources.
LEMMA Rewritten ==
  ASSUME RecipesInv, NEW p, NEW m \in Meals, ~plan.frozen[m], NEW rows, NEW steps,
         Replaces(m, rows, steps), Edited(p, m, rows, steps),
         p.groceries = plan.groceries, p.prep = plan.prep, Telling(m, rows, steps, {})
  PROVE  Keeping(Reconcile(p)) /\ Tells(Reconcile(p), {})
<1>1. Mended(p, {})
  BY EditedTells
<1>2. Tells(p, {})
  BY <1>1, SamePrep
<1> QED BY <1>2, EditReconciled

LEMMA AddRowFollows ==
  ASSUME RecipesInv, NEW m \in Meals, NEW word \in Words, AddIngredientOccurrence(m, word)
  PROVE  Promised
<1> DEFINE new == Fresh(AllRows(plan))
           row == [id |-> new, word |-> word, detail |-> 0]
           rows == Append(plan.rows[m], row)
           steps == plan.steps[m]
           all == [plan.rows EXCEPT ![m] = rows]
           p == [plan EXCEPT !.rows = all]
<1>1. ~plan.frozen[m] /\ FinishEdit(Reconcile(p), {})
  BY DEF AddIngredientOccurrence, Editable
<1>2. new \in Nat /\ new \notin AllRows(plan)
  BY FreshOnes DEF RecipesInv
<1> HIDE DEF new
<1>3. row \in RowRecords /\ row.id = new
  BY <1>2 DEF RowRecords
<1> HIDE DEF row
<1>4. Rowed(m, plan.rows[m]) /\ row.id \notin AllRows(plan) /\ row.id \notin RowIds(plan.rows[m])
  BY <1>2, <1>3, OwnRows
<1>5. Rowed(m, rows) /\ ToSet(rows) = ToSet(plan.rows[m]) \cup {row}
  BY <1>3, <1>4, RowAdded
<1> HIDE DEF rows
<1>6. Replaces(m, rows, steps)
  BY <1>5, OwnRows DEF Replaces
<1>7. p = [rows |-> all, steps |-> plan.steps, frozen |-> plan.frozen, groceries |-> plan.groceries, prep |-> plan.prep]
  <2> HIDE DEF all
  <2> QED BY FieldsOf DEF RecipesInv
<1> HIDE DEF p
<1>8. Edited(p, m, rows, steps) /\ p.groceries = plan.groceries /\ p.prep = plan.prep
  BY <1>7 DEF Edited, RecipesInv, PlanTyped
<1>9. Extends(m, rows)
  BY <1>4, <1>5 DEF Extends
<1> HIDE DEF steps
<1>10. \A t \in ToSet(plan.steps[m]) : \E u \in ToSet(steps) : u.id = t.id /\ u.text = t.text /\ u.inputs = t.inputs
  BY DEF steps
<1>11. Telling(m, rows, steps, {})
  BY <1>9, <1>10, ExtendsTells
<1>12. Keeping(Reconcile(p)) /\ Tells(Reconcile(p), {})
  BY <1>1, <1>6, <1>8, <1>11, Rewritten
<1> QED BY <1>1, <1>12, Finished

LEMMA ReplaceFollows ==
  ASSUME RecipesInv, NEW m \in Meals, NEW word \in Words, NEW text \in Texts,
         ReplaceMealRecipeFromSource(m, word, text)
  PROVE  Promised
<1> DEFINE new == Fresh(AllRows(plan))
           row == [id |-> new, word |-> word, detail |-> 0]
           step == [id |-> Fresh(AllSteps(plan)), inputs |-> <<row.id>>, text |-> text, complete |-> FALSE]
           rows == <<row>>
           steps == <<step>>
           half == [plan EXCEPT !.rows = [plan.rows EXCEPT ![m] = rows]]
           p == [half EXCEPT !.steps = [half.steps EXCEPT ![m] = steps]]
<1>1. ~plan.frozen[m] /\ ~References(plan, {s.id : s \in ToSet(plan.steps[m])}) /\ FinishEdit(Reconcile(p), {})
  BY DEF ReplaceMealRecipeFromSource, Editable
<1>2. new \in Nat /\ new \notin AllRows(plan)
  BY FreshOnes DEF RecipesInv
<1> HIDE DEF new
<1>3. row \in RowRecords /\ row.id = new
  BY <1>2 DEF RowRecords
<1> HIDE DEF row
<1>4. step \in StepRecords /\ step.id \notin AllSteps(plan)
  <2>1. <<row.id>> \in Seq(Nat)
    BY <1>2, <1>3
  <2> QED BY <2>1, FreshStep
<1> HIDE DEF step
<1>5. /\ rows \in Seq(RowRecords) /\ DOMAIN rows = {1} /\ rows[1] = row
      /\ steps \in Seq(StepRecords) /\ DOMAIN steps = {1} /\ steps[1] = step
  BY <1>3, <1>4
<1> HIDE DEF steps, rows
<1>6. Replaces(m, rows, steps)
  BY <1>2, <1>3, <1>4, <1>5 DEF Replaces, Rowed, Stepped, OnceIn
<1> DEFINE allRows == [plan.rows EXCEPT ![m] = rows]
           allSteps == [half.steps EXCEPT ![m] = steps]
<1>7. half = [rows |-> allRows, steps |-> plan.steps, frozen |-> plan.frozen,
              groceries |-> plan.groceries, prep |-> plan.prep]
  <2> HIDE DEF allRows
  <2>1. [plan EXCEPT !.rows = allRows]
          = [rows |-> allRows, steps |-> plan.steps, frozen |-> plan.frozen,
             groceries |-> plan.groceries, prep |-> plan.prep]
    BY FieldsOf DEF RecipesInv
  <2> QED BY <2>1 DEF allRows
<1> HIDE DEF half
<1>8. p = [rows |-> allRows, steps |-> allSteps, frozen |-> plan.frozen, groceries |-> plan.groceries, prep |-> plan.prep]
  <2> HIDE DEF allRows, allSteps
  <2>1. [half EXCEPT !.steps = allSteps]
          = [rows |-> allRows, steps |-> allSteps, frozen |-> plan.frozen, groceries |-> plan.groceries, prep |-> plan.prep]
    BY <1>7
  <2> QED BY <2>1 DEF allSteps
<1>9. half.steps = plan.steps
  BY <1>7
<1> HIDE DEF p
<1>10. Edited(p, m, rows, steps) /\ p.groceries = plan.groceries /\ p.prep = plan.prep
  BY <1>8, <1>9 DEF Edited
<1>11. Telling(m, rows, steps, {})
  BY <1>1, Unreferenced DEF Telling
<1>12. Keeping(Reconcile(p)) /\ Tells(Reconcile(p), {})
  BY <1>1, <1>6, <1>10, <1>11, Rewritten
<1> QED BY <1>1, <1>12, Finished

\* An edit of the linked rows and the steps of one meal.
LEMMA StepsEdited ==
  ASSUME RecipesInv, NEW m \in Meals, NEW l, Linking(l, m), NEW steps, Stepped(m, steps), NEW p,
         p = [rows |-> p.rows, steps |-> p.steps, frozen |-> p.frozen, groceries |-> p.groceries, prep |-> p.prep],
         p.rows = l.p.rows, p.steps = [l.p.steps EXCEPT ![m] = steps], p.frozen = l.p.frozen,
         p.groceries = l.p.groceries
  PROVE  Edited(p, m, l.p.rows[m], steps) /\ Replaces(m, l.p.rows[m], steps) /\ p.groceries = plan.groceries
<1>1. p.steps = [plan.steps EXCEPT ![m] = steps]
  BY DEF Linking, Edited, RecipesInv, PlanTyped
<1>2. Edited(p, m, l.p.rows[m], steps)
  BY <1>1 DEF Linking, Edited
<1>3. Replaces(m, l.p.rows[m], steps)
  BY DEF Linking, Replaces
<1> QED BY <1>2, <1>3 DEF Linking

LEMMA AddStepFollows ==
  ASSUME RecipesInv, NEW m \in Meals, NEW at \in 0 .. Len(plan.steps[m]), NEW words \in Seq(Words),
         Len(words) <= 1, AddInstructionStep(m, at, FirstText, words)
  PROVE  Promised
<1> DEFINE l == LinkInputs(plan, m, words)
           step == [id |-> Fresh(AllSteps(plan)), inputs |-> l.inputs, text |-> FirstText, complete |-> FALSE]
           steps == Splice(l.p.steps[m], at, <<step>>)
           p == [l.p EXCEPT !.steps = [l.p.steps EXCEPT ![m] = steps]]
<1>1. ~plan.frozen[m] /\ FinishEdit(Reconcile(p), {})
  BY DEF AddInstructionStep, Editable
<1>2. Linking(l, m)
  BY InputsLinked
<1> HIDE DEF l
<1>3. step \in StepRecords /\ step.id \notin AllSteps(plan)
  <2>1. FirstText \in Texts
    BY RecipesAssumption DEF FirstText
  <2> QED BY <1>2, <2>1, FreshStep DEF Linking
<1> HIDE DEF step
<1>4. l.p.steps[m] = plan.steps[m]
  BY <1>2 DEF Linking, Edited, RecipesInv, PlanTyped
<1>5. steps \in Seq(StepRecords) /\ ToSet(steps) = ToSet(plan.steps[m]) \cup {step} /\ OnceIn(steps)
  <2>1. /\ plan.steps[m] \in Seq(StepRecords) /\ OnceIn(plan.steps[m]) /\ step.id \notin RowIds(plan.steps[m])
    BY <1>3, OwnRows DEF Stepped
  <2> QED BY <1>3, <1>4, <2>1, SplicedOnce
<1> HIDE DEF steps
<1>6. Stepped(m, steps)
  BY <1>3, <1>5, SteppedBy DEF RowIds
<1>7. PlanTyped(l.p)
  BY <1>2, EditedKeeps DEF Linking
<1>8. p = [rows |-> l.p.rows, steps |-> [l.p.steps EXCEPT ![m] = steps], frozen |-> l.p.frozen,
           groceries |-> l.p.groceries, prep |-> l.p.prep]
  BY <1>7, FieldsOf
<1> HIDE DEF p
<1>9. /\ p = [rows |-> p.rows, steps |-> p.steps, frozen |-> p.frozen, groceries |-> p.groceries, prep |-> p.prep]
      /\ p.rows = l.p.rows /\ p.steps = [l.p.steps EXCEPT ![m] = steps] /\ p.frozen = l.p.frozen
      /\ p.groceries = l.p.groceries /\ p.prep = plan.prep
  BY <1>2, <1>8 DEF Linking
<1>10. Edited(p, m, l.p.rows[m], steps) /\ Replaces(m, l.p.rows[m], steps) /\ p.groceries = plan.groceries
  BY <1>2, <1>6, <1>9, StepsEdited
<1>11. Telling(m, l.p.rows[m], steps, {})
  <2>1. Extends(m, l.p.rows[m])
    BY <1>2 DEF Linking
  <2>2. \A t \in ToSet(plan.steps[m]) : \E u \in ToSet(steps) : u.id = t.id /\ u.text = t.text /\ u.inputs = t.inputs
    BY <1>5
  <2> QED BY <2>1, <2>2, ExtendsTells
<1>12. Keeping(Reconcile(p)) /\ Tells(Reconcile(p), {})
  BY <1>1, <1>9, <1>10, <1>11, Rewritten
<1> QED BY <1>1, <1>12, Finished

\* A step of a meal becomes another of its identifier, in its place.
LEMMA StepsSet ==
  ASSUME RecipesInv, NEW m \in Meals, NEW step \in ToSet(plan.steps[m]), NEW new \in StepRecords, new.id = step.id
  PROVE  LET k == PlaceOf(plan, step.id)
             steps == [plan.steps[m] EXCEPT ![k] = new]
         IN  /\ k \in DOMAIN plan.steps[m] /\ plan.steps[m][k] = step
             /\ Stepped(m, steps) /\ DOMAIN steps = DOMAIN plan.steps[m]
             /\ new \in ToSet(steps) /\ \A t \in ToSet(plan.steps[m]) : t.id # step.id => t \in ToSet(steps)
<1> DEFINE s == step.id
           k == PlaceOf(plan, s)
           old == plan.steps[m]
           steps == [old EXCEPT ![k] = new]
<1>1. k \in DOMAIN old /\ old[k] = step
  BY Found
<1>2. old \in Seq(StepRecords) /\ OnceIn(old) /\ RowIds(old) \subseteq AllSteps(plan)
  BY OwnRows DEF Stepped
<1> HIDE DEF s, k, old
<1>3. /\ steps \in Seq(StepRecords) /\ OnceIn(steps) /\ DOMAIN steps = DOMAIN old /\ RowIds(steps) = RowIds(old)
      /\ new \in ToSet(steps) /\ \A t \in ToSet(old) : t.id # new.id => t \in ToSet(steps)
  BY <1>1, <1>2, ReplacedOne
<1> HIDE DEF steps
<1>4. Stepped(m, steps)
  <2>1. \A t \in ToSet(steps) : t.id \in RowIds(plan.steps[m])
    BY <1>3 DEF RowIds, old
  <2> QED BY <1>3, <2>1, SteppedBy
<1> QED BY <1>1, <1>3, <1>4 DEF steps, old, k, s

WithStep(p, m, s, new) ==
  [rows |-> p.rows, steps |-> [plan.steps EXCEPT ![m] = [plan.steps[m] EXCEPT ![PlaceOf(plan, s)] = new]],
   frozen |-> p.frozen, groceries |-> p.groceries, prep |-> p.prep]

LEMMA StepSet ==
  ASSUME RecipesInv, NEW m \in Meals, NEW step \in ToSet(plan.steps[m]), NEW new, NEW p, PlanTyped(p), p.steps = plan.steps
  PROVE  SetStep(p, step.id, new) = WithStep(p, m, step.id, new)
<1> DEFINE s == step.id
           k == PlaceOf(plan, s)
           all == [plan.steps EXCEPT ![m] = [plan.steps[m] EXCEPT ![k] = new]]
<1>1. MealOf(plan, s) = m
  BY Found
<1>2. MealOf(p, s) = m /\ PlaceOf(p, s) = k
  BY <1>1, SameSteps
<1>3. SetStep(p, s, new) = [p EXCEPT !.steps = all]
  BY <1>2 DEF SetStep
<1> HIDE DEF all
<1>4. [p EXCEPT !.steps = all] = [rows |-> p.rows, steps |-> all, frozen |-> p.frozen, groceries |-> p.groceries, prep |-> p.prep]
  BY FieldsOf
<1> QED BY <1>3, <1>4 DEF all, WithStep

LEMMA EditStepFollows ==
  ASSUME RecipesInv, NEW m \in Meals, NEW step \in ToSet(plan.steps[m]), NEW text \in Texts,
         NEW keep \in Seq(Nat), NEW words \in Seq(Words), Len(words) <= 1,
         EditInstructionStep(step.id, text, keep, words)
  PROVE  Promised
<1> DEFINE s == step.id
           l == LinkInputs(plan, m, words)
           inputs == keep \o l.inputs
           new == [step EXCEPT !.text = text, !.inputs = inputs]
           q == SetStep(l.p, s, new)
           p == Invalidate(q, {s})
           k == PlaceOf(plan, s)
           steps == [plan.steps[m] EXCEPT ![k] = new]
<1>1. ~plan.frozen[m] /\ FinishEdit(Reconcile(p), {})
  BY Found DEF EditInstructionStep, Editable
<1>2. step \in StepRecords
  BY Found
<1>3. Linking(l, m)
  BY InputsLinked
<1> HIDE DEF l
<1>4. new \in StepRecords /\ new.id = step.id
  <2>1. inputs \in Seq(Nat)
    BY <1>3, ConcatProperties DEF Linking
  <2> HIDE DEF inputs
  <2> DEFINE half == [step EXCEPT !.text = text]
  <2>2. half \in StepRecords /\ half.id = step.id
    BY <1>2 DEF StepRecords
  <2>3. new = [half EXCEPT !.inputs = inputs]
    OBVIOUS
  <2> HIDE DEF half, new
  <2> QED BY <2>1, <2>2, <2>3 DEF StepRecords
<1> HIDE DEF new
<1>5. PlanTyped(l.p) /\ l.p.steps = plan.steps
  <2>1. PlanTyped(l.p)
    BY <1>3, EditedKeeps DEF Linking
  <2>2. l.p.steps = plan.steps
    BY <1>3 DEF Linking, Edited, RecipesInv, PlanTyped
  <2> QED BY <2>1, <2>2
<1>6. /\ Stepped(m, steps) /\ \A t \in ToSet(plan.steps[m]) : t.id # s => t \in ToSet(steps)
      /\ q = [rows |-> l.p.rows, steps |-> [plan.steps EXCEPT ![m] = steps], frozen |-> l.p.frozen,
              groceries |-> l.p.groceries, prep |-> l.p.prep]
  <2>1. Stepped(m, steps) /\ \A t \in ToSet(plan.steps[m]) : t.id # s => t \in ToSet(steps)
    BY <1>4, StepsSet
  <2> DEFINE x == l.p
  <2>2. PlanTyped(x) /\ x.steps = plan.steps
    BY <1>5
  <2> HIDE DEF x
  <2>3. SetStep(x, step.id, new) = WithStep(x, m, step.id, new)
    BY <2>2, StepSet
  <2> QED BY <2>1, <2>3 DEF x, WithStep
<1> HIDE DEF s, k, q, steps
<1>7. /\ q.rows = l.p.rows /\ q.steps = [l.p.steps EXCEPT ![m] = steps] /\ q.frozen = l.p.frozen
      /\ q.groceries = l.p.groceries /\ q.prep = plan.prep
      /\ q = [rows |-> q.rows, steps |-> q.steps, frozen |-> q.frozen, groceries |-> q.groceries, prep |-> q.prep]
  BY <1>3, <1>5, <1>6 DEF Linking
<1>8. Edited(q, m, l.p.rows[m], steps) /\ Replaces(m, l.p.rows[m], steps)
  BY <1>3, <1>6, <1>7, StepsEdited
<1>9. Telling(m, l.p.rows[m], steps, {s})
  <2>1. Extends(m, l.p.rows[m])
    BY <1>3 DEF Linking
  <2>2. \A t \in ToSet(plan.steps[m]) : t.id \in CombinedSteps \ {s} =>
          \E u \in ToSet(steps) : u.id = t.id /\ u.text = t.text /\ u.inputs = t.inputs
    BY <1>6
  <2> QED BY <2>1, <2>2, ExtendsTells
<1>10. PlanTyped(q) /\ Mended(q, {s})
  BY <1>8, <1>9, EditedKeeps, EditedTells
<1>11. /\ p.rows = q.rows /\ p.steps = q.steps /\ p.frozen = q.frozen /\ p.groceries = q.groceries
       /\ p = [rows |-> p.rows, steps |-> p.steps, frozen |-> p.frozen, groceries |-> p.groceries, prep |-> p.prep]
       /\ Tells(p, {})
  BY <1>7, <1>10, Invalidated
<1> HIDE DEF p
<1>12. Edited(p, m, l.p.rows[m], steps) /\ Replaces(m, l.p.rows[m], steps) /\ p.groceries = plan.groceries
  BY <1>3, <1>7, <1>8, <1>11 DEF Edited, Linking
<1>13. Keeping(Reconcile(p)) /\ Tells(Reconcile(p), {})
  BY <1>1, <1>11, <1>12, EditReconciled
<1> QED BY <1>1, <1>13, Finished

\* The steps of a meal in another order, one ticked off, or one less.
LEMMA StepsFollow ==
  ASSUME RecipesInv, NEW m \in Meals, NEW steps, Stepped(m, steps),
         \A t \in ToSet(plan.steps[m]) : t.id \in CombinedSteps =>
           \E u \in ToSet(steps) : u.id = t.id /\ u.text = t.text /\ u.inputs = t.inputs,
         NEW p, FinishEdit(p, {}),
         p = [rows |-> plan.rows, steps |-> [plan.steps EXCEPT ![m] = steps], frozen |-> plan.frozen,
              groceries |-> plan.groceries, prep |-> plan.prep],
         CookedSame(p)
  PROVE  Promised
<1> DEFINE rows == plan.rows[m]
<1>1. /\ p.rows = plan.rows /\ p.steps = [plan.steps EXCEPT ![m] = steps] /\ p.frozen = plan.frozen
      /\ p.groceries = plan.groceries /\ p.prep = plan.prep
      /\ p = [rows |-> p.rows, steps |-> p.steps, frozen |-> p.frozen, groceries |-> p.groceries, prep |-> p.prep]
  OBVIOUS
<1>2. Edited(p, m, rows, steps)
  BY <1>1 DEF Edited, RecipesInv, PlanTyped
<1>3. Replaces(m, rows, steps)
  BY OwnRows DEF Replaces
<1>4. Extends(m, rows)
  BY DEF Extends
<1> HIDE DEF rows
<1>5. Telling(m, rows, steps, {})
  BY <1>4, ExtendsTells
<1>6. PlanTyped(p) /\ RowsOnce(p) /\ StepsOnce(p)
  BY <1>2, <1>3, EditedKeeps
<1>7. MarksSame(p)
  BY <1>1 DEF MarksSame, MarksIn
<1>8. Mended(p, {})
  BY <1>2, <1>3, <1>5, EditedTells
<1>9. Tells(p, {})
  BY <1>1, <1>8, SamePrep
<1> QED BY <1>6, <1>7, <1>9, Finished DEF Keeping

\* As long as the meal is not cooked, its steps may change.
LEMMA StepsChanged ==
  ASSUME RecipesInv, NEW m \in Meals, NEW steps, Stepped(m, steps), ~plan.frozen[m],
         \A t \in ToSet(plan.steps[m]) : t.id \in CombinedSteps =>
           \E u \in ToSet(steps) : u.id = t.id /\ u.text = t.text /\ u.inputs = t.inputs,
         FinishEdit([plan EXCEPT !.steps = [plan.steps EXCEPT ![m] = steps]], {})
  PROVE  Promised
<1> DEFINE all == [plan.steps EXCEPT ![m] = steps]
           p == [plan EXCEPT !.steps = all]
<1>1. p = [rows |-> plan.rows, steps |-> all, frozen |-> plan.frozen, groceries |-> plan.groceries, prep |-> plan.prep]
  <2> HIDE DEF all
  <2> QED BY FieldsOf DEF RecipesInv
<1> HIDE DEF p
<1>2. CookedSame(p)
  BY <1>1 DEF CookedSame, RecipesInv, PlanTyped
<1>3. FinishEdit(p, {})
  BY DEF p
<1> QED BY <1>1, <1>2, <1>3, StepsFollow

LEMMA MoveStepFollows ==
  ASSUME RecipesInv, NEW m \in Meals, NEW step \in ToSet(plan.steps[m]), NEW at \in Nat,
         MoveInstructionStep(step.id, at)
  PROVE  Promised
<1> DEFINE s == step.id
           k == PlaceOf(plan, s)
           old == plan.steps[m]
           others == RemoveAt(old, k)
           steps == Splice(others, at, <<step>>)
<1>1. ~plan.frozen[m] /\ at < Len(old)
      /\ FinishEdit([plan EXCEPT !.steps = [plan.steps EXCEPT ![m] = steps]], {})
  BY Found DEF MoveInstructionStep, Editable
<1>2. k \in DOMAIN old /\ old[k] = step /\ step \in StepRecords
  BY Found
<1>3. old \in Seq(StepRecords) /\ Len(old) \in Nat /\ OnceIn(old)
  BY OwnRows, LenProperties DEF Stepped
<1> HIDE DEF s, k, old
<1>4. /\ others \in Seq(StepRecords) /\ OnceIn(others) /\ Len(others) = Len(old) - 1
      /\ ToSet(others) = {x \in ToSet(old) : x.id # old[k].id}
  BY <1>2, <1>3, RemovedOnce
<1> HIDE DEF others
<1>5. at \in 0 .. Len(others) /\ step.id \notin RowIds(others)
  BY <1>1, <1>2, <1>3, <1>4 DEF RowIds
<1>6. steps \in Seq(StepRecords) /\ ToSet(steps) = ToSet(others) \cup {step} /\ OnceIn(steps)
  BY <1>2, <1>4, <1>5, SplicedOnce
<1> HIDE DEF steps
<1>7. ToSet(steps) \subseteq ToSet(old)
  BY <1>4, <1>6 DEF old
<1>8. \A t \in ToSet(old) : t.id = step.id => t = step
  BY <1>2, <1>3 DEF OnceIn, ToSet
<1>9. \A t \in ToSet(old) : t \in ToSet(steps)
  BY <1>2, <1>4, <1>6, <1>8
<1>10. Stepped(m, steps)
  <2>1. \A t \in ToSet(steps) : t.id \in RowIds(plan.steps[m])
    BY <1>7 DEF RowIds, old
  <2> QED BY <1>6, <2>1, SteppedBy
<1>11. \A t \in ToSet(plan.steps[m]) : \E u \in ToSet(steps) : u.id = t.id /\ u.text = t.text /\ u.inputs = t.inputs
  BY <1>9 DEF old
<1> QED BY <1>1, <1>10, <1>11, StepsChanged

LEMMA RemoveStepFollows ==
  ASSUME RecipesInv, NEW m \in Meals, NEW step \in ToSet(plan.steps[m]), RemoveInstructionStep(step.id)
  PROVE  Promised
<1> DEFINE s == step.id
           k == PlaceOf(plan, s)
           old == plan.steps[m]
           steps == RemoveAt(old, k)
<1>1. ~plan.frozen[m] /\ ~References(plan, {s})
      /\ FinishEdit([plan EXCEPT !.steps = [plan.steps EXCEPT ![m] = steps]], {})
  BY Found DEF RemoveInstructionStep, Editable
<1>2. k \in DOMAIN old /\ old[k] = step
  BY Found
<1>3. old \in Seq(StepRecords) /\ OnceIn(old)
  BY OwnRows DEF Stepped
<1>4. s \notin CombinedSteps
  BY <1>1, Unreferenced
<1> HIDE DEF k, old
<1>5. steps \in Seq(StepRecords) /\ OnceIn(steps) /\ ToSet(steps) = {x \in ToSet(old) : x.id # old[k].id}
  BY <1>2, <1>3, RemovedOnce
<1> HIDE DEF steps
<1>6. Stepped(m, steps)
  <2>1. \A t \in ToSet(steps) : t.id \in RowIds(plan.steps[m])
    BY <1>5 DEF RowIds, old
  <2> QED BY <1>5, <2>1, SteppedBy
<1>7. ASSUME NEW t \in ToSet(plan.steps[m]), t.id \in CombinedSteps PROVE t \in ToSet(steps)
  BY <1>2, <1>4, <1>5, <1>7 DEF old
<1>8. \A t \in ToSet(plan.steps[m]) : t.id \in CombinedSteps =>
        \E u \in ToSet(steps) : u.id = t.id /\ u.text = t.text /\ u.inputs = t.inputs
  BY <1>7
<1> QED BY <1>1, <1>6, <1>8, StepsChanged

\* A step is ticked off in a cooked meal too, and says what it said.
LEMMA TickFollows ==
  ASSUME RecipesInv, NEW m \in Meals, NEW step \in ToSet(plan.steps[m]), NEW complete \in BOOLEAN,
         SetInstructionStepComplete(step.id, complete)
  PROVE  Promised
<1> DEFINE s == step.id
           new == [step EXCEPT !.complete = complete]
           p == SetStep(plan, s, new)
           k == PlaceOf(plan, s)
           steps == [plan.steps[m] EXCEPT ![k] = new]
<1>1. FinishEdit(p, {})
  BY Found DEF SetInstructionStepComplete
<1>2. step \in StepRecords
  BY Found
<1>3. new \in StepRecords /\ new.id = step.id /\ new.text = step.text /\ new.inputs = step.inputs
  BY <1>2 DEF StepRecords
<1> HIDE DEF new
<1>4. /\ k \in DOMAIN plan.steps[m] /\ plan.steps[m][k] = step
      /\ Stepped(m, steps) /\ DOMAIN steps = DOMAIN plan.steps[m]
      /\ new \in ToSet(steps) /\ \A t \in ToSet(plan.steps[m]) : t.id # s => t \in ToSet(steps)
      /\ p = [rows |-> plan.rows, steps |-> [plan.steps EXCEPT ![m] = steps], frozen |-> plan.frozen,
              groceries |-> plan.groceries, prep |-> plan.prep]
  <2>1. PlanTyped(plan)
    BY DEF RecipesInv
  <2>2. SetStep(plan, step.id, new) = WithStep(plan, m, step.id, new)
    BY <2>1, StepSet
  <2> QED BY <1>3, <2>2, StepsSet DEF WithStep
<1>5. \A i \in DOMAIN steps : Says(steps[i]) = Says(plan.steps[m][i])
  BY <1>3, <1>4 DEF Says
<1>6. \A t \in ToSet(plan.steps[m]) : t.id = step.id => t = step
  BY OwnRows DEF Stepped, OnceIn, ToSet
<1> HIDE DEF s, k, p, steps
<1>7. \A t \in ToSet(plan.steps[m]) : \E u \in ToSet(steps) : u.id = t.id /\ u.text = t.text /\ u.inputs = t.inputs
  BY <1>3, <1>4, <1>6 DEF s
<1>8. CookedSame(p)
  <2>1. /\ p.rows = plan.rows /\ p.steps = [plan.steps EXCEPT ![m] = steps] /\ p.frozen = plan.frozen
    BY <1>4
  <2>2. \A n \in Meals : p.steps[n] = IF n = m THEN steps ELSE plan.steps[n]
    BY <2>1 DEF RecipesInv, PlanTyped
  <2> QED BY <1>4, <1>5, <2>1, <2>2 DEF CookedSame
<1> QED BY <1>1, <1>4, <1>7, <1>8, StepsFollow

LEMMA CookFollows ==
  ASSUME RecipesInv, NEW m \in Meals, CookMeal(m)
  PROVE  Promised
<1> DEFINE all == [plan.frozen EXCEPT ![m] = TRUE]
           p == [plan EXCEPT !.frozen = all]
<1>1. FinishEdit(p, {})
  BY DEF CookMeal
<1>2. p = [rows |-> plan.rows, steps |-> plan.steps, frozen |-> all, groceries |-> plan.groceries, prep |-> plan.prep]
  <2> HIDE DEF all
  <2> QED BY FieldsOf DEF RecipesInv
<1> HIDE DEF p
<1>3. /\ p.rows = plan.rows /\ p.steps = plan.steps /\ p.frozen = all /\ p.groceries = plan.groceries
      /\ p = [rows |-> p.rows, steps |-> p.steps, frozen |-> p.frozen, groceries |-> p.groceries, prep |-> p.prep]
      /\ p.prep = plan.prep
  BY <1>2
<1>4. PlanTyped(p) /\ RowsOnce(p) /\ StepsOnce(p)
  BY <1>3 DEF RecipesInv, PlanTyped, RowsOnce, StepsOnce
<1>5. CookedSame(p) /\ MarksSame(p)
  BY <1>3 DEF CookedSame, MarksSame, MarksIn
<1>6. Mended(p, {})
  BY <1>3, SameWords DEF Mended
<1>7. Tells(p, {})
  BY <1>3, <1>6, SamePrep
<1> QED BY <1>1, <1>4, <1>5, <1>7, Finished DEF Keeping

-----------------------------------------------------------------------------
(* The edit of a recipe.                                                    *)

\* The rows an edit of a recipe keeps are rows of the meal, as they are or rewritten.
KeepsRows(m, retained) == Rowed(m, retained) /\ RowIds(retained) \subseteq RowIds(plan.rows[m])

LEMMA RowsKept ==
  ASSUME RecipesInv, NEW m \in Meals, NEW retained \in {plan.rows[m]} \cup Retained(plan.rows[m])
  PROVE  KeepsRows(m, retained)
<1> DEFINE rows == plan.rows[m]
           n == Len(rows)
<1>1. rows \in Seq(RowRecords) /\ Rowed(m, rows)
  BY OwnRows
<1>2. n \in Nat /\ DOMAIN rows = 1 .. n /\ \A i \in 1 .. n : rows[i] \in RowRecords
  BY <1>1, LenProperties, ElementOfSeq
<1> HIDE DEF rows, n
<1>3. \A i, j \in 1 .. n : rows[i].id = rows[j].id => i = j
  BY <1>1, <1>2 DEF Rowed, OnceIn
<1>4. CASE retained = rows
  BY <1>1, <1>4 DEF KeepsRows, rows
<1>5. ASSUME NEW k \in DOMAIN rows, retained = RemoveAt(rows, k) PROVE KeepsRows(m, retained)
  <2> DEFINE from(j) == IF j < k THEN j ELSE j + 1
  <2>1. /\ retained \in Seq(RowRecords) /\ Len(retained) = n - 1
        /\ \A j \in 1 .. n - 1 : retained[j] = IF j < k THEN rows[j] ELSE rows[j + 1]
    BY <1>1, <1>2, <1>5, Removed DEF n
  <2>2. DOMAIN retained = 1 .. n - 1
    BY <2>1, LenProperties
  <2>3. \A j \in 1 .. n - 1 : from(j) \in 1 .. n /\ retained[j] = rows[from(j)]
    BY <1>2, <2>1
  <2>4. \A i, j \in 1 .. n - 1 : from(i) = from(j) => i = j
    BY <1>2
  <2> HIDE DEF from
  <2>5. \A i, j \in 1 .. n - 1 : retained[i].id = retained[j].id => i = j
    BY <1>3, <2>3, <2>4
  <2>6. RowIds(retained) \subseteq RowIds(rows)
    BY <1>2, <2>2, <2>3 DEF RowIds, ToSet
  <2>7. \A i \in DOMAIN retained : retained[i].id \in RowIds(rows)
    BY <2>6 DEF RowIds, ToSet
  <2> QED BY <2>1, <2>2, <2>5, <2>6, <2>7 DEF KeepsRows, Rowed, OnceIn, rows
<1>6. ASSUME NEW k \in DOMAIN rows, NEW w \in Words, NEW d \in {0, 1},
             retained = [rows EXCEPT ![k] = [id |-> rows[k].id, word |-> w, detail |-> d]]
      PROVE  KeepsRows(m, retained)
  <2> DEFINE row == [id |-> rows[k].id, word |-> w, detail |-> d]
  <2>1. row \in RowRecords /\ row.id = rows[k].id
    BY <1>2 DEF RowRecords
  <2>2. retained = [rows EXCEPT ![k] = row]
    BY <1>6
  <2> HIDE DEF row
  <2>3. /\ retained \in Seq(RowRecords) /\ DOMAIN retained = 1 .. n
        /\ \A j \in 1 .. n : retained[j] = IF j = k THEN row ELSE rows[j]
    <3>1. [rows EXCEPT ![k] = row] \in Seq(RowRecords)
      BY <1>1, <1>2, <2>1, ExceptSeq DEF n
    <3> QED BY <1>2, <2>2, <3>1
  <2>4. \A j \in 1 .. n : retained[j].id = rows[j].id
    BY <2>1, <2>3
  <2>5. RowIds(retained) \subseteq RowIds(rows) /\ \A i \in DOMAIN retained : retained[i].id \in RowIds(rows)
    BY <1>2, <2>3, <2>4 DEF RowIds, ToSet
  <2>6. \A i, j \in DOMAIN retained : retained[i].id = retained[j].id => i = j
    BY <1>3, <2>3, <2>4
  <2> QED BY <2>3, <2>5, <2>6 DEF KeepsRows, Rowed, OnceIn, rows
<1>7. CASE retained \in Retained(rows)
  <2>1. \/ \E k \in DOMAIN rows : retained = RemoveAt(rows, k)
        \/ \E k \in DOMAIN rows, w \in Words, d \in {0, 1} :
             retained = [rows EXCEPT ![k] = [id |-> rows[k].id, word |-> w, detail |-> d]]
    BY <1>7 DEF Retained
  <2> QED BY <1>5, <1>6, <2>1
<1> QED BY <1>4, <1>7 DEF rows

\* With at most one row of a fresh identifier after them.
LEMMA RowsJoined ==
  ASSUME RecipesInv, NEW m \in Meals, NEW retained, KeepsRows(m, retained),
         NEW new \in Seq(RowRecords), Len(new) <= 1, \A k \in DOMAIN new : new[k].id \notin AllRows(plan)
  PROVE  Rowed(m, retained \o new) /\ ToSet(retained \o new) = ToSet(retained) \cup ToSet(new)
<1> DEFINE rows == retained \o new
           a == Len(retained)
           b == Len(new)
<1>1. retained \in Seq(RowRecords)
  BY DEF KeepsRows, Rowed
<1>2. a \in Nat /\ DOMAIN retained = 1 .. a /\ b \in Nat /\ DOMAIN new = 1 .. b
  BY <1>1, LenProperties
<1>3. rows \in Seq(RowRecords) /\ Len(rows) = a + b /\ \A i \in 1 .. a + b : rows[i] = IF i <= a THEN retained[i] ELSE new[i - a]
  BY <1>1, ConcatProperties
<1>4. DOMAIN rows = 1 .. a + b
  BY <1>3, LenProperties
<1>5. RowIds(plan.rows[m]) \subseteq AllRows(plan)
  BY OwnRows
<1>6. b <= 1
  OBVIOUS
<1> HIDE DEF rows, a, b
<1>7. \A i \in 1 .. a : retained[i].id \in RowIds(plan.rows[m])
  BY <1>2 DEF KeepsRows, RowIds, ToSet
<1>8. \A i \in 1 .. a + b : (i <= a /\ i \in 1 .. a /\ rows[i] = retained[i])
                            \/ (i = a + 1 /\ b = 1 /\ rows[i] = new[1])
  BY <1>2, <1>3, <1>6
<1>9. b = 1 => new[1].id \notin AllRows(plan)
  BY <1>2
<1>10. \A i \in DOMAIN rows : rows[i].id \in AllRows(plan) => rows[i].id \in RowIds(plan.rows[m])
  BY <1>4, <1>7, <1>8, <1>9
<1>11. ASSUME NEW i \in DOMAIN rows, NEW j \in DOMAIN rows, rows[i].id = rows[j].id PROVE i = j
  <2>1. (rows[i].id \in AllRows(plan) <=> i <= a) /\ (rows[j].id \in AllRows(plan) <=> j <= a)
    BY <1>2, <1>4, <1>5, <1>7, <1>8, <1>9
  <2>2. CASE i <= a /\ j <= a
    BY <1>2, <1>4, <1>8, <1>11, <2>2 DEF KeepsRows, Rowed, OnceIn
  <2>3. CASE ~(i <= a) /\ ~(j <= a)
    BY <1>4, <1>8, <2>3
  <2> QED BY <1>11, <2>1, <2>2, <2>3
<1>12. \A i \in 1 .. a : i \in 1 .. a + b /\ rows[i] = retained[i]
  BY <1>2, <1>3
<1>13. b = 1 => a + 1 \in 1 .. a + b /\ rows[a + 1] = new[1]
  BY <1>2, <1>3
<1>14. DOMAIN new = IF b = 1 THEN {1} ELSE {}
  <2>1. CASE b = 1
    BY <1>2, <2>1
  <2>2. CASE b # 1
    <3>1. b = 0
      BY <1>2, <1>6, <2>2
    <3> QED BY <1>2, <3>1
  <2> QED BY <2>1, <2>2
<1>15. ToSet(rows) = ToSet(retained) \cup ToSet(new)
  <2>1. ToSet(rows) \subseteq ToSet(retained) \cup ToSet(new)
    BY <1>2, <1>4, <1>8, <1>14 DEF ToSet
  <2>2. ToSet(retained) \subseteq ToSet(rows)
    BY <1>2, <1>4, <1>12 DEF ToSet
  <2>3. ToSet(new) \subseteq ToSet(rows)
    BY <1>4, <1>13, <1>14 DEF ToSet
  <2> QED BY <2>1, <2>2, <2>3
<1>16. Rowed(m, rows)
  BY <1>3, <1>10, <1>11 DEF Rowed, OnceIn
<1> QED BY <1>15, <1>16 DEF rows

\* The steps lose the rows removed.
LEMMA StepsTrimmed ==
  ASSUME RecipesInv, NEW m \in Meals, NEW removed
  PROVE  LET steps == [k \in DOMAIN plan.steps[m] |->
                         [plan.steps[m][k] EXCEPT !.inputs = Without(plan.steps[m][k].inputs, removed)]]
         IN  /\ Stepped(m, steps)
             /\ \A t \in ToSet(plan.steps[m]) :
                  \E u \in ToSet(steps) : u.id = t.id /\ u.text = t.text /\ ToSet(u.inputs) = ToSet(t.inputs) \ removed
<1> DEFINE old == plan.steps[m]
           n == Len(old)
           left(k) == Without(old[k].inputs, removed)
           steps == [k \in DOMAIN old |-> [old[k] EXCEPT !.inputs = left(k)]]
<1>1. old \in Seq(StepRecords) /\ OnceIn(old)
  BY OwnRows DEF Stepped
<1>2. n \in Nat /\ DOMAIN old = 1 .. n /\ \A k \in 1 .. n : old[k] \in StepRecords
  BY <1>1, LenProperties, ElementOfSeq
<1> HIDE DEF old, n
<1>3. \A k \in 1 .. n : left(k) \in Seq(Nat) /\ ToSet(left(k)) = ToSet(old[k].inputs) \ removed
  BY <1>2, WithoutIs DEF StepRecords
<1> HIDE DEF left
<1>4. steps = [k \in 1 .. n |-> [old[k] EXCEPT !.inputs = left(k)]]
  BY <1>2
<1>5. \A k \in 1 .. n : LET u == [old[k] EXCEPT !.inputs = left(k)] IN
        u \in StepRecords /\ u.id = old[k].id /\ u.text = old[k].text /\ u.inputs = left(k)
  BY <1>2, <1>3 DEF StepRecords
<1> HIDE DEF steps
<1>6. \A k \in 1 .. n : steps[k] \in StepRecords /\ steps[k].id = old[k].id /\ steps[k].text = old[k].text
                        /\ ToSet(steps[k].inputs) = ToSet(old[k].inputs) \ removed
  BY <1>3, <1>4, <1>5
<1>7. DOMAIN steps = 1 .. n /\ steps \in [1 .. n -> StepRecords]
  BY <1>4, <1>6
<1>8. steps \in Seq(StepRecords) /\ OnceIn(steps)
  BY <1>1, <1>2, <1>6, <1>7, SeqDef DEF OnceIn
<1>9. \A t \in ToSet(steps) : t.id \in RowIds(plan.steps[m])
  BY <1>2, <1>6, <1>7 DEF RowIds, ToSet, old
<1>10. Stepped(m, steps)
  BY <1>8, <1>9, SteppedBy
<1>11. ASSUME NEW t \in ToSet(old)
       PROVE  \E u \in ToSet(steps) : u.id = t.id /\ u.text = t.text /\ ToSet(u.inputs) = ToSet(t.inputs) \ removed
  <2>1. PICK k \in 1 .. n : t = old[k]
    BY <1>2 DEF ToSet
  <2>2. steps[k] \in ToSet(steps)
    BY <1>7 DEF ToSet
  <2> QED BY <1>6, <2>1, <2>2
<1> QED BY <1>10, <1>11 DEF steps, left, old

\* The row a kept one was, and what the steps spared by the edit read.
WasRow(m, r) == CHOOSE o \in ToSet(plan.rows[m]) : o.id = r.id

LEMMA RowWas ==
  ASSUME RecipesInv, NEW m \in Meals, NEW retained, KeepsRows(m, retained), NEW r \in ToSet(retained)
  PROVE  WasRow(m, r) \in ToSet(plan.rows[m]) /\ WasRow(m, r).id = r.id
<1>1. \E o \in ToSet(plan.rows[m]) : o.id = r.id
  BY DEF KeepsRows, RowIds
<1> QED BY <1>1 DEF WasRow

LEMMA SparedRows ==
  ASSUME RecipesInv, NEW m \in Meals, NEW retained, KeepsRows(m, retained), NEW rows, NEW added,
         ToSet(rows) = ToSet(retained) \cup ToSet(added), \A r \in ToSet(added) : r.id \notin AllRows(plan),
         NEW t \in ToSet(plan.steps[m]),
         ToSet(t.inputs) \cap (RowIds(plan.rows[m]) \ RowIds(retained)) = {},
         \A r \in ToSet(retained) : r # WasRow(m, r) => r.id \notin ToSet(t.inputs)
  PROVE  {r \in ToSet(rows) : r.id \in ToSet(t.inputs)} = {r \in ToSet(plan.rows[m]) : r.id \in ToSet(t.inputs)}
<1>1. ToSet(t.inputs) \subseteq RowIds(plan.rows[m]) /\ RowIds(plan.rows[m]) \subseteq AllRows(plan)
  BY OwnRows DEF RecipesInv, Seen
<1>2. ASSUME NEW r \in ToSet(rows), r.id \in ToSet(t.inputs) PROVE r \in ToSet(plan.rows[m])
  <2>1. r \in ToSet(retained)
    BY <1>1, <1>2
  <2> QED BY <1>2, <2>1, RowWas
<1>3. ASSUME NEW o \in ToSet(plan.rows[m]), o.id \in ToSet(t.inputs) PROVE o \in ToSet(rows)
  <2>1. PICK r \in ToSet(retained) : r.id = o.id
    BY <1>3 DEF RowIds
  <2>2. WasRow(m, r) \in ToSet(plan.rows[m]) /\ WasRow(m, r).id = o.id
    BY <2>1, RowWas
  <2>3. WasRow(m, r) = o
    BY <2>2, SameRow
  <2>4. r = o
    BY <1>3, <2>1, <2>3
  <2> QED BY <2>4
<1> QED BY <1>2, <1>3

LEMMA EditRecipeFollows ==
  ASSUME RecipesInv, NEW m \in Meals, NEW retained, KeepsRows(m, retained), NEW created \in Seq(Words),
         Len(created) <= 1, EditMealRecipe(m, retained, created)
  PROVE  Promised
<1> DEFINE new == Fresh(AllRows(plan))
           removed == RowIds(plan.rows[m]) \ RowIds(retained)
           added == [k \in DOMAIN created |-> [id |-> new, word |-> created[k], detail |-> 0]]
           rows == retained \o added
           steps == [k \in DOMAIN plan.steps[m] |->
                       [plan.steps[m][k] EXCEPT !.inputs = Without(plan.steps[m][k].inputs, removed)]]
           renamed == {r.id : r \in {q \in ToSet(retained) : q.word # WasRow(m, q).word}}
           rewritten == {r.id : r \in {q \in ToSet(retained) : q # WasRow(m, q)}}
           affected == {s.id : s \in {t \in ToSet(plan.steps[m]) : ToSet(t.inputs) \cap (removed \cup rewritten) # {}}}
           marks == [r \in DOMAIN plan.groceries |->
                       IF r \in renamed THEN [plan.groceries[r] EXCEPT !.coverage = "needs_source", !.checked = FALSE]
                       ELSE plan.groceries[r]]
           allRows == [plan.rows EXCEPT ![m] = rows]
           allSteps == [plan.steps EXCEPT ![m] = steps]
           edited == [plan EXCEPT !.rows[m] = rows, !.steps[m] = steps, !.groceries = marks]
           p == Invalidate(edited, affected)
<1>1. ~plan.frozen[m] /\ FinishEdit(Reconcile(p), {})
  BY DEF EditMealRecipe, Editable, WasRow
<1>2. new \in Nat /\ new \notin AllRows(plan)
  BY FreshOnes DEF RecipesInv
<1> HIDE DEF new
<1>3. added \in Seq(RowRecords) /\ Len(added) <= 1 /\ \A k \in DOMAIN added : added[k].id \notin AllRows(plan)
  <2>1. Len(created) \in Nat /\ DOMAIN created = 1 .. Len(created) /\ \A k \in 1 .. Len(created) : created[k] \in Words
    BY LenProperties, ElementOfSeq
  <2>2. \A k \in DOMAIN created : added[k] \in RowRecords /\ added[k].id = new
    BY <1>2, <2>1 DEF RowRecords
  <2>3. DOMAIN added = 1 .. Len(created) /\ added = [k \in 1 .. Len(created) |-> added[k]]
    BY <2>1
  <2> HIDE DEF added
  <2>4. added \in [1 .. Len(created) -> RowRecords]
    BY <2>1, <2>2, <2>3
  <2>5. added \in Seq(RowRecords)
    BY <2>1, <2>4, SeqDef
  <2>6. Len(added) = Len(created)
    BY <2>1, <2>3, <2>5, LenProperties
  <2> QED BY <1>2, <2>1, <2>2, <2>3, <2>5, <2>6
<1> HIDE DEF added
<1>4. Rowed(m, rows) /\ ToSet(rows) = ToSet(retained) \cup ToSet(added)
  BY <1>3, RowsJoined
<1> HIDE DEF rows
<1>5. /\ Stepped(m, steps)
      /\ \A t \in ToSet(plan.steps[m]) :
           \E u \in ToSet(steps) : u.id = t.id /\ u.text = t.text /\ ToSet(u.inputs) = ToSet(t.inputs) \ removed
  <2> HIDE DEF removed
  <2> QED BY StepsTrimmed
<1> HIDE DEF steps
<1>6. Replaces(m, rows, steps)
  BY <1>4, <1>5 DEF Replaces
<1>7. Telling(m, rows, steps, affected)
  <2> SUFFICES ASSUME NEW t \in ToSet(plan.steps[m]), t.id \notin affected
               PROVE  \E u \in ToSet(steps) :
                        /\ u.id = t.id /\ u.text = t.text /\ ToSet(u.inputs) = ToSet(t.inputs)
                        /\ {r \in ToSet(rows) : r.id \in ToSet(t.inputs)}
                             = {r \in ToSet(plan.rows[m]) : r.id \in ToSet(t.inputs)}
    BY DEF Telling
  <2>1. ToSet(t.inputs) \cap (removed \cup rewritten) = {}
    <3> HIDE DEF removed, rewritten
    <3> QED OBVIOUS
  <2>2. \A r \in ToSet(added) : r.id \notin AllRows(plan)
    BY <1>3 DEF ToSet
  <2>3. \A r \in ToSet(retained) : r # WasRow(m, r) => r.id \notin ToSet(t.inputs)
    BY <2>1
  <2>4. {r \in ToSet(rows) : r.id \in ToSet(t.inputs)} = {r \in ToSet(plan.rows[m]) : r.id \in ToSet(t.inputs)}
    BY <1>4, <2>1, <2>2, <2>3, SparedRows
  <2>5. PICK u \in ToSet(steps) : u.id = t.id /\ u.text = t.text /\ ToSet(u.inputs) = ToSet(t.inputs) \ removed
    BY <1>5
  <2>6. ToSet(u.inputs) = ToSet(t.inputs)
    BY <2>1, <2>5
  <2> QED BY <2>4, <2>5, <2>6
<1>8. edited = [rows |-> allRows, steps |-> allSteps, frozen |-> plan.frozen, groceries |-> marks, prep |-> plan.prep]
  <2> DEFINE first == [plan EXCEPT !.rows = allRows]
             second == [first EXCEPT !.steps = allSteps]
             third == [second EXCEPT !.groceries = marks]
  <2>1. edited = third
    <3> HIDE DEF marks
    <3>1. plan = [rows |-> plan.rows, steps |-> plan.steps, frozen |-> plan.frozen, groceries |-> plan.groceries, prep |-> plan.prep]
      BY DEF RecipesInv, PlanTyped
    <3> QED BY <3>1
  <2> HIDE DEF allRows, allSteps, marks, edited
  <2>2. first = [rows |-> allRows, steps |-> plan.steps, frozen |-> plan.frozen, groceries |-> plan.groceries, prep |-> plan.prep]
    BY FieldsOf DEF RecipesInv
  <2> HIDE DEF first
  <2>3. second = [rows |-> allRows, steps |-> allSteps, frozen |-> plan.frozen, groceries |-> plan.groceries, prep |-> plan.prep]
    BY <2>2
  <2> HIDE DEF second
  <2> QED BY <2>1, <2>3
<1>9. DOMAIN marks = AllRows(plan) /\ \A x \in AllRows(plan) \ renamed : marks[x] = plan.groceries[x]
  BY DEF RecipesInv, Seen
<1>10. \A x \in renamed : \E q \in ToSet(retained) : q.id = x /\ q.word # WasRow(m, q).word
  OBVIOUS
<1> HIDE DEF edited, marks, renamed, rewritten, affected, removed
<1>11. Edited(edited, m, rows, steps) /\ edited.groceries = marks /\ edited.prep = plan.prep
  BY <1>8 DEF Edited
<1>12. PlanTyped(edited) /\ RowsOnce(edited) /\ StepsOnce(edited) /\ CookedSame(edited) /\ Mended(edited, affected)
  BY <1>1, <1>6, <1>7, <1>11, EditedKeeps, EditedTells
<1>13. MarksIn(edited)
  <2> SUFFICES ASSUME NEW n \in Meals, NEW r \in ToSet(plan.rows[n]), NEW q \in ToSet(edited.rows[n]),
                      r.id = q.id, r.word = q.word, r.id \in renamed
               PROVE  FALSE
    BY <1>9, <1>11 DEF MarksIn, AllRows, RowIds
  <2>1. PICK x \in ToSet(retained) : x.id = r.id /\ x.word # WasRow(m, x).word
    BY <1>10
  <2>2. WasRow(m, x) \in ToSet(plan.rows[m]) /\ WasRow(m, x).id = x.id
    BY RowWas
  <2>3. n = m /\ WasRow(m, x) = r
    BY <2>1, <2>2, SameRow
  <2>4. edited.rows[m] = rows
    BY <1>11 DEF Edited, RecipesInv, PlanTyped
  <2>5. x \in ToSet(rows) /\ q \in ToSet(rows)
    BY <1>4, <2>3, <2>4
  <2>6. x = q
    BY <1>4, <2>1, <2>5 DEF Rowed, OnceIn, ToSet
  <2> QED BY <2>1, <2>3, <2>6
<1>14. /\ p.rows = edited.rows /\ p.steps = edited.steps /\ p.frozen = edited.frozen
       /\ p.groceries = edited.groceries /\ Tells(p, {})
       /\ p = [rows |-> p.rows, steps |-> p.steps, frozen |-> p.frozen, groceries |-> p.groceries, prep |-> p.prep]
  BY <1>11, <1>12, Invalidated
<1> HIDE DEF p
<1>15. PlanTyped(p)
  BY <1>12, <1>14 DEF PlanTyped
<1>16. RowsOnce(p) /\ StepsOnce(p)
  BY <1>12, <1>14 DEF RowsOnce, StepsOnce
<1>17. CookedSame(p)
  BY <1>12, <1>14 DEF CookedSame
<1>18. MarksIn(p) /\ DOMAIN p.groceries = AllRows(plan)
  BY <1>9, <1>11, <1>13, <1>14 DEF MarksIn
<1>19. Keeping(Reconcile(p)) /\ Tells(Reconcile(p), {})
  BY <1>14, <1>15, <1>16, <1>17, <1>18, Reconciled
<1> QED BY <1>1, <1>19, Finished

-----------------------------------------------------------------------------
(* The queues of the prep dates.                                            *)

LEMMA SeqOver ==
  ASSUME NEW S, NEW s \in Seq(S), NEW T, ToSet(s) \subseteq T
  PROVE  s \in Seq(T)
<1>1. Len(s) \in Nat /\ DOMAIN s = 1 .. Len(s) /\ s = [k \in 1 .. Len(s) |-> s[k]]
  BY LenProperties, SeqDef
<1>2. \A k \in 1 .. Len(s) : s[k] \in T
  BY <1>1 DEF ToSet
<1> DEFINE n == Len(s)
<1> HIDE DEF n
<1>3. s \in [1 .. n -> T]
  BY <1>1, <1>2 DEF n
<1> QED BY <1>1, <1>3, SeqDef DEF n

LEMMA Joined ==
  ASSUME NEW S, NEW s \in Seq(S), NEW t \in Seq(S)
  PROVE  s \o t \in Seq(S) /\ ToSet(s \o t) = ToSet(s) \cup ToSet(t)
<1> DEFINE r == s \o t
           a == Len(s)
           b == Len(t)
<1>1. /\ r \in Seq(S) /\ Len(r) = a + b
      /\ \A i \in 1 .. a + b : r[i] = IF i <= a THEN s[i] ELSE t[i - a]
  BY ConcatProperties
<1>2. a \in Nat /\ b \in Nat /\ DOMAIN s = 1 .. a /\ DOMAIN t = 1 .. b /\ DOMAIN r = 1 .. a + b
  BY <1>1, LenProperties
<1> HIDE DEF r, a, b
<1>3. \A i \in 1 .. a : i \in 1 .. a + b /\ r[i] = s[i]
  BY <1>1, <1>2
<1>4. \A i \in 1 .. b : a + i \in 1 .. a + b /\ r[a + i] = t[i]
  <2> SUFFICES ASSUME NEW i \in 1 .. b PROVE a + i \in 1 .. a + b /\ r[a + i] = t[i]
    OBVIOUS
  <2> DEFINE j == a + i
  <2>1. j \in 1 .. a + b /\ ~(j <= a) /\ j - a = i
    BY <1>2
  <2> HIDE DEF j
  <2>2. r[j] = t[j - a]
    BY <1>1, <2>1
  <2> QED BY <2>1, <2>2 DEF j
<1>5. \A i \in 1 .. a + b : (i \in 1 .. a /\ r[i] = s[i]) \/ (i - a \in 1 .. b /\ r[i] = t[i - a])
  BY <1>1, <1>2
<1>6. ToSet(r) \subseteq ToSet(s) \cup ToSet(t)
  BY <1>2, <1>5 DEF ToSet
<1>7. ToSet(s) \subseteq ToSet(r) /\ ToSet(t) \subseteq ToSet(r)
  BY <1>2, <1>3, <1>4 DEF ToSet
<1> QED BY <1>1, <1>6, <1>7 DEF r

\* Queues of entries that were there.
LEMMA FewerQueued ==
  ASSUME NEW b, QueuesTyped(b), QueuesOnce(b), NEW x, x = [c \in PrepDates |-> x[c]],
         NEW S, \A c \in PrepDates : x[c] \in Seq(S) /\ ToSet(x[c]) \subseteq ToSet(b[c])
  PROVE  QueuesTyped(x) /\ QueuesOnce(x) /\ OnDates(x) \subseteq OnDates(b)
<1>1. OnDates(x) \subseteq OnDates(b)
  BY DEF OnDates
<1>2. ASSUME NEW c \in PrepDates PROVE x[c] \in Seq(OnDates(x))
  <2>1. ToSet(x[c]) \subseteq OnDates(x)
    BY DEF OnDates
  <2> QED BY <2>1, SeqOver
<1>3. QueuesTyped(x)
  BY <1>1, <1>2 DEF QueuesTyped
<1>4. QueuesOnce(x)
  BY DEF QueuesOnce
<1> QED BY <1>1, <1>3, <1>4

\* One queue becomes another: an identifier of it that was in use was on its date.
Fits(b, d, q) ==
  /\ \A e \in ToSet(q) : EntryTyped(e) /\ \A c \in PrepDates : \A f \in ToSet(b[c]) : f.id = e.id => c = d
  /\ \A e, f \in ToSet(q) : e.id = f.id => e = f

LEMMA OneQueue ==
  ASSUME NEW b, QueuesTyped(b), QueuesOnce(b), NEW d \in PrepDates, NEW S, NEW q \in Seq(S), Fits(b, d, q)
  PROVE  LET x == [b EXCEPT ![d] = q]
         IN  QueuesTyped(x) /\ QueuesOnce(x) /\ OnDates(x) \subseteq OnDates(b) \cup ToSet(q)
<1> DEFINE x == [b EXCEPT ![d] = q]
<1>1. x = [c \in PrepDates |-> x[c]] /\ \A c \in PrepDates : x[c] = IF c = d THEN q ELSE b[c]
  BY DEF QueuesTyped
<1> HIDE DEF x
<1>2. OnDates(x) \subseteq OnDates(b) \cup ToSet(q)
  BY <1>1 DEF OnDates
<1>3. ASSUME NEW c \in PrepDates PROVE x[c] \in Seq(OnDates(x))
  <2>1. ToSet(x[c]) \subseteq OnDates(x)
    BY DEF OnDates
  <2>2. \E T : x[c] \in Seq(T)
    BY <1>1 DEF QueuesTyped
  <2> QED BY <2>1, <2>2, SeqOver
<1>4. QueuesTyped(x)
  BY <1>1, <1>2, <1>3 DEF QueuesTyped, Fits
<1>5. QueuesOnce(x)
  <2> SUFFICES ASSUME NEW a \in PrepDates, NEW c \in PrepDates, NEW e \in ToSet(x[a]), NEW f \in ToSet(x[c]), e.id = f.id
               PROVE  a = c /\ e = f
    BY DEF QueuesOnce
  <2>1. CASE a = d /\ c = d
    BY <1>1, <2>1 DEF Fits
  <2>2. CASE a = d /\ c # d
    BY <1>1, <2>2 DEF Fits
  <2>3. CASE a # d /\ c = d
    BY <1>1, <2>3 DEF Fits
  <2>4. CASE a # d /\ c # d
    BY <1>1, <2>4 DEF QueuesOnce
  <2> QED BY <2>1, <2>2, <2>3, <2>4
<1> QED BY <1>2, <1>4, <1>5 DEF x

-----------------------------------------------------------------------------
(* The commands on prep dates.                                              *)

\* What an entry may be after a command: as it was, or its instruction new or to be reviewed.
Stands(e, fresh) ==
  e.kind = "combined" =>
    \/ e.id \in fresh \/ (e.review /\ ~e.complete)
    \/ \E old \in OnDates(plan.prep) :
         old.kind = "combined" /\ old.id = e.id /\ Sources(old) = Sources(e) /\ (old.review => e.review)

LEMMA PrepFollows ==
  ASSUME RecipesInv, NEW x, NEW fresh, FinishEdit([plan EXCEPT !.prep = x], fresh),
         QueuesTyped(x), QueuesOnce(x), \A e \in OnDates(x) : Stands(e, fresh)
  PROVE  Promised
<1> DEFINE p == [plan EXCEPT !.prep = x]
<1>1. Keeping(p) /\ p.prep = x /\ \A s : Worded(p, s) = Worded(plan, s)
  BY OnlyPrep
<1>2. FinishEdit(p, fresh)
  OBVIOUS
<1> HIDE DEF p
<1>3. EntriesOf(p) = OnDates(x) /\ EntriesOf(plan) = OnDates(plan.prep)
  BY <1>1 DEF EntriesOf, OnDates
<1>4. \A e \in CombinedIn(EntriesOf(p)) : e.id \in fresh \/ (e.review /\ ~e.complete) \/ WasHere(p, e)
  BY <1>1, <1>3 DEF CombinedIn, Stands, WasHere
<1>5. Tells(p, fresh)
  BY <1>1, <1>4 DEF Tells
<1> QED BY <1>1, <1>2, <1>5, Finished DEF Promised

\* The entries there are stand as they are.
LEMMA OldStands == \A fresh : \A e \in OnDates(plan.prep) : Stands(e, fresh)
BY DEF Stands

\* One date gets another queue.
LEMMA QueueFollows ==
  ASSUME RecipesInv, NEW d \in PrepDates, NEW S, NEW q \in Seq(S), NEW fresh,
         FinishEdit([plan EXCEPT !.prep = [plan.prep EXCEPT ![d] = q]], fresh),
         Fits(plan.prep, d, q), \A e \in ToSet(q) : Stands(e, fresh)
  PROVE  Promised
<1> DEFINE x == [plan.prep EXCEPT ![d] = q]
<1>1. QueuesTyped(plan.prep) /\ QueuesOnce(plan.prep)
  BY DEF RecipesInv
<1>2. QueuesTyped(x) /\ QueuesOnce(x) /\ OnDates(x) \subseteq OnDates(plan.prep) \cup ToSet(q)
  BY <1>1, OneQueue
<1>3. FinishEdit([plan EXCEPT !.prep = x], fresh)
  OBVIOUS
<1> HIDE DEF x
<1>4. \A e \in OnDates(x) : Stands(e, fresh)
  BY <1>2, OldStands
<1> QED BY <1>2, <1>3, <1>4, PrepFollows

\* One date gets a queue of some of its entries.
LEMMA LessFollows ==
  ASSUME RecipesInv, NEW d \in PrepDates, NEW S, NEW q \in Seq(S), NEW fresh,
         FinishEdit([plan EXCEPT !.prep = [plan.prep EXCEPT ![d] = q]], fresh),
         ToSet(q) \subseteq ToSet(plan.prep[d])
  PROVE  Promised
<1>1. ToSet(q) \subseteq OnDates(plan.prep)
  BY DEF OnDates
<1>2. Fits(plan.prep, d, q)
  BY <1>1 DEF Fits, RecipesInv, QueuesTyped, QueuesOnce
<1>3. \A e \in ToSet(q) : Stands(e, fresh)
  BY <1>1, OldStands
<1> QED BY <1>2, <1>3, QueueFollows

\* Direct entries under identifiers of their own, and the queue they join.
LEMMA DirectOnes ==
  ASSUME RecipesInv, NEW n \in Nat, NEW steps
  PROVE  LET ids == FreshIds(EntryIds(plan), n)
             new == [k \in 1 .. n |-> DirectEntry(ids[k], steps[k])]
         IN  /\ new \in Seq(ToSet(new)) /\ Len(new) = n
             /\ \A e \in ToSet(new) : EntryTyped(e) /\ e.kind = "direct" /\ e.id \notin EntryIds(plan)
             /\ \A e, f \in ToSet(new) : e.id = f.id => e = f
<1> DEFINE ids == FreshIds(EntryIds(plan), n)
           At(k) == DirectEntry(ids[k], steps[k])
           new == [k \in 1 .. n |-> At(k)]
<1>1. IsFiniteSet(EntryIds(plan))
  <2>1. QueuesTyped(plan.prep)
    BY DEF RecipesInv
  <2>2. EntryIds(plan) = {e.id : e \in OnDates(plan.prep)}
    BY DEF EntryIds, EntriesOf, OnDates
  <2> QED BY <2>1, <2>2, QueuedFinite
<1>2. (\A j, k \in 1 .. n : ids[j] = ids[k] => j = k) /\ \A k \in 1 .. n : ids[k] \notin EntryIds(plan)
  BY <1>1, NewIds
<1> HIDE DEF ids
<1>3. \A k \in 1 .. n : EntryTyped(At(k)) /\ At(k).kind = "direct" /\ At(k).id = ids[k]
  <2> SUFFICES ASSUME NEW k \in 1 .. n PROVE EntryTyped(At(k)) /\ At(k).kind = "direct" /\ At(k).id = ids[k]
    OBVIOUS
  <2> DEFINE a == ids[k]
             one == <<[step |-> steps[k], rows |-> {}]>>
             say == ""
             no == FALSE
  <2>1. At(k) = [id |-> a, kind |-> "direct", sources |-> one, text |-> say, complete |-> no, review |-> no]
    BY DEF DirectEntry
  <2>2. one \in Seq({one[1]})
    OBVIOUS
  <2> HIDE DEF a, one, say, no, At
  <2>3. /\ At(k).id = a /\ At(k).kind = "direct" /\ At(k).sources = one /\ At(k).text = say
        /\ At(k).complete = no /\ At(k).review = no /\ "direct" # "combined"
    BY <2>1
  <2>4. EntryTyped(At(k))
    BY <2>1, <2>2, <2>3 DEF EntryTyped
  <2> QED BY <2>3, <2>4 DEF a
<1> HIDE DEF At
<1>4. DOMAIN new = 1 .. n /\ \A k \in 1 .. n : new[k] = At(k)
  OBVIOUS
<1>5. ToSet(new) = {At(k) : k \in 1 .. n}
  BY <1>4 DEF ToSet
<1>6. new \in [1 .. n -> ToSet(new)]
  BY <1>5
<1>7. new \in Seq(ToSet(new))
  <2> HIDE DEF new
  <2> QED BY <1>6, SeqDef
<1>8. Len(new) = n
  <2> HIDE DEF new
  <2> QED BY <1>4, <1>7, LenProperties
<1>9. \A e \in ToSet(new) : EntryTyped(e) /\ e.kind = "direct" /\ e.id \notin EntryIds(plan)
  BY <1>2, <1>3, <1>5
<1>10. \A e, f \in ToSet(new) : e.id = f.id => e = f
  BY <1>2, <1>3, <1>5
<1> QED BY <1>7, <1>8, <1>9, <1>10 DEF new, At, ids

\* A queue of entries it had and of direct ones that are new.
LEMMA JoinedFollows ==
  ASSUME RecipesInv, NEW d \in PrepDates, NEW S, NEW q \in Seq(S), NEW new, NEW fresh,
         FinishEdit([plan EXCEPT !.prep = [plan.prep EXCEPT ![d] = q]], fresh),
         ToSet(q) \subseteq ToSet(plan.prep[d]) \cup new,
         \A e \in new : EntryTyped(e) /\ Stands(e, fresh) /\ e.id \notin EntryIds(plan),
         \A e, f \in new : e.id = f.id => e = f
  PROVE  Promised
<1>1. \A c \in PrepDates : \A e \in ToSet(plan.prep[c]) : e \in OnDates(plan.prep) /\ e.id \in EntryIds(plan)
  BY DEF OnDates, EntryIds, EntriesOf
<1>2. \A e \in ToSet(q) : EntryTyped(e) /\ Stands(e, fresh)
  BY <1>1, OldStands DEF RecipesInv, QueuesTyped
<1>3. \A e \in ToSet(q), c \in PrepDates : \A f \in ToSet(plan.prep[c]) : f.id = e.id => c = d
  BY <1>1 DEF RecipesInv, QueuesOnce
<1>4. \A e, f \in ToSet(q) : e.id = f.id => e = f
  BY <1>1 DEF RecipesInv, QueuesOnce
<1>5. Fits(plan.prep, d, q)
  BY <1>2, <1>3, <1>4 DEF Fits
<1> QED BY <1>2, <1>5, QueueFollows

LEMMA QueueOf ==
  ASSUME RecipesInv, NEW d \in PrepDates
  PROVE  /\ plan.prep[d] \in Seq(OnDates(plan.prep)) /\ ToSet(plan.prep[d]) \subseteq OnDates(plan.prep)
         /\ Len(plan.prep[d]) \in Nat /\ DOMAIN plan.prep[d] = 1 .. Len(plan.prep[d])
<1>1. plan.prep[d] \in Seq(OnDates(plan.prep)) /\ ToSet(plan.prep[d]) \subseteq OnDates(plan.prep)
  BY DEF RecipesInv, QueuesTyped, OnDates
<1> QED BY <1>1, LenProperties

LEMMA AddPrepFollows ==
  ASSUME RecipesInv, NEW d \in PrepDates, NEW S, NEW steps \in Seq(S), NEW at \in Positions(plan.prep[d]),
         AddPrepStepsToDate(d, steps, at)
  PROVE  Promised
<1> DEFINE n == Len(steps)
           ids == FreshIds(EntryIds(plan), n)
           new == [k \in DOMAIN steps |-> DirectEntry(ids[k], steps[k])]
           q == Splice(plan.prep[d], at, new)
           T == OnDates(plan.prep) \cup ToSet(new)
<1>1. FinishEdit([plan EXCEPT !.prep = [plan.prep EXCEPT ![d] = q]], {})
  BY DEF AddPrepStepsToDate
<1>2. n \in Nat /\ DOMAIN steps = 1 .. n
  BY LenProperties
<1>3. /\ new \in Seq(ToSet(new))
      /\ \A e \in ToSet(new) : EntryTyped(e) /\ e.kind = "direct" /\ e.id \notin EntryIds(plan)
      /\ \A e, f \in ToSet(new) : e.id = f.id => e = f
  BY <1>2, DirectOnes
<1> HIDE DEF new
<1>4. new \in Seq(T) /\ plan.prep[d] \in Seq(T)
  BY <1>3, QueueOf, SeqOver
<1>5. at \in 0 .. Len(plan.prep[d])
  BY DEF Positions
<1> HIDE DEF T
<1>6. q \in Seq(T) /\ ToSet(q) = ToSet(plan.prep[d]) \cup ToSet(new)
  BY <1>4, <1>5, Spliced
<1> HIDE DEF q
<1>7. \A e \in ToSet(new) : Stands(e, {})
  BY <1>3 DEF Stands
<1> QED BY <1>1, <1>3, <1>6, <1>7, JoinedFollows

\* A combined entry is on one place of its queue.
LEMMA OnePlace ==
  ASSUME RecipesInv, NEW d \in PrepDates, NEW k \in DOMAIN plan.prep[d], plan.prep[d][k].kind = "combined",
         NEW j \in DOMAIN plan.prep[d], j # k
  PROVE  plan.prep[d][j].id # plan.prep[d][k].id
<1> DEFINE e == plan.prep[d][k]
           f == plan.prep[d][j]
<1>1. e \in ToSet(plan.prep[d]) /\ f \in ToSet(plan.prep[d])
  BY DEF ToSet
<1>2. Sources(e) \cap Sources(f) = {}
  BY DEF RecipesInv, Seen
<1>3. EntryTyped(e)
  BY <1>1, QueueOf DEF RecipesInv, QueuesTyped
<1>4. Sources(e) # {}
  BY <1>3 DEF EntryTyped
<1>5. f.id = e.id => f = e
  BY <1>1 DEF RecipesInv, QueuesOnce
<1> QED BY <1>2, <1>4, <1>5

LEMMA EntrySet ==
  ASSUME RecipesInv, NEW d \in PrepDates, NEW k \in DOMAIN plan.prep[d], plan.prep[d][k].kind = "combined",
         NEW entry, EntryTyped(entry), entry.id = plan.prep[d][k].id, NEW fresh, Stands(entry, fresh),
         FinishEdit([plan EXCEPT !.prep = [plan.prep EXCEPT ![d] = [plan.prep[d] EXCEPT ![k] = entry]]], fresh)
  PROVE  Promised
<1> DEFINE b == plan.prep[d]
           q == [b EXCEPT ![k] = entry]
           T == OnDates(plan.prep) \cup {entry}
<1>1. b \in Seq(OnDates(plan.prep)) /\ DOMAIN b = 1 .. Len(b)
  BY QueueOf
<1>2. q \in Seq(T)
  <2>1. q = [j \in DOMAIN b |-> q[j]] /\ \A j \in DOMAIN b : q[j] \in T
    <3>1. \A j \in DOMAIN b : b[j] \in OnDates(plan.prep)
      BY <1>1, ElementOfSeq
    <3> QED BY <1>1, <3>1
  <2> HIDE DEF q, b, T
  <2> QED BY <1>1, <2>1, SeqMade
<1>3. \A e \in ToSet(q) : e = entry \/ \E j \in DOMAIN b : j # k /\ e = b[j]
  BY <1>1 DEF ToSet
<1>4. FinishEdit([plan EXCEPT !.prep = [plan.prep EXCEPT ![d] = q]], fresh)
  OBVIOUS
<1>5. \A j \in DOMAIN b : b[j] \in ToSet(b) /\ b[j] \in OnDates(plan.prep) /\ EntryTyped(b[j])
  BY QueueOf DEF ToSet, RecipesInv, QueuesTyped
<1>6. \A j \in DOMAIN b : j # k => b[j].id # entry.id
  BY OnePlace
<1>7. entry.id = b[k].id /\ k \in DOMAIN b
  OBVIOUS
<1>8. \A c \in PrepDates : \A e \in ToSet(b), f \in ToSet(plan.prep[c]) : f.id = e.id => c = d /\ e = f
  BY DEF RecipesInv, QueuesOnce
<1> HIDE DEF q
<1>9. Fits(plan.prep, d, q)
  <2>1. \A e \in ToSet(q) : EntryTyped(e)
    BY <1>3, <1>5
  <2>2. \A e \in ToSet(q) : \E o \in ToSet(b) : e.id = o.id
    BY <1>3, <1>5, <1>7
  <2>3. \A e \in ToSet(q), c \in PrepDates : \A f \in ToSet(plan.prep[c]) : f.id = e.id => c = d
    BY <1>8, <2>2
  <2>4. \A e, f \in ToSet(q) : e.id = f.id => e = f
    BY <1>3, <1>5, <1>6, <1>8
  <2> QED BY <2>1, <2>3, <2>4 DEF Fits
<1>10. \A e \in ToSet(q) : Stands(e, fresh)
  BY <1>3, <1>5, OldStands
<1> QED BY <1>2, <1>4, <1>9, <1>10, QueueFollows

LEMMA UpdateFollows ==
  ASSUME RecipesInv, NEW d \in PrepDates, NEW k \in DOMAIN plan.prep[d], NEW text, NEW discard,
         UpdateCombinedPrepStep(d, k, text, discard)
  PROVE  Promised
<1> DEFINE e == plan.prep[d][k]
           sources == [j \in DOMAIN e.sources |-> SourceOf(plan, e.sources[j].step)]
           no == FALSE
           entry == [e EXCEPT !.text = text, !.complete = no, !.review = no, !.sources = sources]
<1>1. /\ e.kind = "combined"
      /\ FinishEdit([plan EXCEPT !.prep = [plan.prep EXCEPT ![d] = [plan.prep[d] EXCEPT ![k] = entry]]], {e.id})
  BY DEF UpdateCombinedPrepStep, ChangeEntry
<1>2. EntryTyped(e)
  <2>1. e \in OnDates(plan.prep)
    BY QueueOf DEF ToSet
  <2> QED BY <2>1 DEF RecipesInv, QueuesTyped
<1> HIDE DEF e
<1>3. /\ DOMAIN sources = DOMAIN e.sources /\ \A j \in DOMAIN sources : sources[j].step = e.sources[j].step
      /\ sources = [j \in DOMAIN e.sources |-> sources[j]]
  BY DEF SourceOf
<1> HIDE DEF sources, no
<1>4. entry = [id |-> e.id, kind |-> e.kind, text |-> text, sources |-> sources, complete |-> no, review |-> no]
  <2>1. PICK a, b, c, s, u, v : e = [id |-> a, kind |-> b, text |-> c, sources |-> s, complete |-> u, review |-> v]
    BY <1>2 DEF EntryTyped
  <2> DEFINE one == [e EXCEPT !.text = text]
             two == [one EXCEPT !.complete = no]
             three == [two EXCEPT !.review = no]
             four == [three EXCEPT !.sources = sources]
  <2>2. entry = four
    BY <2>1
  <2> HIDE DEF entry
  <2>3. one = [id |-> a, kind |-> b, text |-> text, sources |-> s, complete |-> u, review |-> v]
    BY <2>1
  <2> HIDE DEF one
  <2>4. two = [id |-> a, kind |-> b, text |-> text, sources |-> s, complete |-> no, review |-> v]
    BY <2>3
  <2> HIDE DEF two
  <2>5. three = [id |-> a, kind |-> b, text |-> text, sources |-> s, complete |-> no, review |-> no]
    BY <2>4
  <2> HIDE DEF three
  <2>6. four = [id |-> a, kind |-> b, text |-> text, sources |-> sources, complete |-> no, review |-> no]
    BY <2>5
  <2>7. e.id = a /\ e.kind = b
    BY <2>1
  <2> QED BY <2>2, <2>6, <2>7
<1> HIDE DEF entry
<1>5. /\ entry.id = e.id /\ entry.kind = e.kind /\ entry.text = text /\ entry.sources = sources
      /\ entry.complete = no /\ entry.review = no
  BY <1>4
<1>6. Sources(entry) = Sources(e)
  BY <1>3, <1>5 DEF Sources
<1>7. \E S : sources \in Seq(S)
  <2>1. PICK S : e.sources \in Seq(S)
    BY <1>2 DEF EntryTyped
  <2> DEFINE T == {sources[j] : j \in DOMAIN e.sources}
  <2>2. sources \in Seq(T)
    BY <1>3, <2>1, SeqMade
  <2> QED BY <2>2
<1>8. EntryTyped(entry)
  BY <1>2, <1>4, <1>5, <1>6, <1>7 DEF EntryTyped
<1>9. Stands(entry, {e.id})
  BY <1>5 DEF Stands
<1> QED BY <1>1, <1>5, <1>8, <1>9, EntrySet DEF e

LEMMA CompleteFollows ==
  ASSUME RecipesInv, NEW d \in PrepDates, NEW k \in DOMAIN plan.prep[d], NEW complete,
         SetCombinedPrepStepComplete(d, k, complete)
  PROVE  Promised
<1> DEFINE e == plan.prep[d][k]
           entry == [e EXCEPT !.complete = complete]
<1>1. /\ e.kind = "combined"
      /\ FinishEdit([plan EXCEPT !.prep = [plan.prep EXCEPT ![d] = [plan.prep[d] EXCEPT ![k] = entry]]], {})
  BY DEF SetCombinedPrepStepComplete, ChangeEntry
<1>2. e \in OnDates(plan.prep) /\ EntryTyped(e)
  <2>1. e \in OnDates(plan.prep)
    BY QueueOf DEF ToSet
  <2> QED BY <2>1 DEF RecipesInv, QueuesTyped
<1> HIDE DEF e
<1>3. entry = [id |-> e.id, kind |-> e.kind, text |-> e.text, sources |-> e.sources,
               complete |-> complete, review |-> e.review]
  <2>1. PICK a, b, c, s, u, v : e = [id |-> a, kind |-> b, text |-> c, sources |-> s, complete |-> u, review |-> v]
    BY <1>2 DEF EntryTyped
  <2> QED BY <2>1
<1> HIDE DEF entry
<1>4. /\ entry.id = e.id /\ entry.kind = e.kind /\ entry.text = e.text /\ entry.sources = e.sources
      /\ entry.complete = complete /\ entry.review = e.review
  BY <1>3
<1>5. Sources(entry) = Sources(e)
  BY <1>4 DEF Sources
<1>6. EntryTyped(entry)
  BY <1>2, <1>3, <1>4, <1>5 DEF EntryTyped
<1>7. Stands(entry, {})
  BY <1>1, <1>2, <1>4, <1>5 DEF Stands
<1> QED BY <1>1, <1>4, <1>6, <1>7, EntrySet DEF e

LEMMA ExpandFollows ==
  ASSUME RecipesInv, NEW d \in PrepDates, NEW k \in DOMAIN plan.prep[d], NEW discard,
         ExpandCombinedPrepStep(d, k, discard)
  PROVE  Promised
<1> DEFINE b == plan.prep[d]
           e == b[k]
           n == Len(e.sources)
           steps == [j \in DOMAIN e.sources |-> e.sources[j].step]
           ids == FreshIds(EntryIds(plan), n)
           entries == [j \in DOMAIN e.sources |-> DirectEntry(ids[j], e.sources[j].step)]
           q == SubSeq(b, 1, k - 1) \o entries \o SubSeq(b, k + 1, Len(b))
           T == OnDates(plan.prep) \cup ToSet(entries)
<1>1. FinishEdit([plan EXCEPT !.prep = [plan.prep EXCEPT ![d] = q]], {})
  BY DEF ExpandCombinedPrepStep
<1>2. b \in Seq(OnDates(plan.prep)) /\ Len(b) \in Nat /\ k \in 1 .. Len(b) /\ e \in OnDates(plan.prep)
  BY QueueOf DEF ToSet
<1>3. n \in Nat /\ DOMAIN e.sources = 1 .. n
  <2>1. EntryTyped(e)
    BY <1>2 DEF RecipesInv, QueuesTyped
  <2>2. PICK S : e.sources \in Seq(S)
    BY <2>1 DEF EntryTyped
  <2> QED BY <2>2, LenProperties
<1> HIDE DEF b, e, n
<1>4. entries = [j \in 1 .. n |-> DirectEntry(ids[j], steps[j])]
  BY <1>3
<1> HIDE DEF steps, entries
<1>5. /\ entries \in Seq(ToSet(entries))
      /\ \A x \in ToSet(entries) : EntryTyped(x) /\ x.kind = "direct" /\ x.id \notin EntryIds(plan)
      /\ \A x, y \in ToSet(entries) : x.id = y.id => x = y
  BY <1>3, <1>4, DirectOnes
<1> DEFINE left == SubSeq(b, 1, k - 1)
           right == SubSeq(b, k + 1, Len(b))
<1>6. left \in Seq(OnDates(plan.prep)) /\ Len(left) = k - 1 /\ \A i \in 1 .. k - 1 : left[i] = b[i]
  BY <1>2, SubSeqProperties
<1>7. right \in Seq(OnDates(plan.prep)) /\ Len(right) = Len(b) - k /\ \A i \in 1 .. Len(b) - k : right[i] = b[k + i]
  BY <1>2, SubSeqProperties
<1> HIDE DEF left, right
<1>8. ToSet(left) \subseteq ToSet(b)
  <2>1. DOMAIN left = 1 .. k - 1 /\ DOMAIN b = 1 .. Len(b)
    BY <1>2, <1>6, LenProperties
  <2>2. \A i \in 1 .. k - 1 : i \in 1 .. Len(b)
    BY <1>2
  <2> QED BY <1>6, <2>1, <2>2 DEF ToSet
<1>9. ToSet(right) \subseteq ToSet(b)
  <2>1. DOMAIN right = 1 .. Len(b) - k /\ DOMAIN b = 1 .. Len(b)
    BY <1>2, <1>7, LenProperties
  <2>2. \A i \in 1 .. Len(b) - k : k + i \in 1 .. Len(b)
    BY <1>2
  <2> QED BY <1>7, <2>1, <2>2 DEF ToSet
<1>10. left \in Seq(T) /\ entries \in Seq(T) /\ right \in Seq(T)
  <2>1. ToSet(left) \subseteq T /\ ToSet(entries) \subseteq T /\ ToSet(right) \subseteq T
    BY <1>8, <1>9, QueueOf DEF b
  <2> HIDE DEF T
  <2> QED BY <1>5, <1>6, <1>7, <2>1, SeqOver
<1> HIDE DEF T
<1>11. left \o entries \in Seq(T) /\ ToSet(left \o entries) = ToSet(left) \cup ToSet(entries)
  BY <1>10, Joined
<1> DEFINE half == left \o entries
<1> HIDE DEF half
<1>12. half \in Seq(T) /\ ToSet(half) = ToSet(left) \cup ToSet(entries)
  BY <1>11 DEF half
<1>13. half \o right \in Seq(T) /\ ToSet(half \o right) = ToSet(half) \cup ToSet(right)
  BY <1>10, <1>12, Joined
<1>14. q = half \o right
  BY DEF half, left, right
<1> HIDE DEF q
<1>15. q \in Seq(T) /\ ToSet(q) \subseteq ToSet(plan.prep[d]) \cup ToSet(entries)
  BY <1>8, <1>9, <1>12, <1>13, <1>14 DEF b
<1>16. \A x \in ToSet(entries) : Stands(x, {})
  BY <1>5 DEF Stands
<1> QED BY <1>1, <1>5, <1>15, <1>16, JoinedFollows

LEMMA RemovePrepFollows ==
  ASSUME RecipesInv, NEW d \in PrepDates, NEW picked, NEW discard, RemovePrepStepsFromDate(d, picked, discard)
  PROVE  Promised
<1> DEFINE out == {e \in ToSet(plan.prep[d]) : e.id \in picked}
           q == Without(plan.prep[d], out)
<1>1. FinishEdit([plan EXCEPT !.prep = [plan.prep EXCEPT ![d] = q]], {})
  BY DEF RemovePrepStepsFromDate
<1> HIDE DEF out
<1>2. q \in Seq(OnDates(plan.prep)) /\ ToSet(q) \subseteq ToSet(plan.prep[d])
  BY QueueOf, WithoutIs
<1> HIDE DEF q
<1> QED BY <1>1, <1>2, LessFollows

LEMMA ClearPrepFollows ==
  ASSUME RecipesInv, NEW d \in PrepDates, NEW discard, ClearPrepDate(d, discard)
  PROVE  Promised
<1> DEFINE q == <<>>
<1>1. FinishEdit([plan EXCEPT !.prep = [plan.prep EXCEPT ![d] = q]], {})
  BY DEF ClearPrepDate
<1>2. q \in Seq(OnDates(plan.prep)) /\ ToSet(q) \subseteq ToSet(plan.prep[d])
  BY DEF ToSet
<1> HIDE DEF q
<1> QED BY <1>1, <1>2, LessFollows

LEMMA LesserIs == \A a, b \in Nat : Lesser(a, b) \in 0 .. b
BY DEF Lesser

\* What is left of the first entries of a queue.
LEMMA LeftBefore ==
  ASSUME RecipesInv, NEW d \in PrepDates, NEW at \in Positions(plan.prep[d]), NEW out
  PROVE  Len(Without(SubSeq(plan.prep[d], 1, at), out)) \in Nat
<1>1. SubSeq(plan.prep[d], 1, at) \in Seq(OnDates(plan.prep))
  <2>1. plan.prep[d] \in Seq(OnDates(plan.prep)) /\ Len(plan.prep[d]) \in Nat /\ at \in 0 .. Len(plan.prep[d])
    BY QueueOf DEF Positions
  <2> QED BY <2>1, SubSeqProperties
<1>2. Without(SubSeq(plan.prep[d], 1, at), out) \in Seq(OnDates(plan.prep))
  BY <1>1, WithoutIs
<1> QED BY <1>2, LenProperties

LEMMA CombineFollows ==
  ASSUME RecipesInv, NEW d \in PrepDates, NEW S, NEW steps \in Seq(S), steps # <<>>, NEW text,
         NEW at \in Positions(plan.prep[d]), CombinePrepStepsOnDate(d, steps, text, at)
  PROVE  Promised
<1> DEFINE b == plan.prep
           gone == {e \in EntriesOf(plan) : e.kind = "direct" /\ Sources(e) \subseteq ToSet(steps)}
           before == Len(Without(SubSeq(b[d], 1, at), gone))
           x == [c \in PrepDates |-> Without(b[c], gone)]
           cleared == [plan EXCEPT !.prep = x]
           new == Fresh(EntryIds(cleared))
           sources == [k \in DOMAIN steps |-> SourceOf(plan, steps[k])]
           no == FALSE
           entry == [id |-> new, kind |-> "combined", text |-> text, sources |-> sources, complete |-> no, review |-> no]
           one == <<entry>>
           place == Lesser(before, Len(cleared.prep[d]))
           q == Splice(cleared.prep[d], place, one)
           z == [cleared.prep EXCEPT ![d] = q]
           T == OnDates(x) \cup {entry}
<1>1. FinishEdit([cleared EXCEPT !.prep = z], {entry.id})
  BY DEF CombinePrepStepsOnDate
<1>2. [cleared EXCEPT !.prep = z] = [plan EXCEPT !.prep = z]
  <2> HIDE DEF z, x
  <2> QED OBVIOUS
<1>3. QueuesTyped(b) /\ QueuesOnce(b)
  BY DEF RecipesInv
<1>4. before \in Nat
  BY LeftBefore
<1>5. cleared.prep = x
  <2> HIDE DEF x
  <2> QED BY OnlyPrep
<1>6. sources = [k \in DOMAIN steps |-> sources[k]] /\ \A k \in DOMAIN steps : sources[k].step = steps[k]
  BY DEF SourceOf
<1>7. x = [c \in PrepDates |-> x[c]] /\ \A c \in PrepDates : x[c] = Without(b[c], gone)
  OBVIOUS
<1> HIDE DEF before, gone, sources, no, x, cleared, b
<1>8. QueuesTyped(x) /\ QueuesOnce(x) /\ OnDates(x) \subseteq OnDates(b)
  <2>1. \A c \in PrepDates : x[c] \in Seq(OnDates(b)) /\ ToSet(x[c]) \subseteq ToSet(b[c])
    <3> SUFFICES ASSUME NEW c \in PrepDates PROVE x[c] \in Seq(OnDates(b)) /\ ToSet(x[c]) \subseteq ToSet(b[c])
      OBVIOUS
    <3>1. b[c] \in Seq(OnDates(b))
      BY <1>3 DEF QueuesTyped
    <3>2. Without(b[c], gone) \in Seq(OnDates(b)) /\ ToSet(Without(b[c], gone)) = ToSet(b[c]) \ gone
      BY <3>1, WithoutIs
    <3> QED BY <1>7, <3>2
  <2> QED BY <1>3, <1>7, <2>1, FewerQueued
<1>9. new \notin {e.id : e \in OnDates(x)}
  <2>1. EntryIds(cleared) = {e.id : e \in OnDates(x)}
    BY <1>5 DEF EntryIds, EntriesOf, OnDates
  <2>2. IsFiniteSet(EntryIds(cleared))
    BY <1>8, <2>1, QueuedFinite
  <2> QED BY <2>1, <2>2, FreshIs
<1> HIDE DEF new
<1>10. /\ entry.id = new /\ entry.kind = "combined" /\ entry.text = text /\ entry.sources = sources
       /\ entry.complete = no /\ entry.review = no
       /\ entry = [id |-> new, kind |-> "combined", text |-> text, sources |-> sources, complete |-> no, review |-> no]
  OBVIOUS
<1> HIDE DEF entry
<1>11. EntryTyped(entry)
  <2>1. 1 \in DOMAIN steps
    BY EmptySeq, LenProperties
  <2>2. Sources(entry) # {}
    BY <1>6, <1>10, <2>1 DEF Sources
  <2> DEFINE U == {sources[k] : k \in DOMAIN steps}
  <2>3. sources \in Seq(U)
    BY <1>6, SeqMade
  <2> QED BY <1>10, <2>2, <2>3 DEF EntryTyped
<1>12. x[d] \in Seq(T) /\ one \in Seq(T) /\ ToSet(one) = {entry} /\ Len(x[d]) \in Nat
  <2>1. x[d] \in Seq(OnDates(x)) /\ ToSet(x[d]) \subseteq T
    BY <1>8 DEF QueuesTyped, OnDates
  <2>2. one \in Seq(T) /\ ToSet(one) = {entry}
    BY DEF ToSet
  <2> HIDE DEF T, one
  <2> QED BY <2>1, <2>2, SeqOver, LenProperties
<1>13. place \in 0 .. Len(x[d])
  BY <1>4, <1>5, <1>12, LesserIs
<1> HIDE DEF T, one, place
<1>14. q \in Seq(T) /\ ToSet(q) = ToSet(x[d]) \cup {entry}
  <2>1. q = Splice(x[d], place, one)
    BY <1>5
  <2> QED BY <1>12, <1>13, <2>1, Spliced
<1> HIDE DEF q
<1>15. Fits(x, d, q)
  <2>1. \A c \in PrepDates : \A f \in ToSet(x[c]) : f \in OnDates(x) /\ f.id # entry.id
    BY <1>9, <1>10 DEF OnDates
  <2>2. \A e \in ToSet(q) : EntryTyped(e)
    BY <1>8, <1>11, <1>14, <2>1 DEF QueuesTyped
  <2>3. \A e \in ToSet(q), c \in PrepDates : \A f \in ToSet(x[c]) : f.id = e.id => c = d
    BY <1>8, <1>14, <2>1 DEF QueuesOnce
  <2>4. \A e, f \in ToSet(q) : e.id = f.id => e = f
    BY <1>8, <1>14, <2>1 DEF QueuesOnce
  <2> QED BY <2>2, <2>3, <2>4 DEF Fits
<1>16. QueuesTyped(z) /\ QueuesOnce(z) /\ OnDates(z) \subseteq OnDates(x) \cup ToSet(q)
  BY <1>5, <1>8, <1>14, <1>15, OneQueue
<1> HIDE DEF z
<1>17. \A e \in OnDates(z) : Stands(e, {entry.id})
  <2>1. Stands(entry, {entry.id})
    BY DEF Stands
  <2>2. \A e \in OnDates(z) : e \in OnDates(b) \/ e = entry
    BY <1>8, <1>14, <1>16 DEF OnDates
  <2> QED BY <2>1, <2>2, OldStands DEF b
<1> QED BY <1>1, <1>2, <1>16, <1>17, PrepFollows

LEMMA MovePrepFollows ==
  ASSUME RecipesInv, NEW from \in PrepDates, NEW to \in PrepDates, NEW picked, NEW at \in Positions(plan.prep[to]),
         MovePrepStepsToDate(from, to, picked, at)
  PROVE  Promised
<1> DEFINE b == plan.prep
           others == {e \in ToSet(b[from]) : e.id \notin picked}
           moving == Without(b[from], others)
           rest == Without(b[from], ToSet(moving))
           before == Len(Without(SubSeq(b[from], 1, at), ToSet(moving)))
           T == OnDates(b)
<1>1. b[from] \in Seq(T) /\ b[to] \in Seq(T) /\ ToSet(b[from]) \subseteq T /\ ToSet(b[to]) \subseteq T
  BY QueueOf
<1>2. moving \in Seq(T) /\ ToSet(moving) \subseteq ToSet(b[from])
  <2> HIDE DEF others, b, T
  <2> QED BY <1>1, WithoutIs
<1>3. rest \in Seq(T) /\ ToSet(rest) = ToSet(b[from]) \ ToSet(moving) /\ Len(rest) \in Nat
  <2> HIDE DEF moving, b, T
  <2> QED BY <1>1, WithoutIs, LenProperties
<1>4. CASE from = to
  <2> DEFINE place == Lesser(before, Len(rest))
             q == Splice(rest, place, moving)
  <2>1. FinishEdit([plan EXCEPT !.prep = [plan.prep EXCEPT ![to] = q]], {})
    BY <1>4 DEF MovePrepStepsToDate
  <2>2. before \in Nat
    BY <1>4, LeftBefore
  <2> HIDE DEF before, moving, rest, T
  <2>3. place \in 0 .. Len(rest)
    BY <1>3, <2>2, LesserIs
  <2> HIDE DEF place
  <2>4. q \in Seq(T) /\ ToSet(q) = ToSet(rest) \cup ToSet(moving)
    BY <1>2, <1>3, <2>3, Spliced
  <2> HIDE DEF q
  <2>5. ToSet(q) \subseteq ToSet(plan.prep[to])
    BY <1>2, <1>3, <1>4, <2>4
  <2> QED BY <2>1, <2>4, <2>5, LessFollows
<1>5. CASE from # to
  <2> DEFINE x == [b EXCEPT ![from] = rest]
             q == Splice(b[to], at, moving)
             z == [x EXCEPT ![to] = q]
  <2>1. FinishEdit([plan EXCEPT !.prep = z], {})
    <3>1. FinishEdit([plan EXCEPT !.prep[from] = rest, !.prep[to] = Splice(@, at, moving)], {})
      BY <1>5 DEF MovePrepStepsToDate
    <3> HIDE DEF moving, rest
    <3>2. PICK u, v, w, g, r : plan = [rows |-> u, steps |-> v, frozen |-> w, groceries |-> g, prep |-> r]
      BY DEF RecipesInv, PlanTyped
    <3>3. [plan EXCEPT !.prep[from] = rest, !.prep[to] = Splice(@, at, moving)] = [plan EXCEPT !.prep = z]
      BY <1>5, <3>2
    <3> QED BY <3>1, <3>3
  <2>2. QueuesTyped(b) /\ QueuesOnce(b)
    BY DEF RecipesInv
  <2> HIDE DEF moving, rest
  <2>3. x = [c \in PrepDates |-> x[c]] /\ \A c \in PrepDates : x[c] = IF c = from THEN rest ELSE b[c]
    BY <2>2 DEF QueuesTyped
  <2> HIDE DEF x
  <2>4. \A c \in PrepDates : x[c] \in Seq(T) /\ ToSet(x[c]) \subseteq ToSet(b[c])
    BY <1>3, <2>2, <2>3 DEF QueuesTyped
  <2>5. QueuesTyped(x) /\ QueuesOnce(x) /\ OnDates(x) \subseteq T
    BY <2>2, <2>3, <2>4, FewerQueued
  <2>6. at \in 0 .. Len(b[to])
    BY DEF Positions
  <2> HIDE DEF b, T
  <2>7. q \in Seq(T) /\ ToSet(q) = ToSet(b[to]) \cup ToSet(moving)
    BY <1>1, <1>2, <2>6, Spliced
  <2> HIDE DEF q
  <2>8. ASSUME NEW e \in ToSet(moving), NEW c \in PrepDates, NEW f \in ToSet(x[c]) PROVE f.id # e.id
    <3>1. f \in ToSet(b[c]) /\ e \in ToSet(b[from])
      BY <1>2, <2>4
    <3>2. f.id = e.id => c = from /\ f = e
      BY <2>2, <3>1 DEF QueuesOnce
    <3>3. c = from => f \notin ToSet(moving)
      BY <1>3, <2>3
    <3> QED BY <3>2, <3>3
  <2>9. Fits(x, to, q)
    <3>1. \A e \in ToSet(q) : e \in T /\ (e \in ToSet(x[to]) \/ e \in ToSet(moving))
      BY <1>1, <1>2, <1>5, <2>3, <2>7
    <3>2. \A e \in ToSet(q) : EntryTyped(e)
      BY <2>2, <3>1 DEF QueuesTyped, T
    <3>3. \A e \in ToSet(q), c \in PrepDates : \A f \in ToSet(x[c]) : f.id = e.id => c = to
      BY <2>5, <2>8, <3>1 DEF QueuesOnce
    <3>4. \A e, f \in ToSet(q) : e.id = f.id => e = f
      <4>1. \A e \in ToSet(q) : e \in ToSet(b[to]) \/ e \in ToSet(b[from])
        BY <1>2, <2>7
      <4> QED BY <2>2, <4>1 DEF QueuesOnce
    <3> QED BY <3>2, <3>3, <3>4 DEF Fits
  <2>10. QueuesTyped(z) /\ QueuesOnce(z) /\ OnDates(z) \subseteq OnDates(x) \cup ToSet(q)
    BY <2>5, <2>7, <2>9, OneQueue
  <2> HIDE DEF z
  <2>11. \A e \in OnDates(z) : Stands(e, {})
    <3>1. \A e \in OnDates(z) : e \in T
      BY <1>1, <1>2, <2>5, <2>7, <2>10
    <3> QED BY <3>1, OldStands DEF T, b
  <2> QED BY <2>1, <2>10, <2>11, PrepFollows
<1> QED BY <1>4, <1>5


-----------------------------------------------------------------------------
(* Shopping marks, and the steps of the specification.                      *)

LEMMA MarksFollow ==
  ASSUME RecipesInv, NEW x, FinishEdit([plan EXCEPT !.groceries = x], {})
  PROVE  Promised
BY OnlyMarks, Finished DEF Promised

LEMMA GroceryFollows ==
  ASSUME RecipesInv, GroceryCommand
  PROVE  Promised
<1>1. \E x : FinishEdit([plan EXCEPT !.groceries = x], {})
  BY DEF GroceryCommand, SetGroceryItemsCoverage, SetGroceryItemsSection, SetGroceryItemChecked, Mark
<1> QED BY <1>1, MarksFollow

LEMMA PrepCommandFollows ==
  ASSUME RecipesInv, PrepCommand
  PROVE  Promised
<1> DEFINE S == AllSteps(plan)
<1>1. PICK d \in PrepDates :
      \/ \E steps \in SubSeqsOf(S), at \in Positions(plan.prep[d]) :
           \/ AddPrepStepsToDate(d, steps, at)
           \/ Len(steps) = 2 /\ \E t \in Texts : CombinePrepStepsOnDate(d, steps, t, at)
      \/ \E k \in DOMAIN plan.prep[d], discard \in BOOLEAN :
           \/ \E t \in Texts : UpdateCombinedPrepStep(d, k, t, discard)
           \/ \E complete \in BOOLEAN : SetCombinedPrepStepComplete(d, k, complete)
           \/ ExpandCombinedPrepStep(d, k, discard)
      \/ \E picked \in SUBSET {e.id : e \in ToSet(plan.prep[d])} :
           \/ \E to \in PrepDates : \E at \in Positions(plan.prep[to]) : MovePrepStepsToDate(d, to, picked, at)
           \/ \E discard \in BOOLEAN : RemovePrepStepsFromDate(d, picked, discard)
      \/ \E discard \in BOOLEAN : ClearPrepDate(d, discard)
  BY DEF PrepCommand
<1> HIDE DEF S
<1>2. \A steps \in SubSeqsOf(S) : steps \in Seq(S) /\ steps # <<>>
  <2> SUFFICES ASSUME NEW steps \in SubSeqsOf(S) PROVE steps \in Seq(S) /\ steps # <<>>
    OBVIOUS
  <2>1. PICK k \in 0 .. 2 : steps \in [1 .. k -> S]
    BY DEF SubSeqsOf, SeqsUpTo
  <2>2. steps \in Seq(S)
    BY <2>1, SeqDef
  <2> QED BY <2>2 DEF SubSeqsOf
<1>3. ASSUME NEW steps \in SubSeqsOf(S), NEW at \in Positions(plan.prep[d]), AddPrepStepsToDate(d, steps, at)
      PROVE  Promised
  BY <1>2, <1>3, AddPrepFollows
<1>4. ASSUME NEW steps \in SubSeqsOf(S), NEW at \in Positions(plan.prep[d]), NEW t, CombinePrepStepsOnDate(d, steps, t, at)
      PROVE  Promised
  BY <1>2, <1>4, CombineFollows
<1>5. ASSUME NEW k \in DOMAIN plan.prep[d], NEW discard, NEW t, UpdateCombinedPrepStep(d, k, t, discard)
      PROVE  Promised
  BY <1>5, UpdateFollows
<1>6. ASSUME NEW k \in DOMAIN plan.prep[d], NEW complete, SetCombinedPrepStepComplete(d, k, complete)
      PROVE  Promised
  BY <1>6, CompleteFollows
<1>7. ASSUME NEW k \in DOMAIN plan.prep[d], NEW discard, ExpandCombinedPrepStep(d, k, discard)
      PROVE  Promised
  BY <1>7, ExpandFollows
<1>8. ASSUME NEW picked, NEW to \in PrepDates, NEW at \in Positions(plan.prep[to]), MovePrepStepsToDate(d, to, picked, at)
      PROVE  Promised
  BY <1>8, MovePrepFollows
<1>9. ASSUME NEW picked, NEW discard, RemovePrepStepsFromDate(d, picked, discard)
      PROVE  Promised
  BY <1>9, RemovePrepFollows
<1>10. ASSUME NEW discard, ClearPrepDate(d, discard)
       PROVE  Promised
  BY <1>10, ClearPrepFollows
<1> QED BY <1>1, <1>3, <1>4, <1>5, <1>6, <1>7, <1>8, <1>9, <1>10

LEMMA StepCommandFollows ==
  ASSUME RecipesInv, StepCommand
  PROVE  Promised
<1> DEFINE none == <<>>
<1>1. PICK m \in Meals : \E step \in ToSet(plan.steps[m]) :
         \/ \E t \in Texts : EditInstructionStep(step.id, t, step.inputs, none)
         \/ \E r \in RowIds(plan.rows[m]) : EditInstructionStep(step.id, step.text, <<r>>, none)
         \/ \E w \in Words : EditInstructionStep(step.id, step.text, none, <<w>>)
         \/ \E at \in Positions(plan.steps[m]) : MoveInstructionStep(step.id, at)
         \/ RemoveInstructionStep(step.id)
         \/ \E complete \in BOOLEAN : SetInstructionStepComplete(step.id, complete)
  BY DEF StepCommand
<1>2. PICK step \in ToSet(plan.steps[m]) :
         \/ \E t \in Texts : EditInstructionStep(step.id, t, step.inputs, none)
         \/ \E r \in RowIds(plan.rows[m]) : EditInstructionStep(step.id, step.text, <<r>>, none)
         \/ \E w \in Words : EditInstructionStep(step.id, step.text, none, <<w>>)
         \/ \E at \in Positions(plan.steps[m]) : MoveInstructionStep(step.id, at)
         \/ RemoveInstructionStep(step.id)
         \/ \E complete \in BOOLEAN : SetInstructionStepComplete(step.id, complete)
  BY <1>1
<1>3. none \in Seq(Words) /\ none \in Seq(Nat) /\ Len(none) <= 1
  OBVIOUS
<1>4. step.inputs \in Seq(Nat) /\ step.text \in Texts
  <2>1. plan.steps[m] \in Seq(StepRecords)
    BY OwnRows
  <2>2. step \in StepRecords
    BY <2>1, LenProperties, ElementOfSeq DEF ToSet
  <2> QED BY <2>2 DEF StepRecords
<1>5. \A r \in RowIds(plan.rows[m]) : <<r>> \in Seq(Nat)
  <2>1. \A r \in RowIds(plan.rows[m]) : r \in Nat
    <3>1. plan.rows[m] \in Seq(RowRecords)
      BY OwnRows
    <3>2. \A k \in DOMAIN plan.rows[m] : plan.rows[m][k] \in RowRecords
      BY <3>1, LenProperties, ElementOfSeq
    <3> QED BY <3>2 DEF RowIds, ToSet, RowRecords
  <2> QED BY <2>1
<1>6. \A w \in Words : <<w>> \in Seq(Words) /\ Len(<<w>>) <= 1
  OBVIOUS
<1> HIDE DEF none
<1>7. ASSUME NEW t \in Texts, EditInstructionStep(step.id, t, step.inputs, none) PROVE Promised
  BY <1>3, <1>4, <1>7, EditStepFollows DEF Promised
<1>8. ASSUME NEW r \in RowIds(plan.rows[m]), EditInstructionStep(step.id, step.text, <<r>>, none) PROVE Promised
  BY <1>3, <1>4, <1>5, <1>8, EditStepFollows DEF Promised
<1>9. ASSUME NEW w \in Words, EditInstructionStep(step.id, step.text, none, <<w>>) PROVE Promised
  BY <1>3, <1>4, <1>6, <1>9, EditStepFollows DEF Promised
<1>10. ASSUME NEW at \in Positions(plan.steps[m]), MoveInstructionStep(step.id, at) PROVE Promised
  <2>1. at \in Nat
    BY DEF Positions
  <2> QED BY <1>10, <2>1, MoveStepFollows DEF Promised
<1>11. CASE RemoveInstructionStep(step.id)
  BY <1>11, RemoveStepFollows DEF Promised
<1>12. ASSUME NEW complete \in BOOLEAN, SetInstructionStepComplete(step.id, complete) PROVE Promised
  BY <1>12, TickFollows DEF Promised
<1> QED BY <1>2, <1>7, <1>8, <1>9, <1>10, <1>11, <1>12

LEMMA RecipeCommandFollows ==
  ASSUME RecipesInv, RecipeCommand
  PROVE  Promised
<1> DEFINE none == <<>>
<1>1. PICK m \in Meals :
      \/ \E w \in Words : \/ AddIngredientOccurrence(m, w)
                         \/ EditMealRecipe(m, plan.rows[m], <<w>>)
                         \/ ReplaceMealRecipeFromSource(m, w, FirstText)
      \/ \E retained \in Retained(plan.rows[m]) : EditMealRecipe(m, retained, none)
      \/ \E words \in SeqsUpTo(Words, 1) :
           \E at \in Positions(plan.steps[m]) : AddInstructionStep(m, at, FirstText, words)
      \/ CookMeal(m)
  BY DEF RecipeCommand
<1>2. none \in Seq(Words) /\ Len(none) <= 1
  OBVIOUS
<1>3. \A w \in Words : <<w>> \in Seq(Words) /\ Len(<<w>>) <= 1
  OBVIOUS
<1>4. FirstText \in Texts
  BY RecipesAssumption DEF FirstText
<1> HIDE DEF none
<1>5. ASSUME NEW w \in Words, AddIngredientOccurrence(m, w) PROVE Promised
  BY <1>5, AddRowFollows DEF Promised
<1>6. ASSUME NEW w \in Words, EditMealRecipe(m, plan.rows[m], <<w>>) PROVE Promised
  <2>1. KeepsRows(m, plan.rows[m])
    BY RowsKept
  <2> QED BY <1>3, <1>6, <2>1, EditRecipeFollows DEF Promised
<1>7. ASSUME NEW w \in Words, ReplaceMealRecipeFromSource(m, w, FirstText) PROVE Promised
  BY <1>4, <1>7, ReplaceFollows DEF Promised
<1>8. ASSUME NEW retained \in Retained(plan.rows[m]), EditMealRecipe(m, retained, none) PROVE Promised
  <2>1. KeepsRows(m, retained)
    BY RowsKept
  <2> QED BY <1>2, <1>8, <2>1, EditRecipeFollows DEF Promised
<1>9. ASSUME NEW words \in SeqsUpTo(Words, 1), NEW at \in Positions(plan.steps[m]),
             AddInstructionStep(m, at, FirstText, words)
      PROVE  Promised
  <2>1. words \in Seq(Words) /\ Len(words) <= 1
    <3>1. PICK k \in 0 .. 1 : words \in [1 .. k -> Words]
      BY DEF SeqsUpTo
    <3>2. k \in Nat /\ k <= 1
      BY <3>1
    <3>3. words \in Seq(Words)
      BY <3>1, <3>2, SeqDef
    <3>4. Len(words) = k
      BY <3>1, <3>2, <3>3, LenProperties
    <3> QED BY <3>2, <3>3, <3>4
  <2> QED BY <1>9, <2>1, AddStepFollows DEF Promised, Positions
<1>10. CASE CookMeal(m)
  BY <1>10, CookFollows DEF Promised
<1> QED BY <1>1, <1>5, <1>6, <1>7, <1>8, <1>9, <1>10

\* The plan that an undo gives back, beside the one it replaces.
Good(p, w) ==
  /\ PlanTyped(p) /\ RowsOnce(p) /\ StepsOnce(p)
  /\ QueuesTyped(p.prep) /\ QueuesOnce(p.prep) /\ Seen(p)
  /\ \A e \in CombinedIn(EntriesOf(p)) : Content(p, e) # w[e.id] => e.review /\ ~e.complete
CookedAs(p, q) ==
  \A m \in Meals : q.frozen[m] \/ p.frozen[m] =>
    /\ p.rows[m] = q.rows[m]
    /\ DOMAIN p.steps[m] = DOMAIN q.steps[m]
    /\ \A k \in DOMAIN p.steps[m] : Says(p.steps[m][k]) = Says(q.steps[m][k])
MarksAs(p, q) ==
  [p EXCEPT !.groceries = q.groceries] # q =>
    \A m \in Meals : \A r \in ToSet(q.rows[m]), s \in ToSet(p.rows[m]) :
      r.id = s.id /\ r.word = s.word => p.groceries[r.id] = q.groceries[r.id]
RecipesUndo ==
  \A b \in recipesBefore : Good(b[1], b[2]) /\ CookedAs(b[1], plan) /\ MarksAs(b[1], plan)
RecipesGood == RecipesInv /\ RecipesUndo

LEMMA InvIsGood == RecipesInv <=> Good(plan, written)
BY DEF RecipesInv, Good, PreparedAsWritten

\* What two plans have in common is common to both.
LEMMA CookedBothWays == \A p, q : CookedAs(p, q) => CookedAs(q, p)
BY DEF CookedAs

LEMMA MarksBothWays ==
  ASSUME NEW p, NEW q, PlanTyped(p), PlanTyped(q), MarksAs(p, q)
  PROVE  MarksAs(q, p)
<1>1. [p EXCEPT !.groceries = q.groceries] =
        [rows |-> p.rows, steps |-> p.steps, frozen |-> p.frozen, groceries |-> q.groceries, prep |-> p.prep]
  BY FieldsOf
<1>2. [q EXCEPT !.groceries = p.groceries] =
        [rows |-> q.rows, steps |-> q.steps, frozen |-> q.frozen, groceries |-> p.groceries, prep |-> q.prep]
  BY FieldsOf
<1>3. /\ p = [rows |-> p.rows, steps |-> p.steps, frozen |-> p.frozen, groceries |-> p.groceries, prep |-> p.prep]
      /\ q = [rows |-> q.rows, steps |-> q.steps, frozen |-> q.frozen, groceries |-> q.groceries, prep |-> q.prep]
  BY DEF PlanTyped
<1>4. [p EXCEPT !.groceries = q.groceries] = q =>
        p.rows = q.rows /\ p.steps = q.steps /\ p.frozen = q.frozen /\ p.prep = q.prep
  BY <1>1, <1>3
<1>5. [p EXCEPT !.groceries = q.groceries] = q => [q EXCEPT !.groceries = p.groceries] = p
  BY <1>2, <1>3, <1>4
<1> QED BY <1>5 DEF MarksAs

\* After a command, the plan it replaced; after an undo, none.
LEMMA RecipesCommanded ==
  ASSUME RecipesGood, Promised
  PROVE  RecipesGood' /\ CookedSame(plan') /\ MarksSame(plan')
<1>1. CASE recipesBefore' = {<<plan, written>>}
  <2>1. Good(plan, written) /\ PlanTyped(plan')
    BY InvIsGood DEF RecipesGood, Promised, RecipesInv
  <2>2. CookedAs(plan, plan')
    BY CookedBothWays DEF Promised, CookedSame, CookedAs
  <2>3. MarksAs(plan', plan)
    BY DEF Promised, MarksSame, MarksIn, MarksAs
  <2>4. MarksAs(plan, plan')
    BY <2>1, <2>3, MarksBothWays DEF Good
  <2>5. RecipesUndo'
    BY <1>1, <2>1, <2>2, <2>4 DEF RecipesUndo
  <2> QED BY <2>5 DEF RecipesGood, Promised
<1>2. CASE UNCHANGED <<plan, written, recipesBefore>>
  <2>1. RecipesUndo'
    BY <1>2 DEF RecipesGood, RecipesUndo
  <2> QED BY <2>1 DEF RecipesGood, Promised
<1> QED BY <1>1, <1>2 DEF Promised

LEMMA RecipesUndone ==
  ASSUME RecipesGood, UndoRecipes
  PROVE  RecipesGood' /\ CookedSame(plan') /\ MarksSame(plan')
<1>1. PICK b \in recipesBefore : plan' = b[1] /\ written' = b[2]
  BY DEF UndoRecipes
<1>2. Good(plan', written') /\ CookedAs(plan', plan) /\ MarksAs(plan', plan)
  BY <1>1 DEF RecipesGood, RecipesUndo
<1>3. RecipesInv'
  BY <1>2 DEF RecipesInv, Good, PreparedAsWritten
<1>4. CookedSame(plan') /\ MarksSame(plan')
  BY <1>2 DEF CookedSame, CookedAs, MarksSame, MarksIn, MarksAs
<1>5. RecipesUndo'
  BY DEF UndoRecipes, RecipesUndo
<1> QED BY <1>3, <1>4, <1>5 DEF RecipesGood

LEMMA RecipesStep ==
  ASSUME RecipesGood, [RecipesNext]_recipeVars
  PROVE  RecipesGood' /\ CookedSame(plan') /\ MarksSame(plan')
<1>1. RecipesInv
  BY DEF RecipesGood
<1>2. CASE RecipeCommand \/ StepCommand \/ PrepCommand \/ GroceryCommand
  <2>1. Promised
    BY <1>1, <1>2, RecipeCommandFollows, StepCommandFollows, PrepCommandFollows, GroceryFollows
  <2> QED BY <2>1, RecipesCommanded
<1>3. CASE UndoRecipes
  BY <1>3, RecipesUndone
<1>4. CASE UNCHANGED recipeVars
  <2>1. plan' = plan /\ written' = written /\ recipesBefore' = recipesBefore
    BY <1>4 DEF recipeVars
  <2>2. PreparedAsWritten'
    BY <1>1, <2>1 DEF RecipesInv, PreparedAsWritten
  <2>3. RecipesInv' /\ RecipesUndo'
    BY <1>1, <2>1, <2>2 DEF RecipesInv, RecipesGood, RecipesUndo
  <2> QED BY <1>1, <2>1, <2>3, SamePlan DEF RecipesGood
<1> QED BY <1>2, <1>3, <1>4 DEF RecipesNext

LEMMA IdsBijective == \E f : f \in Bijection(Meals, 1 .. Cardinality(Meals))
<1> DEFINE n == Cardinality(Meals)
<1>1. ExistsBijection(1 .. n, Meals)
  BY RecipesAssumption, FS_CardinalityType
<1> HIDE DEF n
<1>2. ExistsBijection(Meals, 1 .. n)
  BY <1>1, Fun_ExistsBijSymmetric
<1> QED BY <1>2 DEF ExistsBijection, n

\* The recipes of a new week, before anything is queued.
Anew(p) ==
  /\ PlanTyped(p) /\ RowsOnce(p) /\ StepsOnce(p)
  /\ \A m \in Meals : \A s \in ToSet(p.steps[m]) : ToSet(s.inputs) \subseteq RowIds(p.rows[m])
  /\ DOMAIN p.groceries = AllRows(p)
  /\ 1 .. Cardinality(Meals) \subseteq AllSteps(p)

LEMMA NewRecipes ==
  ASSUME NEW Id \in Bijection(Meals, 1 .. Cardinality(Meals)), NEW word \in Words
  PROVE  LET rows == [m \in Meals |-> <<[id |-> Id[m], word |-> word, detail |-> 0]>>]
             steps == [m \in Meals |-> <<[id |-> Id[m], inputs |-> <<Id[m]>>, text |-> FirstText, complete |-> FALSE]>>]
             bare == RecipesFrom(rows, steps)
         IN  Anew(bare) /\ bare.prep = [d \in PrepDates |-> <<>>]
<1> DEFINE row(m) == [id |-> Id[m], word |-> word, detail |-> 0]
           step(m) == [id |-> Id[m], inputs |-> <<Id[m]>>, text |-> FirstText, complete |-> FALSE]
           rows == [m \in Meals |-> <<row(m)>>]
           steps == [m \in Meals |-> <<step(m)>>]
           bare == RecipesFrom(rows, steps)
           n == Cardinality(Meals)
<1>1. n \in Nat
  BY RecipesAssumption, FS_CardinalityType
<1>2. /\ Id \in [Meals -> 1 .. n] /\ \A k \in 1 .. n : \E m \in Meals : Id[m] = k
      /\ \A a, b \in Meals : Id[a] = Id[b] => a = b
  BY DEF Bijection, Injection, Surjection, IsInjective
<1>3. \A m \in Meals : Id[m] \in Nat
  BY <1>1, <1>2
<1>4. FirstText \in Texts
  BY RecipesAssumption DEF FirstText
<1>5. \A m \in Meals : row(m) \in RowRecords /\ row(m).id = Id[m]
  BY <1>3 DEF RowRecords
<1>6. \A m \in Meals : step(m) \in StepRecords /\ step(m).id = Id[m] /\ step(m).inputs = <<Id[m]>>
  <2>1. \A m \in Meals : <<Id[m]>> \in Seq(Nat)
    BY <1>3
  <2> QED BY <1>3, <1>4, <2>1 DEF StepRecords
<1> HIDE DEF row, step, n
<1>7. rows \in [Meals -> Seq(RowRecords)] /\ \A m \in Meals : DOMAIN rows[m] = {1} /\ rows[m][1] = row(m)
  BY <1>5
<1>8. steps \in [Meals -> Seq(StepRecords)] /\ \A m \in Meals : DOMAIN steps[m] = {1} /\ steps[m][1] = step(m)
  BY <1>6
<1> DEFINE none == <<>>
           frozen == [m \in Meals |-> FALSE]
           prep == [d \in PrepDates |-> none]
           p == [rows |-> rows, steps |-> steps, frozen |-> frozen, groceries |-> none, prep |-> prep]
           marks == [r \in AllRows(p) |-> IF r \in DOMAIN p.groceries THEN p.groceries[r] ELSE NewItem]
<1>9. bare = [p EXCEPT !.groceries = marks]
  BY DEF RecipesFrom, Reconcile
<1> HIDE DEF marks
<1>10. bare = [rows |-> rows, steps |-> steps, frozen |-> frozen, groceries |-> marks, prep |-> prep]
  BY <1>9
<1>11. p.rows = rows /\ DOMAIN marks = AllRows(p)
  BY DEF marks
<1>12. frozen \in [Meals -> BOOLEAN]
  OBVIOUS
<1> HIDE DEF rows, steps, frozen, prep, p, bare
<1>13. bare.rows = rows /\ bare.steps = steps /\ bare.frozen = frozen /\ bare.groceries = marks /\ bare.prep = prep
  BY <1>10
<1>14. PlanTyped(bare)
  BY <1>7, <1>8, <1>10, <1>12, <1>13 DEF PlanTyped
<1>15. RowsOnce(bare) /\ StepsOnce(bare)
  <2>1. Once(rows)
    BY <1>2, <1>5, <1>7 DEF Once
  <2>2. Once(steps)
    BY <1>2, <1>6, <1>8 DEF Once
  <2> QED BY <1>13, <2>1, <2>2 DEF RowsOnce, StepsOnce
<1>16. \A m \in Meals : \A s \in ToSet(bare.steps[m]) : ToSet(s.inputs) \subseteq RowIds(bare.rows[m])
  <2> SUFFICES ASSUME NEW m \in Meals PROVE ToSet(step(m).inputs) \subseteq RowIds(rows[m])
    BY <1>8, <1>13 DEF ToSet
  <2>1. ToSet(<<Id[m]>>) = {Id[m]}
    BY DEF ToSet
  <2>2. row(m) \in ToSet(rows[m])
    BY <1>7 DEF ToSet
  <2> QED BY <1>5, <1>6, <2>1, <2>2 DEF RowIds
<1>17. DOMAIN bare.groceries = AllRows(bare)
  BY <1>11, <1>13 DEF AllRows
<1>18. 1 .. n \subseteq AllSteps(bare)
  <2> SUFFICES ASSUME NEW k \in 1 .. n PROVE k \in AllSteps(bare)
    OBVIOUS
  <2>1. PICK m \in Meals : Id[m] = k
    BY <1>2
  <2>2. step(m) \in ToSet(bare.steps[m]) /\ step(m).id = k
    BY <1>6, <1>8, <1>13, <2>1 DEF ToSet
  <2> QED BY <2>2 DEF AllSteps
<1>19. Anew(bare) /\ bare.prep = prep
  BY <1>13, <1>14, <1>15, <1>16, <1>17, <1>18 DEF Anew, n
<1> QED BY <1>19 DEF bare, rows, steps, row, step, prep

LEMMA NothingQueued ==
  ASSUME Anew(plan), plan.prep = [d \in PrepDates |-> <<>>]
  PROVE  RecipesInv
<1>1. \A d \in PrepDates : plan.prep[d] = <<>> /\ ToSet(plan.prep[d]) = {} /\ DOMAIN plan.prep[d] = {}
  BY DEF ToSet
<1>2. OnDates(plan.prep) = {} /\ EntriesOf(plan) = {} /\ CombinedIn(EntriesOf(plan)) = {}
  BY <1>1 DEF OnDates, EntriesOf, CombinedIn
<1>3. plan.prep = [d \in PrepDates |-> plan.prep[d]] /\ \A d \in PrepDates : plan.prep[d] \in Seq({})
  BY <1>1
<1>4. QueuesTyped(plan.prep) /\ QueuesOnce(plan.prep)
  BY <1>1, <1>2, <1>3 DEF QueuesTyped, QueuesOnce
<1>5. Seen(plan)
  BY <1>1, <1>2 DEF Seen, Anew
<1>6. PreparedAsWritten
  BY <1>2 DEF PreparedAsWritten
<1> QED BY <1>4, <1>5, <1>6 DEF RecipesInv, Anew

\* An entry that combines the steps of every meal.
LEMMA FirstEntry ==
  ASSUME NEW bare, Cardinality(Meals) >= 2
  PROVE  LET entry == [id |-> 1, kind |-> "combined", text |-> FirstText, complete |-> FALSE, review |-> FALSE,
                       sources |-> [k \in 1 .. Cardinality(Meals) |-> SourceOf(bare, k)]]
         IN  EntryTyped(entry) /\ Sources(entry) = 1 .. Cardinality(Meals) /\ entry.id = 1 /\ ~entry.complete
<1> DEFINE n == Cardinality(Meals)
           sources == [k \in 1 .. n |-> SourceOf(bare, k)]
           no == FALSE
           word == "combined"
           entry == [id |-> 1, kind |-> word, text |-> FirstText, complete |-> no, review |-> no, sources |-> sources]
<1>1. n \in Nat /\ n >= 2
  BY RecipesAssumption, FS_CardinalityType
<1>2. sources \in Seq(ToSet(sources)) /\ DOMAIN sources = 1 .. n /\ \A k \in 1 .. n : sources[k].step = k
  <2>1. \A k \in 1 .. n : sources[k].step = k
    BY DEF SourceOf
  <2>2. sources = [k \in 1 .. n |-> sources[k]] /\ DOMAIN sources = 1 .. n
    OBVIOUS
  <2> HIDE DEF sources, n
  <2>3. sources \in [1 .. n -> ToSet(sources)]
    BY <2>2 DEF ToSet
  <2>4. sources \in Seq(ToSet(sources))
    BY <1>1, <2>3, SeqDef
  <2> QED BY <2>1, <2>2, <2>4
<1>3. ~no
  OBVIOUS
<1> HIDE DEF sources, n, no, word
<1>4. /\ entry = [id |-> entry.id, kind |-> entry.kind, text |-> entry.text, sources |-> entry.sources,
                  complete |-> entry.complete, review |-> entry.review]
      /\ entry.id = 1 /\ entry.complete = no /\ entry.sources = sources
  OBVIOUS
<1> HIDE DEF entry
<1>5. Sources(entry) = 1 .. n
  <2>1. Sources(entry) = {sources[k].step : k \in 1 .. n}
    BY <1>2, <1>4 DEF Sources
  <2> QED BY <1>2, <2>1
<1>6. 1 \in 1 .. n
  BY <1>1
<1>7. EntryTyped(entry)
  BY <1>2, <1>4, <1>5, <1>6 DEF EntryTyped
<1>8. EntryTyped(entry) /\ Sources(entry) = 1 .. n /\ entry.id = 1 /\ ~entry.complete
  BY <1>3, <1>4, <1>5, <1>7
<1> QED BY <1>8 DEF entry, sources, n, no, word

LEMMA AllQueued ==
  ASSUME NEW bare, Anew(bare), NEW date \in PrepDates, NEW entry, EntryTyped(entry), ~entry.complete,
         Sources(entry) = 1 .. Cardinality(Meals), NEW x,
         x = [d \in PrepDates |-> IF d = date THEN <<entry>> ELSE <<>>],
         plan = [bare EXCEPT !.prep = x], written[entry.id] = Content(bare, entry)
  PROVE  RecipesInv
<1> DEFINE one == <<entry>>
           none == <<>>
<1>1. ToSet(one) = {entry} /\ DOMAIN one = {1} /\ one \in Seq({entry})
  BY DEF ToSet
<1>2. ToSet(none) = {} /\ DOMAIN none = {} /\ none \in Seq({entry})
  BY DEF ToSet
<1>3. x = [d \in PrepDates |-> x[d]] /\ \A d \in PrepDates : x[d] = IF d = date THEN one ELSE none
  OBVIOUS
<1> HIDE DEF one, none
<1>4. \A d \in PrepDates : /\ ToSet(x[d]) = (IF d = date THEN {entry} ELSE {}) /\ x[d] \in Seq({entry})
                           /\ DOMAIN x[d] = (IF d = date THEN {1} ELSE {})
  BY <1>1, <1>2, <1>3
<1>5. OnDates(x) = {entry}
  BY <1>4 DEF OnDates
<1>6. QueuesTyped(x) /\ QueuesOnce(x)
  BY <1>3, <1>4, <1>5 DEF QueuesTyped, QueuesOnce
<1>7. plan = [rows |-> bare.rows, steps |-> bare.steps, frozen |-> bare.frozen, groceries |-> bare.groceries, prep |-> x]
  BY FieldsOf DEF Anew
<1>8. plan.rows = bare.rows /\ plan.steps = bare.steps /\ plan.frozen = bare.frozen /\ plan.groceries = bare.groceries
      /\ plan.prep = x
  BY <1>7
<1>9. PlanTyped(plan) /\ RowsOnce(plan) /\ StepsOnce(plan)
  BY <1>7, <1>8 DEF Anew, PlanTyped, RowsOnce, StepsOnce
<1>10. EntriesOf(plan) = {entry} /\ CombinedIn(EntriesOf(plan)) \subseteq {entry}
  <2>1. EntriesOf(plan) = OnDates(x)
    BY <1>8 DEF EntriesOf, OnDates
  <2> QED BY <1>5, <2>1 DEF CombinedIn
<1>11. AllSteps(plan) = AllSteps(bare) /\ AllRows(plan) = AllRows(bare)
  BY <1>8 DEF AllSteps, AllRows
<1>12. Seen(plan)
  <2>1. \A m \in Meals : \A s \in ToSet(plan.steps[m]) : ToSet(s.inputs) \subseteq RowIds(plan.rows[m])
    BY <1>8 DEF Anew
  <2>2. DOMAIN plan.groceries = AllRows(plan)
    BY <1>8, <1>11 DEF Anew
  <2>3. \A e \in EntriesOf(plan) : Sources(e) \subseteq AllSteps(plan)
    BY <1>10, <1>11 DEF Anew
  <2>4. \A e \in CombinedIn(EntriesOf(plan)) : ~(e.complete /\ e.review)
    BY <1>10
  <2>5. \A d \in PrepDates : \A j, k \in DOMAIN plan.prep[d] : j = k
    BY <1>4, <1>8
  <2> QED BY <2>1, <2>2, <2>3, <2>4, <2>5 DEF Seen
<1>13. PreparedAsWritten
  <2>1. Content(plan, entry) = Content(bare, entry)
    <3>1. \A s : Worded(plan, s) = Worded(bare, s)
      <4>1. plan.steps = bare.steps /\ plan.rows = bare.rows
        BY <1>8
      <4>2. ASSUME NEW s PROVE Worded(plan, s) = Worded(bare, s)
        BY <4>1, SameWords
      <4> QED BY <4>2
    <3> QED BY <3>1, ContentIs
  <2> QED BY <1>10, <2>1 DEF PreparedAsWritten
<1> QED BY <1>6, <1>8, <1>9, <1>12, <1>13 DEF RecipesInv

LEMMA RecipesStart == RecipesInit => RecipesInv
<1> SUFFICES ASSUME RecipesInit PROVE RecipesInv
  OBVIOUS
<1> DEFINE Id == CHOOSE f \in Bijection(Meals, 1 .. Cardinality(Meals)) : TRUE
           word == CHOOSE w \in Words : TRUE
           rows == [m \in Meals |-> <<[id |-> Id[m], word |-> word, detail |-> 0]>>]
           steps == [m \in Meals |-> <<[id |-> Id[m], inputs |-> <<Id[m]>>, text |-> FirstText, complete |-> FALSE]>>]
           bare == RecipesFrom(rows, steps)
           entry == [id |-> 1, kind |-> "combined", text |-> FirstText, complete |-> FALSE, review |-> FALSE,
                     sources |-> [k \in 1 .. Cardinality(Meals) |-> SourceOf(bare, k)]]
           date == CHOOSE d \in PrepDates : TRUE
           x == [bare.prep EXCEPT ![date] = <<entry>>]
<1>1. \/ plan = bare
      \/ Cardinality(Meals) >= 2 /\ plan = [bare EXCEPT !.prep = x] /\ written = [id \in {1} |-> Content(bare, entry)]
  BY DEF RecipesInit
<1>2. Id \in Bijection(Meals, 1 .. Cardinality(Meals)) /\ word \in Words /\ date \in PrepDates
  BY IdsBijective, RecipesAssumption
<1> HIDE DEF Id, word, date
<1>3. Anew(bare) /\ bare.prep = [d \in PrepDates |-> <<>>]
  BY <1>2, NewRecipes
<1>4. Cardinality(Meals) >= 2 =>
        EntryTyped(entry) /\ Sources(entry) = 1 .. Cardinality(Meals) /\ entry.id = 1 /\ ~entry.complete
  BY FirstEntry
<1> HIDE DEF bare, entry
<1>5. CASE plan = bare
  BY <1>3, <1>5, NothingQueued
<1>6. ASSUME Cardinality(Meals) >= 2, plan = [bare EXCEPT !.prep = x], written = [id \in {1} |-> Content(bare, entry)]
      PROVE  RecipesInv
  <2>1. x = [d \in PrepDates |-> IF d = date THEN <<entry>> ELSE <<>>]
    BY <1>2, <1>3
  <2>2. written[entry.id] = Content(bare, entry)
    BY <1>4, <1>6
  <2> HIDE DEF x
  <2>3. EntryTyped(entry) /\ Sources(entry) = 1 .. Cardinality(Meals) /\ ~entry.complete
    BY <1>4, <1>6
  <2> QED BY <1>2, <1>3, <1>6, <2>1, <2>2, <2>3, AllQueued
<1> QED BY <1>1, <1>5, <1>6

LEMMA RecipesBegin == RecipesInit => RecipesGood
BY RecipesStart DEF RecipesInit, RecipesGood, RecipesUndo

\* Whatever is edited, cooked, prepared, bought and undone, in any recipes.
THEOREM ShoppingMarksAlwaysKept == RecipesSpec => ShoppingMarksKept
<1>1. RecipesGood /\ [RecipesNext]_recipeVars =>
        [[plan' EXCEPT !.groceries = plan.groceries] # plan =>
           \A m \in Meals : \A r \in ToSet(plan.rows[m]), q \in ToSet(plan'.rows[m]) :
             r.id = q.id /\ r.word = q.word => plan'.groceries[r.id] = plan.groceries[r.id]]_recipeVars
  BY RecipesStep DEF MarksSame, MarksIn
<1>2. RecipesGood /\ [RecipesNext]_recipeVars => RecipesGood'
  BY RecipesStep
<1> QED BY <1>1, <1>2, RecipesBegin, PTL DEF RecipesSpec, ShoppingMarksKept

\* A combined entry that can be marked prepared says what its sources say,
\* whatever has been edited, combined, moved, expanded, reviewed and undone.
THEOREM PreparedAlwaysAsWritten == RecipesSpec => []PreparedAsWritten
<1>1. RecipesGood /\ [RecipesNext]_recipeVars => RecipesGood'
  BY RecipesStep
<1>2. RecipesGood => PreparedAsWritten
  BY DEF RecipesGood, RecipesInv
<1> QED BY <1>1, <1>2, RecipesBegin, PTL DEF RecipesSpec

-----------------------------------------------------------------------------
(* The parts together.                                                      *)

LEMMA HouseholdStep ==
  ASSUME [HouseholdNext]_householdVars
  PROVE  [WeeksNext]_weekVars /\ [RecipesNext]_recipeVars
BY DEF HouseholdNext, householdVars, WeeksPart, RecipesPart, CataloguePart, TimerPart

\* The rows of a cooked meal, and what its steps say and use, stay.
LEMMA CookedStay ==
  ASSUME CookedSame(plan'), NEW m \in Meals, plan.frozen[m]
  PROVE  /\ plan'.rows[m] = plan.rows[m]
         /\ [k \in DOMAIN plan'.steps[m] |-> <<plan'.steps[m][k].text, plan'.steps[m][k].inputs>>]
              = [k \in DOMAIN plan.steps[m] |-> <<plan.steps[m][k].text, plan.steps[m][k].inputs>>]
<1>1. /\ plan'.rows[m] = plan.rows[m]
      /\ DOMAIN plan'.steps[m] = DOMAIN plan.steps[m]
      /\ \A k \in DOMAIN plan'.steps[m] : Says(plan'.steps[m][k]) = Says(plan.steps[m][k])
  BY DEF CookedSame
<1>2. [k \in DOMAIN plan'.steps[m] |-> Says(plan'.steps[m][k])] = [k \in DOMAIN plan.steps[m] |-> Says(plan.steps[m][k])]
  BY <1>1
<1> QED BY <1>1, <1>2 DEF Says

\* The days and meals of an ended week, and the rows and instructions of a
\* cooked meal, whatever the household does and takes back.
THEOREM PastAlwaysKept == HouseholdSpec => PastKept
<1> DEFINE Inv == WeeksGood /\ RecipesGood
<1>1. HouseholdInit => Inv
  BY WeeksBegin, RecipesBegin DEF HouseholdInit
<1>2. Inv /\ [HouseholdNext]_householdVars => Inv'
  BY HouseholdStep, WeeksSteps, RecipesStep
<1>3. Inv /\ [HouseholdNext]_householdVars =>
        [\A w \in WeekIds : household.weeks[w].status = "archived" =>
           household'.weeks[w] \in {household.weeks[w], [household.weeks[w] EXCEPT !.status = "active"]}]_weekVars
  BY HouseholdStep, WeeksSteps
<1>4. Inv /\ [HouseholdNext]_householdVars =>
        [\A m \in Meals : plan.frozen[m] =>
           /\ plan'.rows[m] = plan.rows[m]
           /\ [k \in DOMAIN plan'.steps[m] |-> <<plan'.steps[m][k].text, plan'.steps[m][k].inputs>>]
                = [k \in DOMAIN plan.steps[m] |-> <<plan.steps[m][k].text, plan.steps[m][k].inputs>>]]_recipeVars
  BY HouseholdStep, RecipesStep, CookedStay
<1> QED BY <1>1, <1>2, <1>3, <1>4, PTL DEF HouseholdSpec, PastKept, ArchivedKept, CookedKept
=============================================================================

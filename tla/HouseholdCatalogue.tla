------------------------- MODULE HouseholdCatalogue -------------------------
(***************************************************************************)
(* The household's ingredient catalogue (lib/household-domain.ts,          *)
(* lib/ingredient-catalogue.ts) and the review by which a page links the   *)
(* rows of a recipe to its concepts (app/planner-client.tsx): candidates   *)
(* are previewed in batches, decided, and applied if nothing has changed.  *)
(* Other callers change the catalogue and the rows meanwhile, and the      *)
(* newest change may be undone, which brings an older revision back.       *)
(*                                                                         *)
(* A word stands for all its spellings; similar, inexact candidates, the   *)
(* sections of concepts and the amounts of rows are left out. The rows are *)
(* those of any week and meal: what the links are is changed in all.       *)
(***************************************************************************)
EXTENDS Integers, Sequences, FiniteSets, SequencesExt

CONSTANTS
    ConceptIds,      \* bound: the identifiers concepts are created with
    Names,           \* bound: the words rows and concepts are named with
    Rows,            \* the rows reviewed
    MaxVocabulary,   \* MAX_INGREDIENT_VOCABULARY
    MaxReviewed,        \* MAX_INGREDIENT_CANDIDATE_BATCH
    MaxVersions      \* bound: accepted changes

ASSUME CatalogueAssumption ==
    /\ {MaxVocabulary, MaxReviewed, MaxVersions} \subseteq Nat /\ MaxReviewed > 0
    /\ IsFiniteSet(Rows)

VARIABLES
    pantry,     \* [revision, concepts, rows]: concepts by identifier,
                \* a row's word and the concept it is linked to
    version,    \* the planner version
    basis,      \* the state before the newest change, or NoBasis
    shown,      \* the planner version the page shows
    review      \* [queue, batch, version, revision, seen]

catalogueVars == <<pantry, version, basis, shown, review>>

NoConcept == "unresolved"
NoBasis == [revision |-> 0]
NoReview == [queue |-> <<>>, batch |-> <<>>, version |-> 0, revision |-> 0, seen |-> NoBasis]

Concepts == DOMAIN pantry.concepts
Vocabulary(c) == {c.label} \cup c.words
FaultLabelsOnly(p, words) == {id \in DOMAIN p.concepts : p.concepts[id].label \in words}
Owners(p, words) == {id \in DOMAIN p.concepts : Vocabulary(p.concepts[id]) \cap words # {}}
Named(p, word) == Owners(p, {word})

\* The first identifier free: materializeId, or the caller's choice.
NewConcept(id, label, words) == [i \in {id} |-> [label |-> label, words |-> words]]
CreateIn(p, id, label, words) ==
    [p EXCEPT !.revision = @ + 1,
              !.concepts = [i \in DOMAIN @ \cup {id} |->
                  IF i = id THEN NewConcept(id, label, words)[id] ELSE @[i]]]

-----------------------------------------------------------------------------
(* An accepted change; the last validation keeps vocabularies bounded.     *)

Bounded(p) == \A id \in DOMAIN p.concepts : Cardinality(p.concepts[id].words) <= MaxVocabulary

Commit(p) ==
    /\ version < MaxVersions /\ Bounded(p)
    /\ pantry' = p /\ version' = version + 1 /\ basis' = pantry

Change(p) == Commit(p) /\ UNCHANGED <<shown, review>>

CreateIngredientConcept(id, label, words) ==
    /\ id \notin Concepts /\ Owners(pantry, {label} \cup words) = {}
    /\ Change(CreateIn(pantry, id, label, words))

AddIngredientVocabulary(id, words) ==
    /\ Owners(pantry, words) \subseteq {id} /\ ~(words \subseteq Vocabulary(pantry.concepts[id]))
    /\ Change([pantry EXCEPT !.revision = @ + 1,
                             !.concepts[id].words = @ \cup (words \ Vocabulary(pantry.concepts[id]))])

\* The old label stays in the vocabulary, if there is room.
RenameIngredientConcept(id, label) ==
    LET old == pantry.concepts[id] IN
    /\ Owners(pantry, {label}) \subseteq {id} /\ old.label # label
    /\ old.label \in old.words \/ Cardinality(old.words) < MaxVocabulary
    /\ Change([pantry EXCEPT !.revision = @ + 1,
                             !.concepts[id] = [label |-> label, words |-> old.words \cup {old.label}]])

\* policy "reject" refuses to lose a word, "preferTarget" keeps what fits.
MergeIngredientConcepts(survivor, merged, accepted, policy) ==
    LET new == UNION {Vocabulary(pantry.concepts[id]) : id \in merged} \ Vocabulary(pantry.concepts[survivor])
        room == MaxVocabulary - Cardinality(pantry.concepts[survivor].words)
    IN  /\ survivor \notin merged /\ merged # {}
        /\ policy = "reject" => Cardinality(new) <= room
        /\ accepted \subseteq new
        /\ Cardinality(accepted) = IF Cardinality(new) <= room THEN Cardinality(new) ELSE room
        /\ Change([revision |-> pantry.revision + 1,
                   concepts |-> [id \in Concepts \ merged |->
                      IF id = survivor THEN [pantry.concepts[id] EXCEPT !.words = @ \cup accepted]
                      ELSE pantry.concepts[id]],
                   rows |-> [r \in Rows |-> IF pantry.rows[r].concept \in merged
                      THEN [pantry.rows[r] EXCEPT !.concept = survivor] ELSE pantry.rows[r]]])

-----------------------------------------------------------------------------
(* Rows.                                                                   *)

\* A row added under a word only one concept has is linked to it at once.
AddRow(r, word) ==
    /\ pantry.rows[r].word = "none"
    /\ Change([pantry EXCEPT !.rows[r] = [word |-> word,
          concept |-> IF Cardinality(Named(pantry, word)) = 1 THEN CHOOSE id \in Named(pantry, word) : TRUE
                      ELSE NoConcept]])

\* editMealRecipe: a row that is another ingredient has the link the edit gives.
RenameRow(r, word, link) ==
    /\ pantry.rows[r].word \notin {"none", word} /\ link \in Concepts \cup {NoConcept}
    /\ Change([pantry EXCEPT !.rows[r] = [word |-> word, concept |-> link]])

\* A decision: a concept of the catalogue, none, or a new one.
Decide(p, r, decision, id) ==
    IF decision = "create" THEN [CreateIn(p, id, p.rows[r].word, {}) EXCEPT !.rows[r].concept = id]
    ELSE [p EXCEPT !.rows[r].concept = decision]

Decidable(p, r, decision, id) ==
    IF decision = "create" THEN id \notin DOMAIN p.concepts /\ Named(p, p.rows[r].word) = {}
    ELSE decision \in DOMAIN p.concepts \cup {NoConcept}

ResolveIngredientOccurrence(r, decision, id) ==
    /\ pantry.rows[r].word # "none" /\ Decidable(pantry, r, decision, id)
    /\ decision # pantry.rows[r].concept
    /\ Change(Decide(pantry, r, decision, id))

\* applyIngredientResolutionBatch of another caller, of one row that it adds;
\* a page's review has none of these.
AddResolvedRow(r, word, decision, id) ==
    LET added == [pantry EXCEPT !.rows[r] = [word |-> word, concept |-> NoConcept]] IN
    /\ pantry.rows[r].word = "none" /\ Decidable(added, r, decision, id)
    /\ Change(Decide(added, r, decision, id))

\* The undo of the newest change, at a new version.
UndoNewest ==
    /\ version < MaxVersions /\ basis # NoBasis
    /\ pantry' = basis /\ version' = version + 1 /\ basis' = NoBasis
    /\ UNCHANGED <<shown, review>>

-----------------------------------------------------------------------------
(* The review.                                                             *)

\* startIngredientReview: the first of the queue, previewed in the state p of
\* version v; asked for at another version, the review ends with a message.
Preview(queue, p, v, at) ==
    IF queue = <<>> \/ at # v
    THEN [NoReview EXCEPT !.queue = queue]
    ELSE LET size == IF Len(queue) < MaxReviewed THEN Len(queue) ELSE MaxReviewed IN
         [queue |-> queue, batch |-> [k \in 1 .. size |-> <<queue[k], p.rows[queue[k]].word>>],
          version |-> v, revision |-> p.revision, seen |-> p]

\* reviewCurrentIngredients: the rows without a link.
StartReview(queue) ==
    /\ queue # <<>>
    /\ ToSet(queue) = {r \in Rows : pantry.rows[r].word # "none" /\ pantry.rows[r].concept = NoConcept}
    /\ review' = Preview(queue, pantry, version, shown)
    /\ UNCHANGED <<pantry, version, basis, shown>>

FaultAnyVersion(v) == TRUE
Current(v) == v = version
Reviewed == review.batch # <<>>

\* applyIngredientResolutionBatch: decisions in the order of the rows; what
\* the catalogue and the rows are after each.
AfterDecisions(decisions, ids) ==
    LET after[k \in 0 .. Len(review.batch)] ==
          IF k = 0 THEN pantry
          ELSE Decide(after[k - 1], review.batch[k][1], decisions[k], ids[k])
    IN  after

Batch(decisions, ids) == AfterDecisions(decisions, ids)[Len(review.batch)]

BatchAllowed(decisions, ids) ==
    /\ review.revision = pantry.revision
    /\ \A k \in DOMAIN review.batch :
         /\ pantry.rows[review.batch[k][1]].word = review.batch[k][2]
         /\ Decidable(AfterDecisions(decisions, ids)[k - 1], review.batch[k][1], decisions[k], ids[k])

ApplyReview(decisions, ids) ==
    /\ Reviewed /\ Current(review.version) /\ BatchAllowed(decisions, ids)
    /\ Commit(Batch(decisions, ids)) /\ shown' = version + 1
    /\ review' = Preview(SubSeq(review.queue, Len(review.batch) + 1, Len(review.queue)),
                         Batch(decisions, ids), version + 1, version + 1)

\* onConflict: everything still queued is previewed again.
ReviewConflicts ==
    /\ Reviewed /\ ~Current(review.version)
    /\ UNCHANGED <<pantry, version, basis>>
    /\ shown' = version /\ review' = Preview(review.queue, pantry, version, version)

ShowNewest == shown # version /\ shown' = version /\ UNCHANGED <<pantry, version, basis, review>>

-----------------------------------------------------------------------------
\* One concept, and one row, of another word.
CatalogueInit ==
    /\ LET id == CHOOSE i \in ConceptIds : TRUE
           word == CHOOSE w \in Names : TRUE
           row == CHOOSE r \in Rows : TRUE
           other == CHOOSE w \in Names : w # word
       IN  pantry = [revision |-> 1, concepts |-> NewConcept(id, word, {}),
                     rows |-> [r \in Rows |-> [word |-> IF r = row THEN other ELSE "none", concept |-> NoConcept]]]
    /\ version = 0 /\ basis = NoBasis /\ shown = 0 /\ review = NoReview

ReviewDecisions == ConceptIds \cup {NoConcept, "create"}

CatalogueNext ==
    \/ \E id \in ConceptIds, w \in Names : \E words \in SUBSET (Names \ {w}) : CreateIngredientConcept(id, w, words)
    \/ \E id \in Concepts, w \in Names : AddIngredientVocabulary(id, {w}) \/ RenameIngredientConcept(id, w)
    \/ \E survivor \in Concepts, merged \in SUBSET Concepts, accepted \in SUBSET Names, p \in {"reject", "preferTarget"} :
         MergeIngredientConcepts(survivor, merged, accepted, p)
    \/ \E r \in Rows, w \in Names : AddRow(r, w) \/ \E link \in Concepts \cup {NoConcept} : RenameRow(r, w, link)
    \/ \E r \in Rows, id \in ConceptIds : \E d \in {id, NoConcept, "create"} :
         \/ ResolveIngredientOccurrence(r, d, id)
         \/ \E w \in Names : AddResolvedRow(r, w, d, id)
    \/ UndoNewest
    \/ \E queue \in SetToSeqs({r \in Rows : pantry.rows[r].word # "none" /\ pantry.rows[r].concept = NoConcept}) :
         StartReview(queue)
    \/ \E d \in [DOMAIN review.batch -> ReviewDecisions], ids \in [DOMAIN review.batch -> ConceptIds] : ApplyReview(d, ids)
    \/ ReviewConflicts \/ ShowNewest

CatalogueSpec == CatalogueInit /\ [][CatalogueNext]_catalogueVars

-----------------------------------------------------------------------------
(* Properties.                                                             *)

\* No word names two concepts and no row is linked to a concept that is
\* gone, through creations inside a batch, renames, merges and undos.
CatalogueCoherent ==
    /\ \A w \in Names : Cardinality({id \in Concepts : w \in Vocabulary(pantry.concepts[id])}) <= 1
    /\ \A r \in Rows : pantry.rows[r].concept \in Concepts \cup {NoConcept}

\* What the family reviewed is what it decides about: when a batch lands,
\* the catalogue and the rows are those its candidates were computed from,
\* though an undo may have brought the revision number back.
ReviewedAsSeen ==
    [][shown' = version' /\ Reviewed /\ version' # version => review.seen = pantry]_catalogueVars
=============================================================================

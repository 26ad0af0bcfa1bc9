-------------------------- MODULE HouseholdRecipes --------------------------
(***************************************************************************)
(* The recipes of one planned week (lib/household-domain.ts): the          *)
(* ingredient rows and instruction steps of its meals, the shopping list   *)
(* projected from the rows, and the prep dates on which steps are done     *)
(* ahead, alone or combined. Each action is one command, from its checks   *)
(* to the last validation.                                                 *)
(*                                                                         *)
(* A row is a word, its core literal, and a detail: amount, unit, source   *)
(* and qualifier. Its link to an ingredient, which merges rewrite in every *)
(* meal, a cooked one included, is in HouseholdCatalogue. Titles, notes,   *)
(* yields and timers are left out.                                         *)
(***************************************************************************)
EXTENDS Integers, Sequences, FiniteSets, SequencesExt

CONSTANTS
    Meals,         \* the meals of the week
    Words,         \* bound: what a row may be of
    Texts,         \* bound: what an instruction may say
    PrepDates,     \* bound: the dates prepared on
    MaxRows,       \* MAX_INGREDIENT_LINES of a meal
    MaxSteps,      \* MAX_STEPS_PER_MEAL
    MaxDates,      \* MAX_PREP_DATES
    MaxEntries,    \* MAX_PREP_ENTRIES
    MaxEdits       \* bound: commands given

ASSUME RecipesAssumption ==
    /\ {MaxRows, MaxSteps, MaxDates, MaxEntries, MaxEdits} \subseteq Nat
    /\ MaxEntries > 0 /\ MaxDates > 0
    /\ IsFiniteSet(Meals) /\ IsFiniteSet(PrepDates) /\ Words # {} /\ Texts # {} /\ PrepDates # {}

VARIABLES
    plan,          \* [rows, steps, frozen, groceries, prep]
    written,       \* what the sources of a combined entry said when its
                   \* instruction was written or reviewed; not stored
    recipesBefore, \* plan and written before the newest change, while that
                   \* may be undone: at most one
    edits          \* commands finished so far

recipeVars == <<plan, written, recipesBefore, edits>>

Fresh(used) == CHOOSE n \in 1 .. Cardinality(used) + 1 : n \notin used
FreshIds(used, n) ==
    CHOOSE ids \in [1 .. n -> (1 .. Cardinality(used) + n) \ used] : IsInjective(ids)
Splice(s, k, new) == SubSeq(s, 1, k) \o new \o SubSeq(s, k + 1, Len(s))
\* A sequence without what is in a set.
Without(s, out) ==
    LET upTo[k \in 0 .. Len(s)] ==
          IF k = 0 THEN <<>>
          ELSE IF s[k] \in out THEN upTo[k - 1] ELSE Append(upTo[k - 1], s[k])
    IN  upTo[Len(s)]
Lesser(a, b) == IF a < b THEN a ELSE b

RowIds(rows) == {r.id : r \in ToSet(rows)}
AllRows(p) == UNION {RowIds(p.rows[m]) : m \in Meals}
AllSteps(p) == UNION {{s.id : s \in ToSet(p.steps[m])} : m \in Meals}
MealOf(p, s) == CHOOSE m \in Meals : \E t \in ToSet(p.steps[m]) : t.id = s
PlaceOf(p, s) == CHOOSE k \in DOMAIN p.steps[MealOf(p, s)] : p.steps[MealOf(p, s)][k].id = s
StepNamed(p, s) == p.steps[MealOf(p, s)][PlaceOf(p, s)]
SetStep(p, s, step) == [p EXCEPT !.steps[MealOf(p, s)][PlaceOf(p, s)] = step]

-----------------------------------------------------------------------------
(* Prep entries: a direct one is one step, a combined one several.         *)

Sources(e) == {e.sources[k].step : k \in DOMAIN e.sources}
EntriesOf(p) == UNION {ToSet(p.prep[d]) : d \in PrepDates}
EntryIds(p) == {e.id : e \in EntriesOf(p)}
CombinedIn(entries) == {e \in entries : e.kind = "combined"}
CombinedOwns(p, s) == \E e \in CombinedIn(EntriesOf(p)) : s \in Sources(e)
References(p, steps) == \E e \in EntriesOf(p) : Sources(e) \cap steps # {}
EntryCount(p) == Cardinality(EntriesOf(p))
Queues(p) == {d \in PrepDates : p.prep[d] # <<>>}

InputsOf(p, s) == ToSet(StepNamed(p, s).inputs)
SourceOf(p, s) == [step |-> s, rows |-> InputsOf(p, s)]
DirectEntry(id, s) == [id |-> id, kind |-> "direct", sources |-> <<[step |-> s, rows |-> {}]>>,
                          text |-> "", complete |-> FALSE, review |-> FALSE]

\* findOrCreatePrepSessionForDate: a date with nothing on it needs a queue.
QueueFor(p, d) == p.prep[d] # <<>> \/ Cardinality(Queues(p)) < MaxDates

Rebased(p, e, steps) ==
    [k \in DOMAIN e.sources |-> IF e.sources[k].step \in steps
                                THEN SourceOf(p, e.sources[k].step) ELSE e.sources[k]]

FaultReopened(p, e, steps) ==
    IF e.kind = "combined" /\ Sources(e) \cap steps # {}
    THEN [e EXCEPT !.complete = FALSE, !.sources = Rebased(p, e, steps)] ELSE e

Reopened(p, e, steps) ==
    IF e.kind = "combined" /\ Sources(e) \cap steps # {}
    THEN [e EXCEPT !.complete = FALSE, !.review = TRUE, !.sources = Rebased(p, e, steps)] ELSE e

\* invalidateCombinedPrepForStep: the entries that use a step are reopened for review.
Invalidate(p, steps) ==
    [p EXCEPT !.prep = [d \in PrepDates |-> [k \in DOMAIN @[d] |-> Reopened(p, @[d][k], steps)]]]

-----------------------------------------------------------------------------
(* The shopping list: one item for each row, kept while the row lives.     *)

NewItem == [coverage |-> "needs_source", section |-> "Pantry", checked |-> FALSE]

FaultRebuild(p) == [p EXCEPT !.groceries = [r \in AllRows(p) |-> NewItem]]

Reconcile(p) ==
    [p EXCEPT !.groceries = [r \in AllRows(p) |-> IF r \in DOMAIN @ THEN @[r] ELSE NewItem]]

-----------------------------------------------------------------------------
(* The last validation, and the end of every command.                      *)

ValidRecipes(p) ==
    /\ \A m \in Meals : Len(p.rows[m]) <= MaxRows /\ Len(p.steps[m]) <= MaxSteps
    /\ \A m \in Meals : \A s \in ToSet(p.steps[m]) : ToSet(s.inputs) \subseteq RowIds(p.rows[m])
    /\ DOMAIN p.groceries = AllRows(p)

ValidPrep(p) ==
    /\ \A e \in EntriesOf(p) : Sources(e) \subseteq AllSteps(p)
    /\ \A e \in CombinedIn(EntriesOf(p)) :
         /\ Len(e.sources) >= 2 /\ ~(e.complete /\ e.review)
         /\ \A k \in DOMAIN e.sources : e.sources[k] = SourceOf(p, e.sources[k].step)
         /\ \A other \in EntriesOf(p) \ {e} : Sources(other) \cap Sources(e) = {}
    /\ \A d \in PrepDates : \A j, k \in DOMAIN p.prep[d] :
         j # k => Sources(p.prep[d][j]) \cap Sources(p.prep[d][k]) = {}
    /\ EntryCount(p) <= MaxEntries /\ Cardinality(Queues(p)) <= MaxDates

Content(p, e) ==
    [s \in Sources(e) |-> <<StepNamed(p, s).text,
        {r \in ToSet(p.rows[MealOf(p, s)]) : r.id \in InputsOf(p, s)}>>]

\* fresh: the combined entries whose instruction this command wrote
FinishEdit(p, fresh) ==
    /\ edits' = edits + 1
    /\ IF ValidRecipes(p) /\ ValidPrep(p)
       THEN /\ plan' = p /\ recipesBefore' = {<<plan, written>>}
            /\ written' = [id \in {e.id : e \in CombinedIn(EntriesOf(p))} |->
                  IF id \in fresh THEN Content(p, CHOOSE e \in EntriesOf(p) : e.id = id) ELSE written[id]]
       ELSE UNCHANGED <<plan, written, recipesBefore>>

\* The undo of the newest change; an undo is not undone.
UndoRecipes ==
    /\ edits' = edits + 1 /\ recipesBefore' = {}
    /\ \E before \in recipesBefore : plan' = before[1] /\ written' = before[2]

-----------------------------------------------------------------------------
(* Rows.                                                                   *)

FaultEditCooked(m) == TRUE
Editable(m) == ~plan.frozen[m]

AddIngredientOccurrence(m, word) ==
    /\ Editable(m)
    /\ FinishEdit(Reconcile([plan EXCEPT !.rows[m] =
           Append(@, [id |-> Fresh(AllRows(plan)), word |-> word, detail |-> 0])]), {})

\* Rows retained with what they now say, the rows removed and one created:
\* inputs lose removed rows, a renamed row is unsourced again, and combined
\* entries that used a changed row are reopened.
EditMealRecipe(m, retained, created) ==
    LET kept == RowIds(retained)
        removed == RowIds(plan.rows[m]) \ kept
        Old(r) == CHOOSE o \in ToSet(plan.rows[m]) : o.id = r.id
        Ids(Changed(_)) == {r.id : r \in {q \in ToSet(retained) : Changed(q)}}
        Renamed(r) == r.word # Old(r).word
        Rewritten(r) == r # Old(r)
        affected == {s.id : s \in {t \in ToSet(plan.steps[m]) :
                       ToSet(t.inputs) \cap (removed \cup Ids(Rewritten)) # {}}}
        rows == retained \o [k \in DOMAIN created |->
                   [id |-> Fresh(AllRows(plan)), word |-> created[k], detail |-> 0]]
        edited == [plan EXCEPT
           !.rows[m] = rows,
           !.steps[m] = [k \in DOMAIN @ |-> [@[k] EXCEPT !.inputs = Without(plan.steps[m][k].inputs, removed)]],
           !.groceries = [r \in DOMAIN @ |-> IF r \in Ids(Renamed)
              THEN [@[r] EXCEPT !.coverage = "needs_source", !.checked = FALSE] ELSE @[r]]]
    IN  /\ Editable(m) /\ rows # plan.rows[m] /\ Len(rows) <= MaxRows
        /\ FinishEdit(Reconcile(Invalidate(edited, affected)), {})

\* A recipe of one row and one step; a meal under way keeps the one it has.
ReplaceMealRecipeFromSource(m, word, text) ==
    LET steps == {s.id : s \in ToSet(plan.steps[m])}
        row == [id |-> Fresh(AllRows(plan)), word |-> word, detail |-> 0]
        step == [id |-> Fresh(AllSteps(plan)), inputs |-> <<row.id>>, text |-> text, complete |-> FALSE]
    IN  /\ Editable(m) /\ ~References(plan, steps)
        /\ \A s \in ToSet(plan.steps[m]) : ~s.complete
        /\ FinishEdit(Reconcile([plan EXCEPT !.rows[m] = <<row>>, !.steps[m] = <<step>>]),
                      {})

-----------------------------------------------------------------------------
(* Steps.                                                                  *)

\* resolveInstructionInputEdits: a new input is the one row of its word, or
\* a row of its own when the meal has none or several.
LinkInput(linked, m, word) ==
    LET same == {r \in ToSet(linked.p.rows[m]) : r.word = word}
        new == Fresh(AllRows(linked.p))
    IN  IF Cardinality(same) = 1
        THEN [linked EXCEPT !.inputs = Append(@, (CHOOSE r \in same : TRUE).id)]
        ELSE [p |-> [linked.p EXCEPT !.rows[m] = Append(@, [id |-> new, word |-> word, detail |-> 0])],
              inputs |-> Append(linked.inputs, new)]

LinkInputs(p, m, words) ==
    LET upTo[k \in 0 .. Len(words)] ==
          IF k = 0 THEN [p |-> p, inputs |-> <<>>] ELSE LinkInput(upTo[k - 1], m, words[k])
    IN  upTo[Len(words)]

AddInstructionStep(m, at, text, words) ==
    LET linked == LinkInputs(plan, m, words)
        step == [id |-> Fresh(AllSteps(plan)), inputs |-> linked.inputs, text |-> text, complete |-> FALSE]
    IN  /\ Editable(m) /\ Len(plan.steps[m]) < MaxSteps /\ at <= Len(plan.steps[m])
        /\ FinishEdit(Reconcile([linked.p EXCEPT !.steps[m] = Splice(@, at, <<step>>)]), {})

\* keep: the rows of the meal retained or taken as inputs
EditInstructionStep(s, text, keep, words) ==
    LET m == MealOf(plan, s)
        old == StepNamed(plan, s)
        linked == LinkInputs(plan, m, words)
        new == [old EXCEPT !.text = text, !.inputs = keep \o linked.inputs]
    IN  /\ Editable(m) /\ ToSet(keep) \subseteq RowIds(plan.rows[m]) /\ new # old
        /\ FinishEdit(Reconcile(Invalidate(SetStep(linked.p, s, new), {s})), {})

MoveInstructionStep(s, at) ==
    LET m == MealOf(plan, s)
        others == RemoveAt(plan.steps[m], PlaceOf(plan, s))
    IN  /\ Editable(m) /\ at < Len(plan.steps[m]) /\ at # PlaceOf(plan, s) - 1
        /\ FinishEdit([plan EXCEPT !.steps[m] = Splice(others, at, <<StepNamed(plan, s)>>)], {})

RemoveInstructionStep(s) ==
    /\ Editable(MealOf(plan, s)) /\ ~References(plan, {s})
    /\ FinishEdit([plan EXCEPT !.steps[MealOf(plan, s)] = RemoveAt(@, PlaceOf(plan, s))], {})

SetInstructionStepComplete(s, complete) ==
    /\ StepNamed(plan, s).complete # complete
    /\ FinishEdit(SetStep(plan, s, [StepNamed(plan, s) EXCEPT !.complete = complete]), {})

\* updateMealStatus to cooked
CookMeal(m) ==
    /\ ~plan.frozen[m]
    /\ FinishEdit([plan EXCEPT !.frozen[m] = TRUE], {})

-----------------------------------------------------------------------------
(* Prep dates.                                                             *)

AddPrepStepsToDate(d, steps, at) ==
    LET ids == FreshIds(EntryIds(plan), Len(steps))
        new == [k \in DOMAIN steps |-> DirectEntry(ids[k], steps[k])]
    IN  /\ IsInjective(steps) /\ \A k \in DOMAIN steps : ~CombinedOwns(plan, steps[k])
        /\ QueueFor(plan, d) /\ at <= Len(plan.prep[d])
        /\ \A e \in ToSet(plan.prep[d]) : Sources(e) \cap ToSet(steps) = {}
        /\ EntryCount(plan) + Len(steps) <= MaxEntries
        /\ FinishEdit([plan EXCEPT !.prep[d] = Splice(@, at, new)], {})

\* The direct entries of the sources disappear from every date.
CombinePrepStepsOnDate(d, steps, text, at) ==
    LET gone == {e \in EntriesOf(plan) : e.kind = "direct" /\ Sources(e) \subseteq ToSet(steps)}
        before == Len(Without(SubSeq(plan.prep[d], 1, at), gone))
        cleared == [plan EXCEPT !.prep = [c \in PrepDates |-> Without(@[c], gone)]]
        entry == [id |-> Fresh(EntryIds(cleared)), kind |-> "combined", text |-> text,
                  sources |-> [k \in DOMAIN steps |-> SourceOf(plan, steps[k])],
                  complete |-> FALSE, review |-> FALSE]
        place == Lesser(before, Len(cleared.prep[d]))
    IN  /\ IsInjective(steps) /\ \A k \in DOMAIN steps : ~CombinedOwns(plan, steps[k])
        /\ QueueFor(plan, d) /\ at <= Len(plan.prep[d])
        /\ EntryCount(cleared) + 1 <= MaxEntries
        /\ FinishEdit([cleared EXCEPT !.prep[d] = Splice(@, place, <<entry>>)],
                      {entry.id})

ChangeEntry(d, k, entry) == [plan EXCEPT !.prep[d][k] = entry]

UpdateCombinedPrepStep(d, k, text, discard) ==
    LET e == plan.prep[d][k] IN
    /\ e.kind = "combined" /\ (e.text # text \/ e.review) /\ (e.complete => discard)
    /\ FinishEdit(ChangeEntry(d, k, [e EXCEPT !.text = text, !.complete = FALSE, !.review = FALSE,
           !.sources = [j \in DOMAIN e.sources |-> SourceOf(plan, e.sources[j].step)]]), {e.id})

SetCombinedPrepStepComplete(d, k, complete) ==
    LET e == plan.prep[d][k] IN
    /\ e.kind = "combined" /\ e.complete # complete /\ ~(complete /\ e.review)
    /\ FinishEdit(ChangeEntry(d, k, [e EXCEPT !.complete = complete]), {})

ExpandCombinedPrepStep(d, k, discard) ==
    LET e == plan.prep[d][k]
        ids == FreshIds(EntryIds(plan), Len(e.sources))
        entries == [j \in DOMAIN e.sources |-> DirectEntry(ids[j], e.sources[j].step)]
    IN  /\ e.kind = "combined" /\ (e.complete => discard)
        /\ EntryCount(plan) - 1 + Len(e.sources) <= MaxEntries
        /\ FinishEdit([plan EXCEPT !.prep[d] = SubSeq(@, 1, k - 1) \o entries \o SubSeq(@, k + 1, Len(@))],
                      {})

\* picked: the identifiers of the entries moved, in the order they had
MovePrepStepsToDate(from, to, picked, at) ==
    LET others == {e \in ToSet(plan.prep[from]) : e.id \notin picked}
        moving == Without(plan.prep[from], others)
        rest == Without(plan.prep[from], ToSet(moving))
        before == Len(Without(SubSeq(plan.prep[from], 1, at), ToSet(moving)))
    IN  /\ picked # {} /\ QueueFor(plan, to) /\ at <= Len(plan.prep[to])
        /\ IF from = to
           THEN FinishEdit([plan EXCEPT !.prep[to] = Splice(rest, Lesser(before, Len(rest)), moving)],
                           {})
           ELSE /\ \A e \in ToSet(plan.prep[to]), f \in ToSet(moving) : Sources(e) \cap Sources(f) = {}
                /\ FinishEdit([plan EXCEPT !.prep[from] = rest, !.prep[to] = Splice(@, at, moving)],
                              {})

Discardable(entries, discard) == discard \/ \A e \in CombinedIn(entries) : ~e.complete

RemovePrepStepsFromDate(d, picked, discard) ==
    LET entries == {e \in ToSet(plan.prep[d]) : e.id \in picked} IN
    /\ picked # {} /\ Discardable(entries, discard)
    /\ FinishEdit([plan EXCEPT !.prep[d] = Without(@, entries)], {})

ClearPrepDate(d, discard) ==
    /\ plan.prep[d] # <<>> /\ Discardable(ToSet(plan.prep[d]), discard)
    /\ FinishEdit([plan EXCEPT !.prep[d] = <<>>], {})

-----------------------------------------------------------------------------
(* The marks of the shopping list.                                         *)

Mark(items, New(_)) ==
    /\ \E r \in items : New(plan.groceries[r]) # plan.groceries[r]
    /\ FinishEdit([plan EXCEPT !.groceries = [r \in DOMAIN @ |->
                      IF r \in items THEN New(@[r]) ELSE @[r]]], {})

SetGroceryItemsCoverage(items, coverage) ==
    Mark(items, LAMBDA g : [g EXCEPT !.coverage = coverage])
SetGroceryItemsSection(items, section) ==
    Mark(items, LAMBDA g : [g EXCEPT !.section = section])
SetGroceryItemChecked(item, checked) ==
    Mark({item}, LAMBDA g : [g EXCEPT !.checked = checked])

-----------------------------------------------------------------------------
\* The recipes a week is created with, with their shopping list.
RecipesFrom(rows, steps) ==
    Reconcile([rows |-> rows, steps |-> steps, frozen |-> [m \in Meals |-> FALSE],
               groceries |-> <<>>, prep |-> [d \in PrepDates |-> <<>>]])

Positions(s) == 0 .. Len(s)
SeqsUpTo(S, n) == UNION {[1 .. k -> S] : k \in 0 .. n}
SubSeqsOf(S) == {q \in SeqsUpTo(S, 2) : q # <<>>}

\* One thing of a recipe changes at a time: a row is dropped or rewritten, or
\* one is added; a step says something else or has another input.
Retained(rows) ==
    {RemoveAt(rows, k) : k \in DOMAIN rows}
      \cup {[rows EXCEPT ![k] = [id |-> @.id, word |-> w, detail |-> d]] :
                k \in DOMAIN rows, w \in Words, d \in {0, 1}}

FirstText == CHOOSE t \in Texts : TRUE

RecipeCommand ==
    \E m \in Meals :
      \/ \E w \in Words : \/ AddIngredientOccurrence(m, w)
                         \/ EditMealRecipe(m, plan.rows[m], <<w>>)
                         \/ ReplaceMealRecipeFromSource(m, w, FirstText)
      \/ \E retained \in Retained(plan.rows[m]) : EditMealRecipe(m, retained, <<>>)
      \/ \E words \in SeqsUpTo(Words, 1) :
           \E at \in Positions(plan.steps[m]) : AddInstructionStep(m, at, FirstText, words)
      \/ CookMeal(m)

StepCommand ==
    \E m \in Meals : \E step \in ToSet(plan.steps[m]) :
      \/ \E t \in Texts : EditInstructionStep(step.id, t, step.inputs, <<>>)
      \/ \E r \in RowIds(plan.rows[m]) : EditInstructionStep(step.id, step.text, <<r>>, <<>>)
      \/ \E w \in Words : EditInstructionStep(step.id, step.text, <<>>, <<w>>)
      \/ \E at \in Positions(plan.steps[m]) : MoveInstructionStep(step.id, at)
      \/ RemoveInstructionStep(step.id)
      \/ \E complete \in BOOLEAN : SetInstructionStepComplete(step.id, complete)

PrepCommand ==
    \E d \in PrepDates :
      \/ \E steps \in SubSeqsOf(AllSteps(plan)), at \in Positions(plan.prep[d]) :
           \/ AddPrepStepsToDate(d, steps, at)
           \/ Len(steps) = 2 /\ \E t \in Texts : CombinePrepStepsOnDate(d, steps, t, at)
      \/ \E k \in DOMAIN plan.prep[d], discard \in BOOLEAN :
           \/ \E t \in Texts : UpdateCombinedPrepStep(d, k, t, discard)
           \/ \E complete \in BOOLEAN : SetCombinedPrepStepComplete(d, k, complete)
           \/ ExpandCombinedPrepStep(d, k, discard)
      \/ \E picked \in SUBSET {e.id : e \in ToSet(plan.prep[d])} :
           \/ \E to \in PrepDates : \E at \in Positions(plan.prep[to]) : MovePrepStepsToDate(d, to, picked, at)
           \/ \E discard \in BOOLEAN : RemovePrepStepsFromDate(d, picked, discard)
      \/ \E discard \in BOOLEAN : ClearPrepDate(d, discard)

GroceryCommand ==
    \/ \E items \in {AllRows(plan)} \cup {{r} : r \in AllRows(plan)} :
         \/ \E c \in {"needs_source", "shop"} : SetGroceryItemsCoverage(items, c)
         \/ \E section \in {"Pantry", "Produce"} : SetGroceryItemsSection(items, section)
    \/ \E item \in AllRows(plan), checked \in BOOLEAN : SetGroceryItemChecked(item, checked)

RecipesNext ==
    edits < MaxEdits /\ (RecipeCommand \/ StepCommand \/ PrepCommand \/ GroceryCommand \/ UndoRecipes)

\* Every meal starts with one row and one step that uses it; the steps may
\* already be combined on a prep date.
RecipesInit ==
    /\ LET Id == CHOOSE f \in Bijection(Meals, 1 .. Cardinality(Meals)) : TRUE
           row(m) == [id |-> Id[m], word |-> CHOOSE w \in Words : TRUE, detail |-> 0]
           step(m) == [id |-> Id[m], inputs |-> <<Id[m]>>, text |-> FirstText, complete |-> FALSE]
           bare == RecipesFrom([m \in Meals |-> <<row(m)>>], [m \in Meals |-> <<step(m)>>])
           entry == [id |-> 1, kind |-> "combined", text |-> FirstText, complete |-> FALSE, review |-> FALSE,
                     sources |-> [k \in 1 .. Cardinality(Meals) |-> SourceOf(bare, k)]]
           date == CHOOSE d \in PrepDates : TRUE
       IN  \/ plan = bare /\ written = <<>>
           \/ /\ Cardinality(Meals) >= 2 /\ plan = [bare EXCEPT !.prep[date] = <<entry>>]
              /\ written = [id \in {1} |-> Content(bare, entry)]
    /\ recipesBefore = {} /\ edits = 0

RecipesSpec == RecipesInit /\ [][RecipesNext]_recipeVars

-----------------------------------------------------------------------------
(* Properties.                                                             *)


\* A combined entry that can be marked prepared says what its sources say:
\* after any edit of a source, a row or a recipe since its instruction was
\* written or reviewed, it is reopened and asks for a review.
PreparedAsWritten ==
    \A e \in CombinedIn(EntriesOf(plan)) : Content(plan, e) # written[e.id] => e.review /\ ~e.complete

\* No edit of recipes, steps or prep costs the family a shopping mark: an
\* item keeps its marks while its row lives and is not renamed.
ShoppingMarksKept ==
    [][[plan' EXCEPT !.groceries = plan.groceries] # plan =>
        \A m \in Meals : \A r \in ToSet(plan.rows[m]), q \in ToSet(plan'.rows[m]) :
           r.id = q.id /\ r.word = q.word => plan'.groceries[r.id] = plan.groceries[r.id]]_recipeVars

\* The rows of a cooked meal, as they read, and its instructions are never
\* rewritten; the undo of the cooking gives back what was cooked.
CookedKept ==
    [][\A m \in Meals : plan.frozen[m] =>
         /\ plan'.rows[m] = plan.rows[m]
         /\ [k \in DOMAIN plan'.steps[m] |-> <<plan'.steps[m][k].text, plan'.steps[m][k].inputs>>]
              = [k \in DOMAIN plan.steps[m] |-> <<plan.steps[m][k].text, plan.steps[m][k].inputs>>]]_recipeVars
=============================================================================

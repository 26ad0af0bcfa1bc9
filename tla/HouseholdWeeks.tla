--------------------------- MODULE HouseholdWeeks ---------------------------
(***************************************************************************)
(* The weeks of the household, their meals and their leftovers             *)
(* (lib/household-domain.ts): each action is one command of                *)
(* executeHouseholdCommand, from its checks to the last validation of the  *)
(* state it computed, which refuses the command and keeps the old state.   *)
(*                                                                         *)
(* A date is the number of a day; a week is the number of its Monday.      *)
(* Titles, notes and recipes are left out: HouseholdRecipes has them, and  *)
(* HouseholdCatalogue the links from their rows to ingredients, which are  *)
(* written in every week, an archived one included.                        *)
(***************************************************************************)
EXTENDS Integers, Sequences, FiniteSets, SequencesExt

CONSTANTS
    WeekIds,       \* bound: the Mondays weeks are planned for
    LastDay,       \* the last day of a week, counted from its Monday
    Plans,         \* bound: meals a new week may be planned with
    Ratings,       \* bound: what feedback and leftover quality may say
    Statuses,      \* bound: the statuses a meal is marked with
    MaxCommands    \* bound: commands given

MealStatuses == {"planned", "moved", "cooking", "cooked", "leftover", "flex"}

ASSUME WeeksAssumption ==
    /\ WeekIds \subseteq Int /\ LastDay \in Nat /\ MaxCommands \in Nat
    /\ \A v, w \in WeekIds : v < w => v + LastDay < w
    /\ Statuses \subseteq MealStatuses
    /\ Plans \subseteq Seq([day : Int, status : MealStatuses, protein : BOOLEAN])

VARIABLES
    household,     \* the stored state: [active, weeks]
    weeksBefore,   \* the state before the newest change, while that may be
                   \* undone: at most one
    commands       \* commands finished so far

weekVars == <<household, weeksBefore, commands>>

NoDay == -1
NoWeek == [status |-> "missing", meals |-> <<>>, leftovers |-> <<>>, feedback |-> <<>>, lesson |-> ""]

Days(w) == w .. w + LastDay
MealsOf(week) == ToSet(week.meals)
MealIds(week) == {m.id : m \in MealsOf(week)}
Tracked(week) == {l.source : l \in ToSet(week.leftovers)}
MealNamed(week, id) == CHOOSE m \in MealsOf(week) : m.id = id

-----------------------------------------------------------------------------
(* The validation of a state.                                              *)

ValidMeals(w, week) ==
    /\ IsInjective([k \in DOMAIN week.meals |-> week.meals[k].id])
    /\ \A m \in MealsOf(week) : m.date \in Days(w) /\ m.status \in MealStatuses

FaultAnyLaterDate(w, week) ==
    /\ IsInjective([k \in DOMAIN week.leftovers |-> week.leftovers[k].id])
    /\ \A l \in ToSet(week.leftovers) :
         /\ \E m \in MealsOf(week) : m.id = l.source /\ m.status = "cooked"
         /\ IF l.state = "assigned" THEN l.date \in Days(w) ELSE l.date = NoDay /\ l.meal = NoDay

ValidLeftovers(w, week) ==
    /\ IsInjective([k \in DOMAIN week.leftovers |-> week.leftovers[k].id])
    /\ \A l \in ToSet(week.leftovers) :
         /\ \E m \in MealsOf(week) : m.id = l.source /\ m.status = "cooked"
         /\ IF l.state = "assigned"
            THEN l.date \in Days(w) /\ l.date > MealNamed(week, l.source).date
            ELSE l.date = NoDay /\ l.meal = NoDay

ValidFeedback(week) == \A p \in ToSet(week.feedback) : p[1] \in MealIds(week)

ValidWeeks(h) ==
    /\ \A w \in WeekIds : LET week == h.weeks[w] IN
         ValidMeals(w, week) /\ ValidLeftovers(w, week) /\ ValidFeedback(week)
    /\ {w \in WeekIds : h.weeks[w].status = "active"} = {h.active} \ {NoDay}

-----------------------------------------------------------------------------
(* What every command does: look its week up, refuse an archived one,      *)
(* and have the new state validated before it replaces the old.            *)

FaultWriteAny(w) == household.weeks[w].status # "missing"

WeekWritable(w) == household.weeks[w].status \in {"planned", "active"}

FinishWeeks(next) ==
    /\ commands' = commands + 1
    /\ IF ValidWeeks(next) THEN household' = next /\ weeksBefore' = {household}
       ELSE UNCHANGED <<household, weeksBefore>>

UpdateWeek(w, week) == FinishWeeks([household EXCEPT !.weeks[w] = week])

\* materializeId: an identifier no other of the sequence has; none is ever
\* removed from meals or leftovers.
FreshId(things) == Len(things) + 1

-----------------------------------------------------------------------------
(* Meals.                                                                  *)

Redate(week, Date(_), Status(_)) ==
    [k \in DOMAIN week.meals |->
       [week.meals[k] EXCEPT !.date = Date(@), !.status = Status(week.meals[k])]]

\* Assigned leftovers go by their date: whoever leaves it takes them along.
Reassign(week, Date(_)) ==
    [k \in DOMAIN week.leftovers |->
       IF week.leftovers[k].state = "assigned"
       THEN [week.leftovers[k] EXCEPT !.date = Date(@)] ELSE week.leftovers[k]]

MoveMeal(w, id, target) ==
    LET week == household.weeks[w]
        moving == MealNamed(week, id)
        Follow(d) == IF d = moving.date THEN target ELSE d
    IN  /\ WeekWritable(w) /\ target \in Days(w) /\ id \in MealIds(week)
        /\ moving.date # target /\ id \notin Tracked(week)
        /\ UpdateWeek(w,
             [week EXCEPT !.leftovers = Reassign(week, Follow),
                          !.meals = [k \in DOMAIN @ |-> IF @[k].id = id
                             THEN [@[k] EXCEPT !.date = target, !.status = "moved"] ELSE @[k]]])

MealsOn(week, day) == {m.id : m \in {n \in MealsOf(week) : n.date = day}}

\* An order that names a meal twice passes here, and fails the last validation.
ReorderMeals(w, day, order) ==
    LET week == household.weeks[w]
        places == {k \in DOMAIN week.meals : week.meals[k].date = day}
        Rank(k) == Cardinality({j \in places : j <= k})
    IN  /\ WeekWritable(w) /\ day \in Days(w)
        /\ ToSet(order) \subseteq MealsOn(week, day) /\ Len(order) = Cardinality(places)
        /\ UpdateWeek(w, [week EXCEPT !.meals = [k \in DOMAIN @ |->
                IF k \in places THEN MealNamed(week, order[Rank(k)]) ELSE @[k]]])

SwapMealDays(w, first, second) ==
    LET week == household.weeks[w]
        affected == {m \in MealsOf(week) : m.date \in {first, second}}
        Swap(d) == IF d = first THEN second ELSE IF d = second THEN first ELSE d
        Status(m) == IF m \in affected /\ m.status # "flex" THEN "moved" ELSE m.status
    IN  /\ WeekWritable(w) /\ {first, second} \subseteq Days(w)
        /\ Tracked(week) \cap {m.id : m \in affected} = {}
        /\ UpdateWeek(w, [week EXCEPT !.meals = Redate(week, Swap, Status), !.leftovers = Reassign(week, Swap)])


MayMark(week, id, status) == status = "cooked" \/ id \notin Tracked(week)

\* Cooking freezes the recipe and, for a meal with meat or fish, leaves
\* leftovers, once.
UpdateMealStatus(w, id, status) ==
    LET week == household.weeks[w]
        meal == MealNamed(week, id)
        cooked == status = "cooked"
        leaves == cooked /\ meal.protein /\ id \notin Tracked(week)
        leftover == [id |-> FreshId(week.leftovers), source |-> id, state |-> "available",
                     date |-> NoDay, meal |-> NoDay, quality |-> ""]
    IN  /\ WeekWritable(w) /\ id \in MealIds(week) /\ meal.status # status
        /\ MayMark(week, id, status)
        /\ UpdateWeek(w,
             [week EXCEPT !.meals = [k \in DOMAIN @ |-> IF @[k].id = id
                             THEN [@[k] EXCEPT !.status = status, !.frozen = week.meals[k].frozen \/ cooked] ELSE @[k]],
                          !.leftovers = IF leaves THEN Append(@, leftover) ELSE @])

CaptureFeedback(w, id, value) ==
    LET week == household.weeks[w] IN
    /\ WeekWritable(w) /\ id \in MealIds(week) /\ <<id, value>> \notin ToSet(week.feedback)
    /\ UpdateWeek(w, [week EXCEPT !.feedback =
          Append(SelectSeq(@, LAMBDA p : p[1] # id), <<id, value>>)])

CaptureWeekLesson(w, lesson) ==
    /\ WeekWritable(w) /\ household.weeks[w].lesson # lesson
    /\ UpdateWeek(w, [household.weeks[w] EXCEPT !.lesson = lesson])

-----------------------------------------------------------------------------
(* Leftovers.                                                              *)

ChangeLeftover(week, id, New(_)) ==
    [week EXCEPT !.leftovers = [k \in DOMAIN @ |-> IF @[k].id = id THEN New(@[k]) ELSE @[k]]]

LeftoverIn(week, id, state) == \E l \in ToSet(week.leftovers) : l.id = id /\ l.state \in state

CaptureLeftoverQuality(w, id, quality) ==
    LET week == household.weeks[w]
        Rate(l) == [l EXCEPT !.quality = quality]
    IN  /\ WeekWritable(w) /\ \E l \in ToSet(week.leftovers) : l.id = id /\ l.quality # quality
        /\ UpdateWeek(w, ChangeLeftover(week, id, Rate))

\* A meal of its own, added to the day: nothing on that day is replaced.
AssignLeftover(w, id, target) ==
    LET week == household.weeks[w]
        leftover == CHOOSE l \in ToSet(week.leftovers) : l.id = id
        Assign(l) == [l EXCEPT !.state = "assigned", !.date = target, !.meal = FreshId(week.meals)]
        dinner == [id |-> FreshId(week.meals), date |-> target, status |-> "leftover",
                   protein |-> FALSE, frozen |-> FALSE]
    IN  /\ WeekWritable(w) /\ LeftoverIn(week, id, {"available"})
        /\ target \in Days(w) /\ target > MealNamed(week, leftover.source).date
        /\ UpdateWeek(w, [ChangeLeftover(week, id, Assign) EXCEPT !.meals = Append(@, dinner)])

ConsumeLeftover(w, id) ==
    LET week == household.weeks[w]
        leftover == CHOOSE l \in ToSet(week.leftovers) : l.id = id
        Consume(l) == [l EXCEPT !.state = "consumed", !.date = NoDay, !.meal = NoDay]
    IN  /\ WeekWritable(w) /\ LeftoverIn(week, id, {"assigned"})
        /\ UpdateWeek(w, [ChangeLeftover(week, id, Consume) EXCEPT !.meals = [k \in DOMAIN @ |->
                IF @[k].id = leftover.meal /\ @[k].status = "leftover"
                THEN [@[k] EXCEPT !.status = "cooked"] ELSE @[k]]])

-----------------------------------------------------------------------------
(* The life of a week.                                                     *)

CreateWeekPlan(w, dinners) ==
    /\ household.weeks[w].status = "missing"
    /\ FinishWeeks([household EXCEPT !.weeks[w] = [NoWeek EXCEPT !.status = "planned",
          !.meals = [k \in DOMAIN dinners |-> [id |-> k, date |-> w + dinners[k].day,
                       status |-> dinners[k].status, protein |-> dinners[k].protein, frozen |-> FALSE]]]])

ActivateWeek(w) ==
    /\ household.weeks[w].status = "planned" /\ household.active = NoDay
    /\ FinishWeeks([household EXCEPT !.weeks[w].status = "active", !.active = w])

ArchiveWeek(w) ==
    /\ household.weeks[w].status = "active" /\ household.active = w
    /\ FinishWeeks([household EXCEPT !.weeks[w].status = "archived", !.active = NoDay])

HandoffWeek(w, following) ==
    /\ household.weeks[w].status = "active" /\ household.active = w
    /\ household.weeks[following].status = "planned"
    /\ FinishWeeks([household EXCEPT !.weeks[w].status = "archived",
                                !.weeks[following].status = "active", !.active = following])

\* The undo of the newest change; an undo is not undone.
UndoWeeks ==
    /\ commands' = commands + 1
    /\ household' \in weeksBefore /\ weeksBefore' = {}

-----------------------------------------------------------------------------
WeeksInit ==
    /\ household = [active |-> NoDay, weeks |-> [w \in WeekIds |-> NoWeek]]
    /\ weeksBefore = {} /\ commands = 0

WeeksNext ==
    /\ commands < MaxCommands
    /\ \/ UndoWeeks
       \/ \E w \in WeekIds : LET week == household.weeks[w] IN
           \/ \E id \in MealIds(week), d \in Days(w) : MoveMeal(w, id, d)
           \/ \E d \in Days(w) : \E order \in [1 .. Cardinality(MealsOn(week, d)) -> MealsOn(week, d)] :
                order # <<>> /\ ReorderMeals(w, d, order)
           \/ \E c, d \in Days(w) : SwapMealDays(w, c, d)
           \/ \E id \in MealIds(week), s \in Statuses : UpdateMealStatus(w, id, s)
           \/ \E id \in MealIds(week), v \in Ratings : CaptureFeedback(w, id, v)
           \/ \E text \in Ratings \cup {""} : CaptureWeekLesson(w, text)
           \/ \E l \in ToSet(week.leftovers), v \in Ratings : CaptureLeftoverQuality(w, l.id, v)
           \/ \E l \in ToSet(week.leftovers), d \in Days(w) : AssignLeftover(w, l.id, d)
           \/ \E l \in ToSet(week.leftovers) : ConsumeLeftover(w, l.id)
           \/ \E dinners \in Plans : CreateWeekPlan(w, dinners)
           \/ ActivateWeek(w) \/ ArchiveWeek(w)
           \/ \E following \in WeekIds : HandoffWeek(w, following)

WeeksSpec == WeeksInit /\ [][WeeksNext]_weekVars

-----------------------------------------------------------------------------
(* Properties.                                                             *)


\* Leftovers come from one cooking: a source has one record, is still cooked
\* and frozen as cooked, and whatever is assigned is eaten on a later day of
\* the same week, from a meal the week still has.
LeftoversFromOneCooking ==
    \A w \in WeekIds : LET week == household.weeks[w] IN
      \A l \in ToSet(week.leftovers) :
        /\ \A other \in ToSet(week.leftovers) : other.source = l.source => other = l
        /\ MealNamed(week, l.source).frozen
        /\ l.state = "assigned" =>
             /\ l.meal \in MealIds(week) \ {l.source}
             /\ MealNamed(week, l.source).date < l.date

\* An ended week keeps its meals, leftovers, feedback and lesson as they were
\* that day, whatever is done to other weeks, and the undo of a later change
\* too: only the undo of its own end makes it active again, as it was.
ArchivedKept ==
    [][\A w \in WeekIds : household.weeks[w].status = "archived" =>
         household'.weeks[w] \in {household.weeks[w], [household.weeks[w] EXCEPT !.status = "active"]}]_weekVars

\* Violated. tests/e2e/leftover-lifecycle.spec.ts:147: an assigned leftover
\* and the meal made for it are on one date. moveMeal takes the assignment
\* along with any meal that leaves the day, and not with its own meal.
AssignedMealOnItsDay ==
    \A w \in WeekIds : LET week == household.weeks[w] IN
      \A l \in ToSet(week.leftovers) :
        l.state = "assigned" => MealNamed(week, l.meal).date = l.date
=============================================================================

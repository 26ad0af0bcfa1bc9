---------------------------- MODULE MCHousehold ----------------------------
(* The household on small instances, one part at a time: the weeks, the     *)
(* recipes of one week, the catalogue, or one timer; `part' says which.     *)
(* What two parts share, each has as far as its properties need it:         *)
(*  - a row is its word and detail in the recipes, its word and its link in *)
(*    the catalogue, whose commands rewrite links in every week, archived   *)
(*    and cooked ones included, and never what a row reads;                 *)
(*  - a row a catalogue command creates is one AddIngredientOccurrence      *)
(*    creates in the recipes;                                               *)
(*  - whether a meal is cooked is in the weeks and in the recipes;          *)
(*  - the newest change may be undone in every part; where that change is   *)
(*    another part's, a step of this one is undone that the code would not. *)
EXTENDS HouseholdWeeks, HouseholdRecipes, HouseholdCatalogue, InstructionTimers

VARIABLE part

householdVars == <<part, weekVars, recipeVars, catalogueVars, timerVars>>

Dinner(day, protein) == [day |-> day, status |-> "planned", protein |-> protein]
SmallPlans == {<<Dinner(0, TRUE), Dinner(1, FALSE)>>}

HouseholdInit ==
    /\ part \in {"weeks", "recipes", "catalogue", "timer"}
    /\ WeeksInit /\ RecipesInit /\ CatalogueInit /\ TimersInit
    /\ part # "recipes" => written = <<>>

WeeksPart == part = "weeks" /\ WeeksNext /\ UNCHANGED <<part, recipeVars, catalogueVars, timerVars>>
RecipesPart == part = "recipes" /\ RecipesNext /\ UNCHANGED <<part, weekVars, catalogueVars, timerVars>>
CataloguePart == part = "catalogue" /\ CatalogueNext /\ UNCHANGED <<part, weekVars, recipeVars, timerVars>>
TimerPart == part = "timer" /\ TimersNext /\ UNCHANGED <<part, weekVars, recipeVars, catalogueVars>>

HouseholdNext == WeeksPart \/ RecipesPart \/ CataloguePart \/ TimerPart

\* What is past is kept: an ended week and the recipe of a cooked meal.
PastKept == ArchivedKept /\ CookedKept

HouseholdSpec == HouseholdInit /\ [][HouseholdNext]_householdVars
=============================================================================

------------------------------ MODULE Versions ------------------------------
(***************************************************************************)
(* The classification of the active scenarios (api/internal/versions):     *)
(* which one is the current forecast, which one the plan of the next       *)
(* fiscal year.  The scenarios, the notifications and the home page all    *)
(* decide with it who may enter numbers and who is told about a deadline.  *)
(*                                                                         *)
(* A version is a record with fields id, year, role and through.           *)
(***************************************************************************)
EXTENDS Integers, Sequences, FiniteSets, FiniteSetsExt, Functions

\* plan_role: the three aliases of a fiscal year, and no alias (NULL).
NoRole == "none"
Roles == {"initial", "revised", "latest"}

\* Months are numbered from 1 on, in calendar order; 0 is "not set" (NULL).
\* The code compares months as strings, where "" is below every month, too.
NoMonth == 0

\* The id of no version, where the code has a nil pointer.
CONSTANT NoScenario

Missing == [id |-> NoScenario, year |-> 0, role |-> NoRole, through |-> NoMonth]

\* A mutant: the aliases mixed up.
IsPlanMutant(v) == v.through = NoMonth /\ v.role = "latest"

\* A version of a year that has no month of actuals and holds the alias
\* "initial": a plan.
IsPlan(v) == v.through = NoMonth /\ v.role = "initial"

\* The list that Load reads (ORDER BY fiscal_year).
OldestFirst(actives) ==
  CHOOSE list \in [1..Cardinality(actives) -> actives] :
    /\ Range(list) = actives
    /\ \A i, j \in DOMAIN list : i < j => list[i].year <= list[j].year

\* Mutant: the loop stops at the first version that is no plan.
CurrentOfMutant(list) ==
  LET forecasts == {i \in DOMAIN list : ~IsPlan(list[i])}
  IN  IF forecasts # {} THEN list[Min(forecasts)]
      ELSE IF list # <<>> THEN list[1] ELSE Missing

\* The first loop of Classify, which keeps the last version that is not a plan,
\* and the oldest version when all of them are plans.
CurrentOf(list) ==
  LET forecasts == {i \in DOMAIN list : ~IsPlan(list[i])}
  IN  IF forecasts # {} THEN list[Max(forecasts)]
      ELSE IF list # <<>> THEN list[1] ELSE Missing

\* The second loop, which keeps the first plan of a year after the current
\* forecast's.
NextPlanOf(list) ==
  LET current == CurrentOf(list)
      plans == {i \in DOMAIN list : /\ list[i].id # current.id
                                    /\ IsPlan(list[i]) /\ list[i].year > current.year}
  IN  IF plans # {} THEN list[Min(plans)] ELSE Missing

\* Actives.Kind: what an active version is to its users.
KindOf(list, id) ==
  IF id = CurrentOf(list).id THEN "current"
  ELSE IF id = NextPlanOf(list).id THEN "next_plan"
  ELSE IF \E i \in DOMAIN list : list[i].id = id THEN "other"
  ELSE "none"
=============================================================================

------------------------------ MODULE Scenarios -----------------------------
(***************************************************************************)
(* The life of the scenarios (the versions of a fiscal year's P/L) and of  *)
(* the actuals they show: api/internal/scenario/{scenario,cycle}.go with   *)
(* the closing of years and the refresh of locked actuals of               *)
(* api/internal/actual.  Every action is one API call, which the code runs *)
(* as one transaction (audit.InTx); a call that is refused changes nothing *)
(* and is no step.  Only the calls that change the actuals have two steps  *)
(* here: they look at the closed years in a snapshot and lock nothing by   *)
(* that, so a year may be closed before they commit.  The rest of the      *)
(* interleaving inside the transactions is the subject of module Actuals.  *)
(*                                                                         *)
(* Left out: names, the update deadline (only the notifications read it),  *)
(* base_scenario_id (never read after the insert) and the plan values.     *)
(***************************************************************************)
EXTENDS Versions

CONSTANTS
  Scenario,       \* the rows the table may come to hold
  Years,          \* the fiscal years in use
  MonthsPerYear,  \* 12 in the code
  Call,           \* the calls that change actuals which may be under way at once
  Contents,       \* what the actuals of one month can be
  NoRows          \* the content of a month with no actuals

ASSUME ScenarioAssumption == NoScenario \notin Scenario
ASSUME YearsAssumption == Years \subseteq Nat \ {0}
ASSUME MonthsAssumption == MonthsPerYear \in Nat \ {0}
ASSUME ContentsAssumption == NoRows \in Contents

VARIABLES
  version,  \* scenarios: the row of each scenario, Absent before the insert
  facts,    \* actual_facts: the rows of each month
  frozen,   \* scenario_actuals: the rows a locked scenario keeps, by month
  closed,   \* fiscal_year_closings
  changing  \* the months a call under way will change, none when it is not

vars == <<version, facts, frozen, closed, changing>>

\* calc.FiscalMonths, and every month there is.
FiscalMonths(y) == (y * MonthsPerYear + 1)..(y * MonthsPerYear + MonthsPerYear)
Months == UNION {FiscalMonths(y) : y \in Years}

Absent == [year |-> 0, role |-> NoRole, through |-> NoMonth, active |-> FALSE,
           locked |-> FALSE, previous |-> NoScenario]
Exists(s) == version[s] # Absent
NoFacts == [m \in Months |-> NoRows]
NothingChanging == [c \in Call |-> {}]

\* Scenario.ActualMonths: the months a version shows actuals for.
ActualMonths(v) == {m \in FiscalMonths(v.year) : m <= v.through}

\* What lockScenario and refreshActuals copy into scenario_actuals.
Snapshot(v) == [m \in Months |-> IF m \in ActualMonths(v) THEN facts[m] ELSE NoRows]

\* actual.loadDrift: the months whose kept actuals differ from today's.
Drift(s) == {m \in ActualMonths(version[s]) : frozen[s][m] # facts[m]}

\* The view scenario_amounts, for the months that show actuals.
Shown(s) == [m \in ActualMonths(version[s]) |->
               IF version[s].locked THEN frozen[s][m] ELSE facts[m]]

-----------------------------------------------------------------------------
\* activeOf and roleHolder.
ActiveOf(y) == {s \in Scenario : version[s].active /\ version[s].year = y}
HolderOf(y, role) == {s \in Scenario : version[s].year = y /\ version[s].role = role}

\* Mutants: the alias stays with its holder; every year is deactivated; the
\* version itself passes as its previous forecast; a locked version goes on
\* being the active one.
TakeRoleMutant(table, y, role, except) == table
DeactivateCurrentMutant(table, y) ==
  [s \in Scenario |-> [table[s] EXCEPT !.active = FALSE]]
ValidPreviousMutant(self, y, previous) ==
  previous # NoScenario => previous \in Scenario /\ version[previous].year = y
LockRowsMutant(locking) ==
  [s \in Scenario |-> IF s \in locking THEN [version[s] EXCEPT !.locked = TRUE]
                      ELSE version[s]]

\* takeRole and deactivateCurrent, as functions from table to table.
TakeRole(table, y, role, except) ==
  [s \in Scenario |->
     IF role # NoRole /\ s # except /\ table[s].year = y /\ table[s].role = role
     THEN [table[s] EXCEPT !.role = NoRole] ELSE table[s]]
DeactivateCurrent(table, y) ==
  [s \in Scenario |-> IF table[s].active /\ table[s].year = y
                      THEN [table[s] EXCEPT !.active = FALSE] ELSE table[s]]

\* validateRoleAndThrough and checkPrevious.
ValidThrough(y, through) == through = NoMonth \/ through \in FiscalMonths(y)
ValidPrevious(self, y, previous) ==
  \/ previous = NoScenario
  \/ previous \in Scenario \ {self} /\ version[previous].year = y

\* lockScenario, for a set of versions: the rows, and the actuals they keep.
LockRows(locking) ==
  [s \in Scenario |-> IF s \in locking
                      THEN [version[s] EXCEPT !.locked = TRUE, !.active = FALSE]
                      ELSE version[s]]
KeepActuals(locking) ==
  [s \in Scenario |-> IF s \in locking THEN Snapshot(version[s]) ELSE frozen[s]]

-----------------------------------------------------------------------------
\* POST /api/scenarios.  The previous forecast is the one asked for, and by
\* default the version copied, which passes the same check.
Create(s, y, role, through, previous) ==
  /\ ~Exists(s)
  /\ ValidThrough(y, through)
  /\ ValidPrevious(s, y, previous)
  /\ version' = [TakeRole(version, y, role, NoScenario) EXCEPT
                   ![s] = [Absent EXCEPT !.year = y, !.role = role,
                             !.through = through, !.previous = previous]]
  /\ UNCHANGED <<facts, frozen, closed, changing>>

\* Mutant: the boundary month of a locked version can be moved.
UpdateMutant(s, role, through, previous) ==
  /\ Exists(s)
  /\ ValidThrough(version[s].year, through)
  /\ ValidPrevious(s, version[s].year, previous)
  /\ version' = [version EXCEPT ![s] = [@ EXCEPT !.role = role, !.through = through,
                                          !.previous = previous]]
  /\ UNCHANGED <<facts, frozen, closed, changing>>

\* PUT /api/scenarios/{id}.  The last month of actuals of a locked version
\* cannot change; its alias and previous forecast can.
Update(s, role, through, previous) ==
  /\ Exists(s)
  /\ ValidThrough(version[s].year, through)
  /\ version[s].locked => through = version[s].through
  /\ ValidPrevious(s, version[s].year, previous)
  /\ version' = [TakeRole(version, version[s].year, role, s) EXCEPT
                   ![s] = [@ EXCEPT !.role = role, !.through = through,
                             !.previous = previous]]
  /\ UNCHANGED <<facts, frozen, closed, changing>>

\* Mutant: the version that was active stays active.
ActivateMutant(s) ==
  /\ Exists(s) /\ ~version[s].locked /\ ~version[s].active
  /\ version' = [version EXCEPT ![s].active = TRUE]
  /\ UNCHANGED <<facts, frozen, closed, changing>>

\* POST /api/scenarios/{id}/activate.
Activate(s) ==
  /\ Exists(s) /\ ~version[s].locked /\ ~version[s].active
  /\ version' = [DeactivateCurrent(version, version[s].year) EXCEPT ![s].active = TRUE]
  /\ UNCHANGED <<facts, frozen, closed, changing>>

\* POST /api/scenarios/{id}/lock: keep the actuals shown today.
Lock(s) ==
  /\ Exists(s) /\ ~version[s].locked
  /\ version' = LockRows({s})
  /\ frozen' = KeepActuals({s})
  /\ UNCHANGED <<facts, closed, changing>>

\* Mutant: the kept actuals are left behind.
UnlockMutant(s) ==
  /\ version[s].locked
  /\ version' = [version EXCEPT ![s].locked = FALSE]
  /\ UNCHANGED <<facts, frozen, closed, changing>>

\* POST /api/scenarios/{id}/unlock: drop them and show the live ones again.
Unlock(s) ==
  /\ version[s].locked
  /\ version' = [version EXCEPT ![s].locked = FALSE]
  /\ frozen' = [frozen EXCEPT ![s] = NoFacts]
  /\ UNCHANGED <<facts, closed, changing>>

\* runCycle: insert the version as the holder of its alias, then make it the
\* active one of its year.
RunCycle(table, s, row) ==
  LET inserted == [TakeRole(table, row.year, row.role, NoScenario) EXCEPT ![s] = row]
  IN  [DeactivateCurrent(inserted, row.year) EXCEPT ![s].active = TRUE]

\* The version startMonthly copies: the active one of the year, and without
\* one the holder of "latest".
MonthlyBase(y) == IF ActiveOf(y) # {} THEN ActiveOf(y) ELSE HolderOf(y, "latest")

\* POST /api/scenarios/start-monthly: lock the base, copy it as the holder of
\* "latest", and make the copy the year's active version.
StartMonthly(s, y, through) ==
  /\ ~Exists(s)
  /\ through \in FiscalMonths(y)
  /\ \E base \in MonthlyBase(y) :
       /\ through >= version[base].through
       /\ LET locking == IF version[base].locked THEN {} ELSE {base}
              row == [Absent EXCEPT !.year = y, !.role = "latest",
                        !.through = through, !.previous = base]
          IN  /\ version' = RunCycle(LockRows(locking), s, row)
              /\ frozen' = KeepActuals(locking)
  /\ UNCHANGED <<facts, closed, changing>>

\* The active versions as versions.Load reads them.
Entry(s) == [id |-> s, year |-> version[s].year, role |-> version[s].role,
             through |-> version[s].through]
ActiveEntries == {Entry(s) : s \in {s \in Scenario : version[s].active}}
ActiveList == OldestFirst(ActiveEntries)

\* POST /api/scenarios/start-fiscal-year.  With the source "current" the year
\* before must have the current forecast; that forecast stays as it is.
StartFiscalYear(s, y, fromCurrent) ==
  /\ ~Exists(s)
  /\ ActiveOf(y) = {}
  /\ fromCurrent => CurrentOf(ActiveList) # Missing /\ CurrentOf(ActiveList).year = y - 1
  /\ version' = RunCycle(version, s, [Absent EXCEPT !.year = y, !.role = "initial"])
  /\ UNCHANGED <<facts, frozen, closed, changing>>

\* Mutant: the year is off by one.
CloseYearMutant(y) ==
  /\ y \notin closed
  /\ closed' = closed \union {y + 1}
  /\ UNCHANGED <<version, facts, frozen, changing>>

\* POST /api/fiscal-years/{fy}/close, with LockActiveOfYear as its OnClose.
CloseYear(y) ==
  /\ y \notin closed
  /\ closed' = closed \union {y}
  /\ LET closing == {s \in ActiveOf(y) : ~version[s].locked}
     IN  version' = LockRows(closing) /\ frozen' = KeepActuals(closing)
  /\ UNCHANGED <<facts, changing>>

\* POST /api/fiscal-years/{fy}/reopen.
ReopenYear(y) ==
  /\ y \in closed
  /\ closed' = closed \ {y}
  /\ UNCHANGED <<version, facts, frozen, changing>>

\* Mutant: closed years are not looked at.
BeginChangeMutant(c, changed) ==
  /\ changing[c] = {} /\ changed # {}
  /\ changing' = [changing EXCEPT ![c] = changed]
  /\ UNCHANGED <<version, facts, frozen, closed>>

\* An import, a reallocation or an assignment of unallocated entries reads the
\* closed years, and goes on with months of open ones.
BeginChange(c, changed) ==
  /\ changing[c] = {} /\ changed # {}
  /\ \A y \in closed : changed \intersect FiscalMonths(y) = {}
  /\ changing' = [changing EXCEPT ![c] = changed]
  /\ UNCHANGED <<version, facts, frozen, closed>>

\* syncFacts and the commit.  The closed years are not read again for it.
CommitChange(c, content) ==
  /\ changing[c] # {}
  /\ facts' = [m \in Months |-> IF m \in changing[c] THEN content ELSE facts[m]]
  /\ changing' = [changing EXCEPT ![c] = {}]
  /\ UNCHANGED <<version, frozen, closed>>

\* A dry run, or an error.
RollBackChange(c) ==
  /\ changing[c] # {}
  /\ changing' = [changing EXCEPT ![c] = {}]
  /\ UNCHANGED <<version, facts, frozen, closed>>

ChangeActuals(c) ==
  \/ \E changed \in SUBSET Months : BeginChange(c, changed)
  \/ \E content \in Contents : CommitChange(c, content)
  \/ RollBackChange(c)

\* POST /api/scenarios/{id}/refresh-actuals.
RefreshActuals(s) ==
  /\ version[s].locked /\ version[s].through # NoMonth
  /\ Drift(s) # {}
  /\ frozen' = [frozen EXCEPT ![s] = Snapshot(version[s])]
  /\ UNCHANGED <<version, facts, closed, changing>>

-----------------------------------------------------------------------------
Init ==
  /\ version = [s \in Scenario |-> Absent]
  /\ facts = NoFacts
  /\ frozen = [s \in Scenario |-> NoFacts]
  /\ closed = {}
  /\ changing = NothingChanging

Next ==
  \/ \E s \in Scenario, y \in Years :
       \/ \E role \in Roles \union {NoRole}, through \in FiscalMonths(y) \union {NoMonth},
             previous \in Scenario \union {NoScenario} :
            Create(s, y, role, through, previous)
       \/ \E through \in FiscalMonths(y) : StartMonthly(s, y, through)
       \/ \E fromCurrent \in BOOLEAN : StartFiscalYear(s, y, fromCurrent)
  \/ \E s \in Scenario :
       \/ \E role \in Roles \union {NoRole}, through \in Months \union {NoMonth},
             previous \in Scenario \union {NoScenario} : Update(s, role, through, previous)
       \/ Activate(s)
       \/ Lock(s)
       \/ Unlock(s)
       \/ RefreshActuals(s)
  \/ \E y \in Years : CloseYear(y) \/ ReopenYear(y)
  \/ \E c \in Call : ChangeActuals(c)

Spec == Init /\ [][Next]_vars

-----------------------------------------------------------------------------
Row == [year : Years \union {0}, role : Roles \union {NoRole},
        through : Months \union {NoMonth}, active : BOOLEAN, locked : BOOLEAN,
        previous : Scenario \union {NoScenario}]

\* Every table holds rows of its type, and a scenario not yet inserted is
\* blank.
TypeOK ==
  /\ version \in [Scenario -> Row]
  /\ \A s \in Scenario : version[s].year = 0 => version[s] = Absent
  /\ facts \in [Months -> Contents]
  /\ frozen \in [Scenario -> [Months -> Contents]]
  /\ closed \subseteq Years
  /\ changing \in [Call -> SUBSET Months]

\* However versions are activated, locked, unlocked and switched, a year has
\* at most one active version, and that version is open for entry.
OneActivePerYear ==
  \A s \in Scenario : version[s].active =>
    /\ ~version[s].locked
    /\ \A t \in Scenario : version[t].active /\ version[t].year = version[s].year => t = s

\* A year has one place for the version that is being entered, and each call
\* of the API changes one of them at most, in the ways YearSlots allows: two
\* active versions of a year, an active version that is locked, a version that
\* just stops being active or one that changes its year are none of them.
Slots == INSTANCE YearSlots WITH
  Version <- Scenario, Year <- Years, None <- 0,
  year <- [s \in Scenario |-> version[s].year],
  entered <- {s \in Scenario : version[s].active},
  locked <- {s \in Scenario : version[s].locked}
OnePlacePerYear == Slots!Spec

\* Each alias of a year belongs to at most one version: takeRole leaves no
\* second holder, whichever call moves the alias.
OneHolderPerAlias ==
  \A s, t \in Scenario :
    version[s].role # NoRole /\ version[t].role = version[s].role
      /\ version[t].year = version[s].year => s = t

\* The comment of package versions.  The current forecast: of the active
\* versions that are not plans the one of the newest year, and if all are plans
\* the one of the oldest year.
CurrentIsNewestForecast ==
  LET forecasts == {v \in ActiveEntries : ~IsPlan(v)}
      current == CurrentOf(ActiveList)
  IN  IF ActiveEntries = {} THEN current = Missing
      ELSE IF forecasts # {}
      THEN current \in forecasts /\ \A v \in forecasts : v.year <= current.year
      ELSE current \in ActiveEntries /\ \A v \in ActiveEntries : v.year >= current.year

\* The plan of the next year: the oldest plan of a year after the current
\* forecast's, and nothing when there is none.
NextPlanIsOldestLaterPlan ==
  LET current == CurrentOf(ActiveList)
      later == {v \in ActiveEntries : IsPlan(v) /\ v.year > current.year}
      next == NextPlanOf(ActiveList)
  IN  IF later = {} THEN next = Missing
      ELSE next \in later /\ \A v \in later : v.year >= next.year

\* Whatever versions are active, the loops of Classify find the two of the
\* comment, so that the staff may enter numbers in at most two versions; each
\* active version has exactly one kind, and no other version has any.
ActiveVersionsClassified ==
  /\ CurrentIsNewestForecast
  /\ NextPlanIsOldestLaterPlan
  /\ LET list == ActiveList
     IN  /\ \A kind \in {"current", "next_plan"} :
              Cardinality({s \in Scenario : KindOf(list, s) = kind}) <= 1
         /\ \A s \in Scenario : KindOf(list, s) = "none" <=> ~version[s].active

\* scenario_actuals holds rows of locked versions only, and only of the
\* months in which the version shows actuals: nothing is left behind by an
\* unlock, and the boundary month cannot move away from the rows kept.
KeptActualsMatchVersion ==
  \A s \in Scenario, m \in Months :
    frozen[s][m] # NoRows => version[s].locked /\ m \in ActualMonths(version[s])

\* A version is compared with another version of its own year, never with
\* itself.
PreviousInYear ==
  \A s \in Scenario : version[s].previous # NoScenario =>
    version[s].previous # s /\ version[version[s].previous].year = version[s].year

\* A step keeps the numbers of a version that is locked before and after it,
\* or refreshes them to today's actuals.
KeepsReported(s) ==
  version[s].locked /\ version'[s].locked =>
    /\ version'[s].through = version[s].through
    /\ Shown(s)' = Shown(s) \/ (Drift(s)' = {} /\ facts' = facts)

\* The numbers of a locked version are what was reported: no import, switch,
\* closing or edit of another version changes the actuals it shows; only the
\* refresh does, and then to exactly today's actuals.
KeepsAllReported == \A s \in Scenario : KeepsReported(s)
LockedNumbersStay == [][KeepsAllReported]_vars

\* Starting a month's forecast or a year's plan leaves every version of the
\* other years as it was: from December to March the current forecast and the
\* next year's plan are both being entered.
SwitchKeepsOtherYears ==
  [][\A s, t \in Scenario :
       ~Exists(s) /\ Exists(s)' /\ Exists(t) /\ version[t].year # version[s]'.year
         => version[t]' = version[t] /\ frozen[t]' = frozen[t]]_vars

\* A locked version of a closed year that agrees with the actuals, when every
\* call that was let through to months of the year before the closing is over.
Reconciled(s) ==
  /\ version[s].locked /\ version[s].year \in closed
  /\ Drift(s) = {}
  /\ \A c \in Call : changing[c] \intersect FiscalMonths(version[s].year) = {}

\* While the year stays closed and the version locked, that does not end: no
\* later import, reallocation or assignment comes to change the actuals of the
\* year.  Calls begun before the closing are the exception, and may still move
\* them (ClosedMonthsStay of module Actuals).
ClosedYearStaysReconciled ==
  [][\A s \in Scenario :
       Reconciled(s) /\ version[s]'.locked /\ version[s].year \in closed'
         => Reconciled(s)']_vars

\* Closing a year leaves no version of it open for entry by the staff.
ClosingEndsEntry ==
  [][\A y \in closed' \ closed : ActiveOf(y)' = {}]_vars

\* The plan of a later year does not take the place of the forecast in
\* progress: creating an active version without actuals leaves the current
\* forecast the current one.
PlanKeepsCurrentForecast ==
  [][\A s \in Scenario :
       /\ ~Exists(s) /\ version[s]'.active /\ version[s]'.through = NoMonth
       /\ CurrentOf(ActiveList).through # NoMonth
       /\ CurrentOf(ActiveList).year < version[s]'.year
       => CurrentOf(ActiveList)' = CurrentOf(ActiveList)]_vars
=============================================================================

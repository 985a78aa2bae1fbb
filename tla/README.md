# F-Panda in TLA+

F-Panda is a tool for planning and reporting profit and loss: a Go API over
MySQL (`src/api`), a React front end (`src/web`), and a small deployment. This
directory holds TLA+ models of the parts of both whose correctness depends on
sequences of calls, on calls that overlap, on answers that arrive late, or on
servers that stop and start again; TLC checks the models on small instances, and
TLAPS proves what holds for every instance.

The reference is the code. Paths below are relative to `src/`; packages without
a path are under `api/internal/`, and files of the front end without a path are
under `web/src/`.

## 1. The system

| Component | State | Operations | Interacts with |
|---|---|---|---|
| `versions` | none | which active version is the current forecast, which the plan of the next year | read by `scenario`, `notify`, `calc` |
| `scenario` life cycle (`scenario.go`, `cycle.go`) | `scenarios`, `scenario_actuals` | create, update, activate, lock, unlock; start of a month, start of a year | keeps copies of `actual_facts` for locked versions, seeds plan values, tells `notify` |
| `scenario` values (`values.go`, `transfer.go`) | `budget_facts`, `driver_values`, `activity_recognitions` | entry of amounts, driver values, recognition months; CSV | calls `calc`; refused by locks and by `versions` |
| `scenario` notes (`notes.go`, `comments.go`, `narrative.go`, `milestones.go`, `home.go`) | `activity_scenario_notes`, comments, narratives | explain, complete, comment | every edit takes a completion back |
| `calc`, `formula` | none of their own | amounts of formula lines, transfers of work in progress | called inside the transactions of others |
| `actual` | `actual_entries`, `actual_facts`, `allocation_rules`, `gl_accounts`, `fiscal_year_closings` | import, reallocate, assign, refresh kept actuals, close and reopen a year | locks the active version of a closed year, recalculates transfers |
| `activity` | `activities`, drivers, lines, milestones, external codes | CRUD, copy, CSV | units of `master`, codes of `actual` |
| `master` | organizations, segments, `units`, `users`, subjects, partners, confidence levels | CRUD, CSV | `activity`, `orgchange` |
| `orgchange` | `org_change_plans`, `org_change_items` | plan, edit, cancel, delete, apply; a loop per server; immediate merge and archive | moves `activities`, archives `units` |
| `notify` | `notifications`, `notification_runs`, `notification_settings` | a loop per server, messages from requests, posts to Slack with retries | reads `scenarios`, notes, `activities` |
| `auth`, `password` | `sessions`, `login_attempts` | login, OIDC, throttling, clean-up loop | middleware of every route |
| `audit`, `history` | `change_sets`, `audit_logs` | the transaction every write runs in; display | all writers |
| `report`, `xlsx`, `target` | none | comparison, risk, management pack | read only |
| `csvio`, `httpx`, `dbx`, `codes`, `config`, `visibility`, `server`, `migrate`, `cmd` | `schema_migrations` | parsing, errors, numbering, wiring, migrations | everything |
| entry page (`pages/scenarios/ValuesPage.tsx`, `NoteCard.tsx`, `RecognitionCard.tsx`) | cells entered but not saved, undo, trial calculation, drafts | type, undo, save in two requests, explain, complete | `scenario` values and notes; one editor over answers that overtake one another |
| grid (`components/Sheet.tsx`, `lib/sheet.ts`) | selection, the field being edited | keyboard, mouse, clipboard | owned by the entry page, which moves and removes its rows |
| session, readings, dialogs (`lib/auth.tsx`, `lib/useApi.ts`, `api/client.ts`, `components/`) | who is logged in, what was read, what is open | log in and out, navigate, dry run, submit, ask for a reason | every screen |
| screens (`pages/`) | selections | what each reads, writes and reads again | the above |
| dashboard (`pages/dashboard`, `lib/dashboard.ts`, `useActivityRows.ts`) | the address, three readings, a cache | filter, drill down, go back | `report`, notes |
| other helpers of `web/src/lib` | none | formats, charts, sums | |

Requests run at the same time, in several servers; each server also runs the
loop of `notify`, the loop of `orgchange` and a clean-up of sessions. They meet
in the database only: MySQL 8.4 at REPEATABLE READ. That level is where the hard
behaviour of the API is. A plain `SELECT` reads the snapshot that the first plain
`SELECT` of the transaction took, while `FOR UPDATE`, `UPDATE` and `DELETE` read
the latest committed rows and hold them. Code that checks with one and writes by
the other sees two different databases.

The front end has one thread, and its hard behaviour is between two events: an
answer belongs to a request that was sent when the screen showed something else,
to a screen that has gone, or to another user; a request may have been applied
though its answer was lost.

The hard behaviours, and what makes each component right:

- *Versions and locks.* A year has one place for the version being entered and
  one holder per alias whatever calls come in whatever order; a locked version
  keeps the actuals it was reported with; a closed year stays reconciled by all
  calls that begin after the closing.
- *Actuals.* The totals of a month are the sums of its entries; a month has
  entries of one file; a closed year is not changed. The hazard is two calls
  that overlap, and two of these do not hold then (section 3).
- *Notifications.* Once a day per person and kind, a failed post again and at
  most three times. The hazards are two servers, a server that dies between two
  statements, midnight.
- *Scheduled changes.* A plan is applied once, when it is due, all of it or
  nothing; no activity ends up in an archived unit. The hazards are the loops
  of two servers, a person at work on the same plan, and the mark of a failure
  that arrives late.
- *Entry.* Nothing that was typed is lost or taken for stored, whatever is
  answered in whatever order, and a completion stands for the numbers it was
  given for.
- *The grid.* What is typed goes to the cell in which typing began, if neither
  the mouse nor a move of the rows interferes: the commit goes to the position of
  the focus, whatever is there by then. Keys, paste, fill and cut skip computed
  rows, months of actuals and closed numbers; the commit of an open field does
  not ask.
- *Screens.* A screen does not stay at what was before a change it was told of;
  an import imports what was previewed; nobody sees what another user read; the
  end of a session is noticed.
- *Dashboard.* Bars, waterfall and tiles agree, and a click leads to the rows of
  what was clicked.
- *Plan values.* Amounts agree with formulas, driver values, boundary month and
  the transfers of work in progress, after edits, seeds and switches.
- *Trees.* No cycles, units on leaves only, under moves that overlap.

`PROJECT.json` lists the hazards line by line, with the properties that cover
them and, for those not covered yet, why.

## 2. The modules

| Module | Models | EXTENDS / used by |
|---|---|---|
| `Versions` | `versions/versions.go`: the classification: which versions the loops of `Classify` keep, in the list ordered by year | `Scenarios` |
| `YearSlots` | the abstract specification of the life cycle: each year has one place for the version being entered | instantiated by `Scenarios` |
| `Scenarios` | life of versions, their kept actuals, closing of years; one transaction per action | extends `Versions` |
| `ScenariosProofs` | the inductive invariant of `Scenarios` and what follows from it; then what calls do to whole years, that `Scenarios` implements `YearSlots`, and that the classification is right in every state | extends `Scenarios` |
| `Actuals`, `ActualsProofs` | calls on actuals that overlap, with snapshots and row locks | |
| `Notify`, `NotifyProofs` | loops, requests, records and posts of the notifications | |
| `OrgChange`, `OrgChangeProofs` | plans of changes, the loops that apply them, units and activities | |
| `ValuesEditor`, `EditorProofs` | the page where numbers are entered, with the handlers it calls | |
| `SheetGrid`, `SheetGridProofs` | the grid, its keys, mouse and clipboard | |
| `Api` | the handlers as their callers see them: the tables that each reading is computed from and each change writes | `Screens` |
| `Screens` | every screen as data: its readings, its operations, what they write and read again | extends `Api` |
| `Browser`, `BrowserProofs` | session, readings, navigation and dialogs on any of the screens | extends `Screens` |
| `Dashboard`, `DashboardProofs` | filters in the address, readings and caches, bars and waterfall | |
| `MC...` | the instances for TLC: model values, symmetry, bounds | |

### Scenarios and YearSlots

One action per call; a refused call is no step. Only what changes the actuals
takes two: `BeginChange` finds the years of its months open in a snapshot and
locks nothing by that, `CommitChange` writes, or `RollBackChange` ends the call;
`changing` is what the calls between the two will write. A year may therefore be
closed under a call that is let through. `version` is the table
`scenarios` (with `role` for `plan_role`, `through` for `actual_through`,
`previous` for `previous_scenario_id`), `facts` the table `actual_facts` with
one abstract content per month, `frozen` the table `scenario_actuals`, `closed`
the table `fiscal_year_closings`. Months are numbered through the years
(`FiscalMonths`). `LockRows` and `KeepActuals` are the two halves of
`lockScenario`, which the start of a month, locking and closing call; `TakeRole` and
`DeactivateCurrent` are functions from table to table because the code calls
them one after the other in one transaction.

`YearSlots` knows no alias, boundary or actuals. It says what everything that
asks "which numbers may be entered now" relies on: a year has one place; a
version enters it and puts out who held it, and may lock the version it
continues; a version leaves it only by being locked, and never moves to another
year. Seven calls implement its four actions, under the mapping `Slots`: the
years of the versions, the active versions, the locked versions.

The tables' own unique keys on the active version and on the alias are not in
the model. `OnePlacePerYear` and `OneHolderPerAlias` therefore say that the
code never runs into them; were they in the model, they would hold whatever the
code does.

Abstracted: what the actuals of a month are, to one of a few contents. Left
out: names, deadlines (see `Notify`), plan values, and the overlap of the other
transactions: the calls lock the rows of the versions they change first, but two
of them can still deadlock, which is listed as a hazard.

`Reconciled` is a locked version of a closed year that agrees with the actuals
when no call that found the year open is still under way.
`ClosedYearStaysReconciled` says that this lasts as long as the year is closed and
the version locked. What the calls under way do is in `ClosedMonthsStay` of
`Actuals`, which the code violates.

### Actuals

A call is a transaction in three steps. `Begin...` takes the snapshot (`seen`)
and makes the checks that read it; `Acquire...` makes the locking statements,
which read the rows of the moment, and writes (`written`, not yet visible, the
rows of its months held by `holder`); `Commit` publishes, `RollBack` undoes.
`View` is the heart: the `SELECT ... SUM` of `syncFacts` reads the snapshot,
except for rows the transaction wrote itself. Locks are by month, since all
calls that write entries of a month meet at the rows of its totals. Closing
conflicts only with an assignment, whose `UPDATE ... WHERE NOT EXISTS` on the
closed years holds them; the other calls read the closed years without a lock.
`SettledCallMatches` therefore has one exception besides changed entries: an
assignment that began in a closed year and whose `UPDATE` finds it reopened
writes entries of it, but calls `syncFacts` for the months that were open at the
start only.

An amount is abstracted to the set of entries it adds up. The rules of
allocation are one function `codes` from box ids to activities, which changes
when somebody adds or removes a code.

### Notify

A worker is the loop of a server or a request. Everything it reads outside a
transaction is a step of its own: `WakeUp` (the time of sending), `ListVersions`
(the day, and the versions with a deadline), `RunDueFor` (what is due), `LookUp`
(the record of the day), `Insert` (the record and the notices, one
transaction), `PostSlack`, `Record`. `Tick` moves the clock at any point,
`Crash` ends a worker at any point. A post takes ten seconds at most
(`slackTimeout`), so the ten minutes before a retry (`TenMinutes`) do not pass
while a post is under way; midnight may.

### OrgChange

`Validate` and `SavePlan` are separate because the code tries the items out in
one transaction and saves in another. `ListDue` and `TakeNext` are the reads of
`ApplyDue`; `Apply` is the transaction, atomic because it takes the row lock of
the plan first and those of the units and activities before it reads them;
`MarkFailed` is the statement after the rollback. An item that cannot be applied,
and a statement of one that fails (`ItemFails`: a deadlock, a lock wait), are the
same to `applyItems` and lead there; whatever else ends a worker (`Crash`) leaves
the plan scheduled. `ApplyItems` takes the items
one after the other, as a recursive function over their numbers, to `Impossible`
when one of them is refused.
The date of a plan is abstracted to whether it has come. Left out: the items
that change owners or the nodes of a unit.

### ValuesEditor

`server` holds the rows of one activity in one version, and the other variables
are the state of the components: `data`, `error` and `loads` those of `useApi`,
`edits`, `past`, `future` those of `ValuesPage`, `preview` and `trial` the trial
calculation with its timer, `save` the save bar, `draft` and `op` the two cards,
`page` the page around it. Every request is sent, served, answered and received
in steps of its own, and each can be refused or lose its answer after it was
applied. A save is two requests, first the driver values, then the amounts;
`setData` after each is `SetData`. `Orphan` is what becomes of a request whose
component goes away: it is served, and its answer finds nobody. `RestartTrial`
is the effect on `driverPayload`, conjoined with every step because React runs
it after every rendering. `LockVersion` is FP&A, elsewhere.

A cell holds a number and its provisional mark as one value; lines with a
formula are abstracted to the driver values they come from. `mixed` records that
requests overlapped, because the page then shows whichever answer came last.

### SheetGrid

One action per key, mouse or clipboard event of `Sheet.tsx`, with the arithmetic
of `sheet.ts` as operators (`Move`, `Clamp`, `Edge`, `PasteCells`, `FillCells`),
and four actions of the owner: rows change places, the last row goes, the
numbers are closed for entry, the last month of actuals (`actual`) is another
one. The grid knows positions only, its owner knows
rows; `KeyAt` is the meeting point, and `began`, `disturbed` and `shrunk` record
what happened between the first key and the commit. A field that is open while
the rows change is left out of `FieldIsWhereEditingBegan` on purpose: there the
code writes to the position.

### Screens and Browser

`Api` has one definition per handler, named after its package and method, with
the helpers it calls that read or write tables: `actual_importActuals` writes the
entries, the totals (`actual_syncFacts`), the work in progress that is
recalculated from them, and the records of `audit.InTx`. Of a handler it keeps
the set of tables and nothing else: which rows, in which order, and when a
change is refused is in the modules above or not modelled. Tables are what ties
a change on one screen to the readings it makes stale, on that screen or another.

`Screens` lists, for every page, its calls of `useApi` with the tables of the
handler that answers, and its operations with the tables of the handler that is
called, the readings the page reloads after it, and the kind of dialog. Two readings are taken
without a table: lists without `activity_watches`, because the star shows at once
what was clicked (`Starless`), and names of partners without the number of their
lines. A dialog that sends a creation or an update writes what either writes. A page whose code is in two
places is two definitions, `...Queries` for its readings and its own handlers
and one for what its dialogs are given. `Browser` is the machine
that runs one of these screens: `gets` are the readings under way, with the
mount they belong to (an answer of an earlier mount is dropped), `calls` the
operations under way, `dialog` the open dialog with its busy state, its preview
and the question for a reason, `confirm` the `ConfirmDialog` that stays mounted
while closed, `auth` the requests of `AuthProvider`, the login page and the bell.

A behaviour follows one reading of one screen, chosen at the start: the readings
of a screen do not affect each other. Of several operations that this reading
cannot tell apart, one stands for all (`OpsOf`), and of several readings with the
same surroundings, one (`Readings`); `Seen` and `Look` say what "the same" is.
Dialogs are modal, and may be closed while their request is under way.

### Dashboard

What is shown is a function of the address (`url`, with `filtersQuery` and
`parseFilters`), of the master data and of three readings. `report` is the
comparison, kept by `useApi` until the next one arrives; `cache` are the rows of
each unit in each comparison that was ever read (`useActivityRows`); `status` the
notes of the shown version. `varianceBars` and `Steps` are the bars and the
waterfall, `onGroup`, `onCause`, `onLevel` the clicks, `Back` the browser's
button. An amount is the profit of a year; each row has a power of two of its
own, so that a sum tells which rows are in it. The drawn chart shows the first
twelve bars; the table beside it lists, and leads from, all of them
(`DashboardCharts.tsx:214`), so that the model has no limit on bars.

## 3. The runs

| Run | Instance | What it shows |
|---|---|---|
| `scenarios_one_year` | 2 versions, 1 year of 2 months, 3 contents, 1 call on actuals | numbers of locked versions stay; those of closed years too, for calls that begin later |
| `scenarios_years` | 3 versions, 3 years of 1 month | the life cycle implements `YearSlots`; one holder per alias and year; switches leave other years alone; the loops of `Classify` find the versions that the package's comment defines |
| `actuals` | 3 calls, 2 months of 2 years | one file per month, an undisturbed call repairs the totals, assignment skips closed years |
| `actuals_facts` (violation) | 3 calls, 1 month | overlapping calls leave totals that are not the sums |
| `actuals_closing` (violation) | 2 calls, 1 month of a year that may be closed | a call that found the year open changes it after it was closed |
| `notify` | 2 servers, 1 request, 2 days with a weekend, 1 crash | record and notices agree, overdue is told, failed posts are retried |
| `org_change` | 1 loop, 1 request, 2 plans, 2 units, 1 activity, 1 crash | loops apply only what is scheduled and due, what is due is settled, no activity in an archived unit |
| `editor` | 1 driver, 1 amount, 3 values, 2 texts, 3 inputs, 2 steps of undo | nothing entered is lost or taken for stored; completions stand for their numbers; the trial calculation settles |
| `sheet` | 3 rows (one computed), 2 months, 2 texts, 5 events | what is typed goes where typing began unless something interferes; keys, paste, fill and cut skip what is computed, actual or closed; the selection stays in the grid |
| `browser` | every screen, 2 users, FP&A and a manager, 2 inputs (3 where the session is modelled) | screens are fresh once settled; imports were previewed; nobody sees another user's data; expiry is noticed |
| `dashboard` | 5 activities, 4 units, 5 segments, 4 versions, 2 inputs | bars and waterfall add up to the tiles; clicks lead to the rows of the bar |
| `dashboard_series` (violation) | the same | numbers of one version are shown under the name of another while a comparison is being read |

The violation runs show disagreements between the code and what its comments or
documents say; `PROJECT.json` quotes both under `findings`.

### Bounds, and why they are enough

- *Classification*: years are only compared, so three (before, between, after)
  show every order. The second of them may have several versions and may be closed,
  the other two have one version; no property of that run relates the closing of
  one year to another.
- *Scenarios*: the interesting steps involve the version acted on, the one that
  loses its place, and a bystander: three versions, two years. With the content
  of months in play one year and two versions suffice, because kept actuals are
  compared per version and month; two months separate months of actuals from
  months of plan, three contents separate "none", "changed" and "changed back".
  In the instance of several years the action constraint `SwitchingOnly` states
  the bounds on years above and takes out the changes of actuals, the alias
  "revised" and free choice of the previous forecast, none of which a property of
  that run reads. In the instance of one year `WithoutRevised` takes out that
  alias too, and one call on actuals is under way at a time: closing, locking and
  refreshing come between its two steps.
- *Actuals*: a disagreement needs two calls and a state they disagree about,
  which a third call makes. Each call is made once. Two months in two years
  separate open from closed; one box and one activity suffice because entries
  are compared by identity. `actuals_facts` keeps the years open (`YearsOpen`),
  so that the violation is about totals alone.
- *Notify*: two days, the second a weekend, with deadlines before and after
  them: something is overdue, due and not due. `MaxSlackAttempts` is 2 instead of
  3, so the limit is reached. `FewRequests` lets requests begin before
  `MaxBefore` messages have been sent and `DeadlineStays` keeps an entered
  deadline; both bound what people do, never what the servers do with it.
- *OrgChange*: `MCItems` and `FixedContents` fix two plans of one and two items
  that undo each other's conditions, so that the order in which they are applied,
  and a failure of each, matters. One unit stays (`DeleteUnit`), as units are not
  created. Crashes are counted (`MaxCrashes`, with the statements that fail), here and in `Notify`: with
  unbounded crashes nothing would have to end.
- *ValuesEditor*: one driver and one amount are the two halves of a save, and
  three values tell what was stored, what was entered and what was entered over
  it. `MaxInputs` counts what people start, not what the network does with it;
  with three, a save meets an edit and a completion, and each answer any other.
  `HistoryMax` is 2 (100 in the code), so that the history overflows. One reading
  is under way at a time (`MaxLoads`).
- *SheetGrid*: three rows and two months have an edge, an inside and a corner;
  five events open a field, move the grid, commit, and show what came of it.
  `SheetGridProofs` has no bound.
- *Browser*: two inputs suffice for an operation and a navigation, or two
  operations, with every order of their answers; the third on the screen of
  `MCShellScreens` is a logout or a login between them.
- *Dashboard*: a segment of a single unit, one with two levels and one with an
  archived unit; an activity that does not change; a cause of two activities, and
  an activity of two causes; `Limit` of 2 (8 in the code) so that steps are cut
  off.

Symmetry is used for scenarios and calls, never in a run with a liveness
property. Deadlock is checked in the runs of the API (`versions` to
`org_change`). In those of the front end it is not: what the user does is
counted, and when nobody does anything more the page rests.

### Fairness

`Notify`: weak fairness of every worker's steps, and of `TenMinutes`. A server
runs its loop every minute as long as it lives (`notify.Run`, started in
`cmd/server/main.go`), a request that has begun goes on without anybody's help,
and time passes. Nothing is fair about the end of the day, about people, or
about the answer of Slack; `OverdueIsNotified` and `FailedPostIsRetried`
therefore hold only as long as the day and the facts they are about last.

`OrgChange`: weak fairness of the steps of the loops only (`orgchange.Run`).
Requests may stop anywhere. `DueIsSettled` is by the loops alone.

`ValuesEditor`: weak fairness of the timer and of every request, since `fetch`
ends with an answer or an error and `setTimeout` fires. Nothing is assumed of the
user: `PreviewSettles` has its own premise, that undo and redo, which no bound
limits, are left alone in the end.

`Browser`: weak fairness of the network and of the bell's poll (`setInterval` in
`NotificationBell`). `ExpiryIsNoticed` needs no act of the user.

### Behaviours that no run claims

Seen while modelling, with the line of the code and of the text beside it. They
are either left to a reader to judge, or the models allow for them by a premise
of a property.

- An active version of a later year without actuals and with an alias other
  than "initial" becomes the current forecast (`versions/versions.go:24`,
  `docs/plan.md:124`). `PlanKeepsCurrentForecast` is about versions without
  actuals, which the cycle makes with that alias.
- Two servers may post the same retry (`notify/notify.go:121`,
  `docs/architecture.md:297`), and one person may get two manual reminders on a
  day (`notify/reminders.go:78` and `:54`, `docs/plan.md:451`).
- A late mark of a failure takes an applied plan out of the state "applied", so
  that it is applied again (`orgchange/plans.go:511` and `:474`). `AppliedStays`
  excepts that one action.
- Two readings of one screen may be answered in the opposite order, and `useApi`
  shows the older one (`lib/useApi.ts`). `SettledScreenIsFresh` excepts a screen
  where that happened (`raced`).
- An error of the rows of the dashboard stays on screen after a later success
  (`lib/useActivityRows.ts:30`).
- A link to the dashboard leaves out the scope that is the viewer's own default,
  so another role opens it with another scope (`lib/dashboard.ts:69`,
  `docs/plan.md:1037`).
- The question for a reason can be cancelled while the request with the reason
  is under way; the form is then open though the change may be made
  (`components/ReasonDialog.tsx:44`).
- The mark that a user has a password is not read again after it is set
  (`pages/masters/UsersPage.tsx:104`).

## 4. The proofs

`ScenariosProofs` proves, for any set of scenarios, any years, any number of
months per year and any contents:

- `TypeCorrect`, `ActiveVersionUnique`, `AliasHolderUnique`,
  `KeptActualsOfLockedOnly`, `PreviousOfSameYear`: the invariants. Their
  conjunction `Inv` is inductive, and they need each other: that an alias has one
  holder is kept by `TakeRole` only because a row's year never changes; that kept
  actuals belong to a locked version is kept by `Update` only because it refuses
  to move the boundary of a locked version, and an active version is never locked.
- `LockedNumbersStayFrozen`: the action property, from `Inv`. The step lemmas
  say what each table operator does to a row (`TakeRoleRows`, `DeactivateRows`,
  `LockedRows`), the cycle lemma composes them (`CycleRows`), and
  `StepKeepsLocked` says that every call but the refresh leaves a version that
  stays locked as it is.

Its second half adds three action properties of whole years. `CloseLocksEntry`
needs that an active version is not locked: then what closing locks is every
active version of the year (`Closing`). `ClosedYearsAgree` puts
`StepKeepsLocked` beside the fact that the actuals of a closed year do not change
when no call that found it open is under way (`ClosedFactsStay`). `OtherYearsStay` first shows that a blank row is filled by
the three calls that make a version and by nothing else (`MadeBy`), then that
these touch the rows of one year (`CycleOfOneYear`).

About the classification it proves `LifeCycleIsClassified`
(`ActiveVersionsClassified`): in every state of `Scenarios`, whatever the number of
years, the loops find what the comment of the package defines. The lemmas say
what each loop keeps of any set of versions with one of each year (`CurrentOfIs`,
`NextPlanOfIs`). That there is such a list at all (`OrderExists`) needs finitely
many versions, which is an invariant of its own (`FewRows`: a step adds one), and
that two active versions are never of one year. From the same lemmas follows
`PlanDoesNotTakeOver` (`PlanKeepsCurrentForecast`): only the start of a year makes an
active version without actuals, and what it adds is a plan.

It also proves the refinement `ScenariosImplementSlots`:
`Spec => OnePlacePerYear`. Each call is one action of `YearSlots`, or none:
creation is `Make`, activation and the two cycles are `Enter`, locking and
closing are `Lock`, the rest change no year, no active version and no lock. That
closing is a single `Lock`, and that whoever enters puts out at most one version,
is where the inductive invariant is needed: a year has one active version.

The assumptions are those of `Scenarios`: the id of no scenario is
not a scenario, years are positive numbers, a year has at least one month, and
"no rows" is a content.

`ActualsProofs` proves, for any number of calls, months, years, box ids and
activities, four properties of the run `actuals`: `HoldersWrite`, `OneFile`,
`SettledCallsMatch` and `AssignmentsSkipClosedYears`. None of them is inductive.
The invariant `Inv` adds what a call under way has written (`WrittenOK`): it is
of months the call holds, it is a whole month again, its totals are right if the
snapshot of the month is still the truth and its year was not reopened since the
call began, and an assignment has left closed years alone. These facts last until the commit because only the holder of a
month publishes entries (`FinishInv`) and because closing waits for assignments
(`ClosingInv`). A month is `Whole` when its entries are of one file and each
identity occurs once; without the second half, the `SELECT` that leaves out
touched rows (`View`) could leave out too many. All three writers of entries go
through one lemma, `WriteInv`. Where `SettledCallsMatch` needs "the snapshot is
still the truth", `actuals_facts` shows what happens without it. That closed months
stay as they are is not proved, for it is not true (`actuals_closing`).

The assumptions are those of `Actuals`: every month is of a year; "unallocated"
is not an activity; "nobody" is not a call.

`OrgChangeProofs` proves, for any number of servers, requests, plans, units and
activities and any lists of items, `LoopsApplyDuePlans` and `AppliedPlansStay`.
The invariant says what a worker carries from one step to the next (`WorkersOK`)
and what a plan may be (`PlansOK`): a loop never carries an order to apply a
plan regardless of its day, which only a request gives, because servers and
requests are different workers (`WorkersAssumption`). `AppliedPlansStay` holds
for everything but `MarkFailed`.

`ActivitiesInActiveUnits` (`NoActivityInAClosedUnit`) is about what the items of a
plan do, one after the other. Each kind of item keeps the organization proper: a
unit is archived, deleted or merged away only when its activities have gone, and
an activity moves to an active unit only. That a whole list of items does, or is
refused, is an induction over its length: `ApplyItems` is a recursive function,
`StagesExist` shows that there is one, and `SetInduction` is the induction
principle stated with a set in place of a predicate, which follows from the
existence of least elements. `SpecTypeOK` comes with it. The assumptions: "no unit"
is not a unit, servers and requests are different workers, a plan has items.

`NotifyProofs` proves, for any number of servers, requests, versions, people,
days and crashes, `SpecTypeOK`, which bounds the attempts a record counts (not the
posts: two workers may post for the same attempt), and
`NobodyIsToldTwice`: a person has at most one notice per day, kind and version, and
the record of the day counts those who have one. What makes it so is that the
record and the notices are written in one transaction that finds no record, and
that nothing takes a record away (`BecomesOK` carries this through the steps of
every other worker). What a worker posts about has a record (`PostsOK`), and it
looked when the attempts were below the limit. The assumptions: finitely many
people, the manager one of them; a first day no later than the last; at least one
attempt; "no record" is not a record.

`SheetGridProofs` proves, for any rows, columns and texts and any number of
events, the three properties of the run `sheet`. `FieldStays` and
`ComputedRowsStay` share the invariant `FieldOK`: while a cell is edited and
nothing moved, the active cell is the one in which typing began, and it may be
written. The code does not ask again when it commits, so without this fact a
commit could write anything; for a field that was interfered with,
`ComputedRowsStay` says that the active cell alone is written. `SelectionStays` needs the typing of the state, the
geometry of a step and of a jump (`MoveStays`), that a selection is a rectangle
(`RangeCells`), and that what is pasted is one, though the blocks pasted and the
grid are of different sizes (`PasteIsRectangle`). The assumptions: there is a
column and a finite, positive number of rows, the rows that are computed are among
them, the empty text is a text, and "no
position" is not a position.

`BrowserProofs` proves, for any users, any number of inputs and whatever is under
way, on every screen:

- `NobodySeesAnothers`. The invariant `Inv` says whose session it is: only one
  request may log somebody in, nobody logs in while somebody is logged in, so
  the session is that of who is shown or has ended (`SessionOK`, `AuthOK`), and a
  request of the mounted screen is answered with that session (`OfThisUser`),
  because whoever leaves and enters mounts the screen anew.
- `SpecTypeOK` and `OnlyPreviewsAreImported`, from a second invariant about the
  requests of the open dialog: at most one that nobody has called off, of which
  kind, and what its preview stands for. An input that is replaced while its dry
  run is under way (`overtaken`) is excepted.
- `SettledIsFresh`, from a third invariant (`Fresh`). As long as no two answers met
  that no order protects (`raced`), every reading under way is of what is selected
  and will be new enough; so is what is shown when none is under way; and so is
  an answer that takes the place of what was read. An operation keeps this if it
  reads again what it changed, leaves the screen, or belongs to a screen whose
  operations on what is read are all answered with it.

Of the tables of `Screens` the proofs use two facts, which TLC evaluates on the
tables. `RoutesAssumption`: what asks for a reason is a form, and what sends its
dry run at once is an import. `ReloadsAssumption`: what changes the data of a
screen does one of the three above; only a new password is set without reading
anything again.

`EditorProofs` proves, for any cells, values and texts, any length of the history
and any number of readings under way, all the safety properties of the run
`editor`: `SpecTypeOK`, `AnsweredIsStored`, `SettledIsStored`, `FailureKeepsInput` and
`CompletionStands`. The invariant has five parts, and leans on all of them at once:
the kinds of the variables (`DataOK`, `AnswersOK`, `HistoryOK`: what can be undone and
what can be done again share the room of the history); what a page without an
editor may still have under way (`PageOK`); what a save has put on the server in
each of its two stages (`StoredOK`), which lasts because other requests of the page
write other rows and a locked version refuses them all; what of a save is still
in the grid (`KeptOK`), which lasts as long as nobody undoes or types over it; and,
for a page whose requests never overlapped, that only one of them is under way
and what the page then knows of the server (`SettledOK`). The assumptions: "none" is
no text, row, request or save; there are values and texts; the history and
the readings have room for one.

`DashboardProofs` proves, for any tree of segments, any units, activities, versions,
causes and amounts and whatever was clicked and read before, both properties of the
run `dashboard`.

- `ProfitsAddUp` (`BarsAddUp`). Each row of the scope is in exactly one bar
  (`OneGroup`). This rests on the tree: the way up from a segment (`pathOf`, a
  fixed point) is shown to rise without coming back, to have one root and one
  child of each segment on it (`TreeInduction`, `PathUnique`). It also rests on
  units belonging to segments without children: otherwise a row could be in the
  bar of a segment below and in one of a unit. Sums of the library are folds, of
  which the provers know nothing; `SumIsOf` says that on a finite set a fold is
  the one function that adds an element at a time, and from there sums can be
  split, taken by parts and renamed. That the waterfall leads from one version to
  the other needs besides that the changes can be put in order
  (`DescendingExists`) and that cutting the list keeps its sum (`CutKeepsTheSum`).
- `ClicksShowTheBars` (`ClickShowsTheBar`). The invariant `Inv` (`SpecInv`) says that
  the filters follow from the address, the versions and the scope from them and
  from the notes received last. An address stands for the filters it was made from
  (`RoundTrip`). A click changes none of the filters that choose the versions
  (`SelectionSame`) and leaves fewer units (`Narrower`), so what it shows was read
  already (`StaysThere`); and the scope it leads to holds the rows of the bar
  (`ClickSegment`, `ClickUnit`, `ClickCause`).

The assumptions are about the master data of the screen, which TLC evaluates on the
instance. The segments have no cycle, which `master/tree.go` sees to for moves that do
not overlap, and units belong to segments at the bottom (`lib/dashboard.ts:156`,
`master/tree.go:17`, `orgchange/apply.go:118`). Every activity has a unit, activities and
versions are finitely many, the ids of versions are numbers, some version is
active, amounts are integers, and "none" is no id and no cause. Without an active
version the page takes the year of today, which is not modelled.

Only model-checked: liveness (`OverdueIsNotified`, `FailedPostIsRetried`,
`DueIsSettled`, `PreviewSettles`, `ExpiryIsNoticed`). Its proof needs ENABLED. Every
other property of a passing run is proved.

## 5. The plan

Done: versions, life cycle with its abstract specification, actuals,
notifications, organization changes, the entry page with its grid, the screens
with session and dialogs, the dashboard. Next, in this order:

1. `PlanValues`: amounts, driver values and formulas of one activity in two
   versions; entry, change of the expression, locking, the boundary month, and
   `seedFromCurrent`. First property: what continues into the next year keeps its
   amounts and its driver values (`docs/plan.md` 2.16), which the second
   `NOT EXISTS` of the seed seems to break. Then: formula amounts follow the
   driver values, no value of a month of actuals changes, staff enter only the
   current forecast and the next plan, with the snapshot of `editTxRaw`. Composed
   with `ValuesEditor`, it takes the place of its `server`.
2. `Wip`: transfers of work in progress, opening balance from actuals or the
   current forecast, and what has to be recalculated when either changes.
3. `Tree`: nodes and units under two overlapping moves, with snapshots and row
   locks as in `Actuals`: no cycle, units on leaves.
4. `Sessions`: login, the limit on failures, expiry and clean-up; the API's side
   of the session in `Browser`.
5. Algorithms against reference definitions: order of allocation, numbering of
   codes, rounding of formulas, risk measures, carry-over of `web/src/lib`.
6. An abstract specification of the totals ("a month is replaced as a whole")
   that `Actuals` implements for calls that do not overlap.
7. Theorems about these modules as they are written.

## 6. Not modelled

Permissions and restricted subjects, parsing and CSV layouts, the display of
histories and reports, Excel files, cryptography and the OIDC exchange (data and
libraries, no state of their own); on the front end layout, focus and scrolling,
the fields of forms and their validation, charts and formats; deployment. Each
is listed in `PROJECT.json` with its reason.

------------------------------ MODULE Dashboard ------------------------------
(***************************************************************************)
(* The dashboard: web/src/pages/dashboard/DashboardPage.tsx over the       *)
(* operators of lib/dashboard.ts, tree.ts, aggregate.ts and scenario.ts,   *)
(* with its readings (lib/useApi.ts, lib/useActivityRows.ts).  What is     *)
(* shown follows from the address, the master data of the screen and three *)
(* readings: the comparison of up to three versions, the rows of each unit *)
(* in that comparison (kept once they are read), and the state of the      *)
(* activities in the shown version.  The risk report is read like the      *)
(* latter.  The master data does not change under the screen.              *)
(*                                                                         *)
(* The API numbers the versions of a comparison in the order they were     *)
(* asked for, and a row holds its amounts by that number.                  *)
(*                                                                         *)
(* Left out: months and subjects (an amount is the profit of the year),    *)
(* the measure of the trend, the risk measures, layout, labels, the order  *)
(* of bars, and addresses that are typed in.                               *)
(***************************************************************************)
EXTENDS Integers, Sequences, FiniteSets, FiniteSetsExt, SequencesExt, Functions

CONSTANTS
  None,
  Me, Role,        \* who looks at it
  Segments,        \* a segment |-> its parent, or None
  Units,           \* a unit |-> [segment, type, owner, archived]
  Activities,      \* an activity |-> [unit, owner, type, level]
  Versions,        \* a version (a number) |-> [year, role, active, previous]
  Causes,          \* [version, activity] |-> the causes of its note in the version
  Amounts,         \* [version, activity or None] |-> its profit; None: unallocated
  Limit,           \* 8 in the code: the steps of the waterfall
  MaxInputs,       \* bound: clicks, and readings that fail
  MaxGets          \* bound: readings under way at a time

VARIABLES
  url,       \* the query of the address: only what is not the default
  back,      \* the addresses before it
  filters, selection, scope,  \* useMemo: what follows from the address and the readings
  report,    \* useApi: the versions of the last comparison received
  status,    \* useApi: the version whose notes were received last
  gets,      \* useApi: readings under way
  failed,    \* useApi: which of the two failed last
  cache,     \* useActivityRows: the comparisons and units that were read
  fetching,  \* useActivityRows: the reading that still counts
  rowsError, \* useActivityRows: one failed
  mode,      \* the waterfall: by group or by cause
  inputs

vars == <<url, back, filters, selection, scope, report, status, gets, failed, cache, fetching, rowsError, mode, inputs>>

-----------------------------------------------------------------------------
\* The address.

defaultScope == CASE Role = "member" -> "mine" [] Role = "manager" -> "units" [] OTHER -> "all"
Params == {"fy", "scenario", "compare", "scope", "type", "unitType", "segment", "unit", "cause", "level"}
Default(k) == CASE k = "compare" -> "target" [] k = "scope" -> defaultScope [] OTHER -> None
parseFilters(query) == [k \in Params |-> IF k \in DOMAIN query THEN query[k] ELSE Default(k)]

\* Mutant: the cause is forgotten.
filtersQueryMutant(f) == [k \in {k \in Params \ {"cause"} : f[k] # Default(k)} |-> f[k]]
filtersQuery(f) == [k \in {k \in Params : f[k] # Default(k)} |-> f[k]]

-----------------------------------------------------------------------------
\* The versions that are compared.

\* The plan to compare with, and the newest forecast.
defaultScenarios(inYear) ==
  LET byRole(role) == {s \in inYear : Versions[s].role = role}
      first(S, else) == IF S = {} THEN else ELSE Min(S)
      base == first(byRole("revised"), first(byRole("initial"), first(inYear, None)))
      newest == IF inYear \ {base} = {} THEN base ELSE Max(inYear \ {base})
  IN  [base |-> base,
       latest |-> first(byRole("latest"),
                        first({s \in inYear : Versions[s].active}, newest))]

Years == {Versions[s].year : s \in DOMAIN Versions}
\* The active version of the bar: the current forecast.
Active == CHOOSE s \in DOMAIN Versions : Versions[s].active
\* What is selected, and the versions in the order they are asked for.
Selection(f) ==
  LET fy == IF f.fy = None THEN Versions[Active].year ELSE f.fy
      inYear == {s \in DOMAIN Versions : Versions[s].year = fy}
      current == IF f.scenario \in inYear THEN f.scenario
                 ELSE IF Active \in inYear THEN Active ELSE defaultScenarios(inYear).latest
      other(s) == IF s \in inYear \ {current} THEN s ELSE None
      previous == other(Versions[current].previous)
      compare == IF f.compare = "previous" THEN previous ELSE other(defaultScenarios(inYear).base)
      asked(s, before) == IF s = None \/ Contains(before, s) THEN before ELSE Append(before, s)
  IN  [fy |-> fy, inYear |-> inYear, current |-> current, compare |-> compare,
       previous |-> previous, ids |-> asked(previous, asked(compare, <<current>>))]

-----------------------------------------------------------------------------
\* The tree of the segments.

children(s) == {c \in DOMAIN Segments : Segments[c] = s}
pathOf[s \in DOMAIN Segments] == IF Segments[s] = None THEN {s} ELSE {s} \union pathOf[Segments[s]]
subtreeIds(s) == {c \in DOMAIN Segments : s \in pathOf[c]}

\* The master data: parents lead to a root, a unit belongs to a segment at the
\* bottom, an activity to a unit, and some version is active.
ASSUME SegmentsAssumption ==
  /\ None \notin DOMAIN Segments
  /\ \A s \in DOMAIN Segments : Segments[s] \in DOMAIN Segments \union {None}
  /\ \A S \in SUBSET DOMAIN Segments : S # {} => \E s \in S : Segments[s] \notin S
ASSUME UnitsAssumption ==
  /\ None \notin DOMAIN Units
  /\ \A u \in DOMAIN Units :
       Units[u].segment \in DOMAIN Segments /\ children(Units[u].segment) = {}
ASSUME ActivitiesAssumption ==
  /\ IsFiniteSet(DOMAIN Activities) /\ None \notin DOMAIN Activities
  /\ \A a \in DOMAIN Activities : Activities[a].unit \in DOMAIN Units
ASSUME VersionsAssumption ==
  /\ IsFiniteSet(DOMAIN Versions) /\ DOMAIN Versions \subseteq Nat
  /\ \E s \in DOMAIN Versions : Versions[s].active
ASSUME CausesAssumption ==
  /\ None \notin {"none", "multiple"}
  /\ \A s \in DOMAIN Versions, a \in DOMAIN Activities : None \notin Causes[<<s, a>>]
ASSUME AmountsAssumption ==
  \A s \in DOMAIN Versions, r \in DOMAIN Activities \union {None} : Amounts[<<s, r>>] \in Int
ASSUME LimitAssumption == Limit \in Nat

\* The way back: the whole company, the segments, the unit.
breadcrumb(f) ==
  {[segment |-> None, unit |-> None]}
  \union (IF f.segment = None THEN {} ELSE {[segment |-> s, unit |-> None] : s \in pathOf[f.segment]})
  \union (IF f.unit = None THEN {} ELSE {[segment |-> f.segment, unit |-> f.unit]})

-----------------------------------------------------------------------------
\* What the filters leave.

causeKeyOf(causes) ==
  IF causes = {} THEN "none" ELSE IF Cardinality(causes) > 1 THEN "multiple" ELSE CHOOSE c \in causes : TRUE
CauseOf(a, version) == causeKeyOf(IF version = None THEN {} ELSE Causes[<<version, a>>])

inScope(f, u) ==
  /\ ~Units[u].archived \/ \E a \in DOMAIN Activities : Activities[a].unit = u
  /\ f.unitType # None => Units[u].type = f.unitType
  /\ f.segment # None => Units[u].segment \in subtreeIds(f.segment)
  /\ f.unit # None => u = f.unit
  /\ f.scope = "units" => Units[u].owner = Me
matches(f, version, a) ==
  /\ f.scope = "mine" => Activities[a].owner = Me
  /\ f.type # None => Activities[a].type = f.type
  /\ f.cause # None => CauseOf(a, version) = f.cause
  /\ f.level # None => Activities[a].level = f.level
filtered(f) == f.scope = "mine" \/ f.type # None \/ f.cause # None \/ f.level # None

scopeOf(f, version) ==
  LET units == {u \in DOMAIN Units : inScope(f, u)}
      acts == {a \in DOMAIN Activities : Activities[a].unit \in units /\ matches(f, version, a)}
  IN  [units |-> IF f.scope = "mine" THEN {Activities[a].unit : a \in acts} ELSE units,
       activities |-> acts,
       withUnallocated |-> /\ f.scope = "all" /\ f.segment = None /\ f.unit = None
                           /\ f.unitType = None /\ ~filtered(f)]

\* The rows of the shown activities, and what is not allocated to any.
scopedRows(sc) == sc.activities \union (IF sc.withUnallocated THEN {None} ELSE {})

\* Mutant: units of the segment itself only, and nothing unallocated.
childGroupsMutant(f, sc) ==
  IF f.unit # None THEN {[kind |-> "activity", id |-> a] : a \in sc.activities}
  ELSE IF children(f.segment) # {}
       THEN {[kind |-> "segment", id |-> s] : s \in
               {c \in children(f.segment) : \E u \in sc.units : Units[u].segment = c}}
       ELSE {[kind |-> "unit", id |-> u] : u \in
               {u \in sc.units : f.segment = None \/ Units[u].segment = f.segment}}

\* The bars one level down.
childGroups(f, sc) ==
  IF f.unit # None THEN {[kind |-> "activity", id |-> a] : a \in sc.activities}
  ELSE (IF children(f.segment) # {}
        THEN {[kind |-> "segment", id |-> s] : s \in
                {c \in children(f.segment) : \E u \in sc.units : Units[u].segment \in subtreeIds(c)}}
        ELSE {[kind |-> "unit", id |-> u] : u \in
                {u \in sc.units : f.segment = None \/ Units[u].segment = f.segment}})
       \union (IF sc.withUnallocated THEN {[kind |-> "unallocated", id |-> None]} ELSE {})

groupIncludes(g, row) ==
  CASE g.kind = "activity" -> row = g.id
    [] g.kind = "unit" -> row # None /\ Activities[row].unit = g.id
    [] g.kind = "segment" -> row # None /\ Units[Activities[row].unit].segment \in subtreeIds(g.id)
    [] OTHER -> row = None

-----------------------------------------------------------------------------
\* The readings as they are on the screen.

Missing(ids, units, read) == {u \in units : <<ids, u>> \notin read}
missing == Missing(selection.ids, scope.units, cache)

keyOf(version) ==
  IF version # None /\ report # None /\ Contains(report, version)
  THEN CHOOSE i \in DOMAIN report : report[i] = version ELSE None
Ready == missing = {} /\ status # None /\ keyOf(selection.current) # None
Shown == Ready /\ failed = {} /\ ~rowsError

\* A row of an activity was read for the comparison of the address, that of
\* the unallocated amounts came with the comparison received last.
Value(row, key) ==
  LET asked == IF row = None THEN report ELSE selection.ids
  IN  IF key \in DOMAIN asked THEN Amounts[<<asked[key], row>>] ELSE 0
\* The profit of the year.
Profit(rows, key) == SumFunction([r \in rows |-> Value(r, key)])

\* The bars of "where", if there is something to compare with, and what each
\* stands for.
barKeys == {keyOf(selection.current), keyOf(selection.compare)}
varianceBars ==
  LET rows == scopedRows(scope)
      barOf(g) == [group |-> g, rows |-> {r \in rows : groupIncludes(g, r)}]
      keys == barKeys
  IN  IF None \in keys THEN {}
      ELSE {b \in {barOf(g) : g \in childGroups(filters, scope)} : \E k \in keys : Profit(b.rows, k) # 0}

\* The entry of the waterfall that a row belongs to: its group, or its cause.
entryOf(row, groups) ==
  IF row = None THEN [kind |-> "unallocated", id |-> None]
  ELSE IF mode = "cause" THEN [kind |-> "cause", id |-> CauseOf(row, status)]
  ELSE LET mine == {g \in groups : g.kind # "unallocated" /\ groupIncludes(g, row)}
       IN  IF mine = {} THEN [kind |-> "other", id |-> None] ELSE CHOOSE g \in mine : TRUE

abs(v) == IF v < 0 THEN -v ELSE v
Step(entry, delta) == [entry |-> entry, delta |-> delta]
\* Which of two equal changes comes first is left open.
LargestFirst(steps) ==
  CHOOSE list \in [1..Cardinality(steps) -> steps] :
    /\ Range(list) = steps
    /\ \A i, j \in DOMAIN list : i < j => abs(list[i].delta) >= abs(list[j].delta)
\* The changes of the entries, the largest first.
Deltas(from, to) ==
  LET rows == scopedRows(scope)
      groups == childGroups(filters, scope)
      entry == [r \in rows |-> entryOf(r, groups)]
      rowsOf(e) == {r \in rows : entry[r] = e}
      steps == {Step(e, Profit(rowsOf(e), to) - Profit(rowsOf(e), from)) : e \in Range(entry)}
  IN  LargestFirst({x \in steps : x.delta # 0})

\* The steps from the profit of one version to that of the other.
Change(steps) == [i \in DOMAIN steps |-> steps[i].delta]
cut(sorted) ==
  LET rest == SumFunctionOnSet(Change(sorted), Limit + 1 .. Len(sorted))
  IN  SubSeq(sorted, 1, Min({Len(sorted), Limit}))
      \o (IF rest = 0 THEN <<>> ELSE <<Step([kind |-> "rest", id |-> None], rest)>>)
waterfall(from, to) == cut(Deltas(from, to))

-----------------------------------------------------------------------------
\* The address changes, and with it what has to be read.

\* HomePage leads to the current forecast and to the plan of the next year.
HomeVersions == {s \in DOMAIN Versions : s = Active \/ Versions[s].year > Versions[Active].year}
LinkTo(s) == [k \in {"fy", "scenario"} |-> IF k = "fy" THEN Versions[s].year ELSE s]
Get(kind, of) == [kind |-> kind, of |-> of]
Memo(query, version) ==
  /\ filters' = parseFilters(query)
  /\ selection' = Selection(filters')
  /\ scope' = scopeOf(filters', version)
Init ==
  /\ url \in {<<>>} \union {LinkTo(s) : s \in HomeVersions}
  /\ filters = parseFilters(url) /\ selection = Selection(filters) /\ scope = scopeOf(filters, None)
  /\ back = <<>> /\ report = None /\ status = None /\ failed = {}
  /\ gets = <<Get("report", selection.ids), Get("status", selection.current)>>
  /\ cache = {} /\ rowsError = FALSE /\ mode = "group" /\ inputs = 0
  /\ fetching = IF missing = {} THEN None ELSE [ids |-> selection.ids, units |-> missing]

Starts == inputs < MaxInputs /\ inputs' = inputs + 1

\* The effect of useActivityRows: another comparison or other missing units
\* cancel what was asked for.
FetchRows ==
  LET now == Missing(selection'.ids, scope'.units, cache)
  IN  fetching' = IF selection'.ids = selection.ids /\ now = missing THEN fetching
                  ELSE IF now = {} THEN None ELSE [ids |-> selection'.ids, units |-> now]

\* useApi reads when its path changes, and keeps what it has until then.
Go(query) ==
  LET read(kind, old, new) == IF new = old THEN <<>> ELSE <<Get(kind, new)>>
  IN  /\ query # url /\ url' = query /\ Memo(query, status)
      /\ gets' = gets \o read("report", selection.ids, selection'.ids)
                      \o read("status", selection.current, selection'.current)
      /\ Len(gets') <= MaxGets
      /\ FetchRows
      /\ UNCHANGED <<report, status, failed, cache, rowsError, mode>>
patched(patch) == filtersQuery([k \in Params |-> IF k \in DOMAIN patch THEN patch[k] ELSE filters[k]])
set(patch) == Go(patched(patch)) /\ back' = Append(back, url)

\* 「戻る」
Back ==
  /\ back # <<>> /\ Go(Last(back)) /\ back' = Front(back) /\ UNCHANGED inputs

\* FilterBar.
SelectYear(y) == Starts /\ set([fy |-> y, scenario |-> None, segment |-> None, unit |-> None])
SelectScenario(s) == Starts /\ s \in selection.inYear /\ set([scenario |-> s])
SelectCompare(c) == Starts /\ set([compare |-> c])
SelectScope(s) == Starts /\ set([scope |-> s])
SelectTypes(key, x) == Starts /\ set([k \in {key} |-> x])

Crumb(c) == Starts /\ c # [segment |-> filters.segment, unit |-> filters.unit] /\ set(c)
RemoveChip(key) == Starts /\ filters[key] # None /\ set([k \in {key} |-> None])

\* A bar of "where" or a step of the waterfall; an activity leaves the screen.
Clickable(g) == g.kind \in {"segment", "unit"}
onGroup(g) == IF g.kind = "segment" THEN [segment |-> g.id, unit |-> None] ELSE [unit |-> g.id]
\* The same cause once more takes it away.
onCause(cause) == [cause |-> IF filters.cause = cause THEN None ELSE cause]

Compared == keyOf(selection.previous) # None
Steps == IF Compared THEN waterfall(keyOf(selection.previous), keyOf(selection.current)) ELSE <<>>
ClickBar ==
  Starts /\ Shown /\ \E b \in varianceBars : Clickable(b.group) /\ set(onGroup(b.group))
ClickStep ==
  Starts /\ Shown /\ \E step \in Range(Steps) :
    \/ Clickable(step.entry) /\ set(onGroup(step.entry))
    \/ step.entry.kind = "cause" /\ set(onCause(step.entry.id))
onLevel(level) == Starts /\ Shown /\ set([level |-> IF filters.level = level THEN None ELSE level])
onMode ==
  /\ Shown /\ Compared /\ mode' = IF mode = "group" THEN "cause" ELSE "group"
  /\ UNCHANGED <<url, back, filters, selection, scope, report, status, gets, failed, cache, fetching, rowsError, inputs>>

-----------------------------------------------------------------------------
\* Answers.

address == <<url, back, filters, selection>>
Fails(i) ==
  /\ Starts /\ gets' = RemoveAt(gets, i) /\ failed' = failed \union {gets[i].kind}
  /\ UNCHANGED <<address, scope, report, status, cache, fetching, rowsError, mode>>
Answered(i) ==
  /\ gets' = RemoveAt(gets, i) /\ failed' = failed \ {gets[i].kind}
  /\ report' = IF gets[i].kind = "report" THEN gets[i].of ELSE report
  /\ status' = IF gets[i].kind = "status" THEN gets[i].of ELSE status
  /\ scope' = scopeOf(filters, status')
  /\ UNCHANGED <<address, cache, rowsError, mode, inputs>>
  /\ FetchRows

\* All units of a reading arrive together; an error stays.
RowsArrive ==
  /\ fetching # None /\ fetching' = None
  /\ cache' = cache \union {<<fetching.ids, u>> : u \in fetching.units}
  /\ UNCHANGED <<address, scope, report, status, gets, failed, rowsError, mode, inputs>>
RowsFail ==
  /\ fetching # None /\ fetching' = None /\ Starts /\ rowsError' = TRUE
  /\ UNCHANGED <<address, scope, report, status, gets, failed, cache, mode>>

-----------------------------------------------------------------------------
Click ==
  \/ \E y \in Years : SelectYear(y)
  \/ \E s \in DOMAIN Versions : SelectScenario(s)
  \/ \E c \in {"target", "previous"} : SelectCompare(c)
  \/ \E s \in {"all", "units", "mine"} : SelectScope(s)
  \/ \E t \in {Activities[a].type : a \in DOMAIN Activities} \union {None} : SelectTypes("type", t)
  \/ \E t \in {Units[u].type : u \in DOMAIN Units} \union {None} : SelectTypes("unitType", t)
  \/ \E c \in breadcrumb(filters) : Crumb(c)
  \/ \E key \in {"cause", "level"} : RemoveChip(key)
  \/ \E level \in {Activities[a].level : a \in DOMAIN Activities} : onLevel(level)
  \/ ClickBar \/ ClickStep \/ onMode \/ Back
Network ==
  \/ \E i \in DOMAIN gets : Answered(i) \/ Fails(i)
  \/ RowsArrive \/ RowsFail
Next == Click \/ Network
Spec == Init /\ [][Next]_vars

-----------------------------------------------------------------------------
\* Whatever is filtered, the bars of "where" add up to the tiles, and the
\* waterfall leads from the profit of one version to that of the other,
\* whether it is split by group or by cause and however many steps fit
\* (childGroups, groupIncludes, scopedRows, waterfall).
BarsAddUp ==
  Shown =>
    LET rows == scopedRows(scope)
        bars == varianceBars
    IN  /\ None \notin barKeys => \A k \in barKeys :
             SumFunction([b \in bars |-> Profit(b.rows, k)]) = Profit(rows, k)
        /\ Compared =>
             Profit(rows, keyOf(selection.previous))
               + SumFunction(Change(Steps))
               = Profit(rows, keyOf(selection.current))

\* What is clicked fills the screen: the address it leads to asks for nothing
\* that is not there, and shows the rows of the bar, or rows that make up the
\* change of the cause (onGroup, onCause, filtersQuery, parseFilters, scopeOf).
ClickShowsTheBar ==
  Shown =>
    LET after(patch) == scopeOf(parseFilters(patched(patch)), status)
        there(patch) == /\ Selection(parseFilters(patched(patch))) = selection
                        /\ \A u \in after(patch).units : <<selection.ids, u>> \in cache
        change(rows) == Profit(rows, keyOf(selection.current))
                        - Profit(rows, keyOf(selection.previous))
    IN  /\ \A b \in varianceBars :
             Clickable(b.group) => /\ there(onGroup(b.group))
                                   /\ scopedRows(after(onGroup(b.group))) = b.rows
        /\ \A step \in Range(Steps) :
             (step.entry.kind = "cause" /\ filters.cause = None)
               => /\ there(onCause(step.entry.id))
                  /\ change(scopedRows(after(onCause(step.entry.id)))) = step.delta

\* docs/plan.md, 2.30: one sees of which version the numbers are.  The numbers
\* that are shown as those of a version are the numbers of that version.
NumbersAreOfTheirVersion ==
  Shown =>
    \A v \in {selection.current, selection.compare, selection.previous} :
      keyOf(v) # None =>
        \A r \in scopedRows(scope) : Value(r, keyOf(v)) = Amounts[<<v, r>>]
=============================================================================

------------------------------- MODULE Actuals ------------------------------
(***************************************************************************)
(* How calls that run at the same time change the actuals                  *)
(* (api/internal/actual: importer.go, unallocated.go, facts.go, closings.go*)
(* and the external codes of api/internal/activity).                       *)
(*                                                                         *)
(* A call is one MySQL transaction at REPEATABLE READ: its first plain     *)
(* SELECT fixes what all its plain SELECTs see, apart from the rows the    *)
(* call itself writes, while DELETE, UPDATE and SELECT ... FOR UPDATE read *)
(* the latest committed rows and hold them until the commit.  A call has   *)
(* three steps: Begin (the snapshot and the checks on it), Acquire (the    *)
(* locking statements and the writes), Commit.                             *)
(*                                                                         *)
(* Abstracted: an amount.  facts[m] is the set of the entries whose amounts*)
(* the rows of actual_facts of month m add up.  Whatever sends an entry to *)
(* an activity (activity code, external code, allocation rule) is codes,   *)
(* by box.  Locks are taken by month; they are row locks in the database,  *)
(* and calls that write entries of one month meet at its facts.            *)
(***************************************************************************)
EXTENDS Naturals, FiniteSets

CONSTANTS
  Call,         \* the calls, each of them made once
  Month, Year,
  YearOf,       \* fiscalYearOf
  Box,          \* the box ids entries carry
  Activity,
  Unallocated,  \* the activity of an entry no code matches (NULL)
  NoCall        \* the holder of a month nobody holds

ASSUME YearOfAssumption == YearOf \in [Month -> Year]
ASSUME UnallocatedAssumption == Unallocated \notin Activity
ASSUME NoCallAssumption == NoCall \notin Call

VARIABLES
  entries,  \* actual_entries, by month
  facts,    \* actual_facts, by month
  codes,    \* the activity that entries of a box go to
  closed,   \* fiscal_year_closings
  holder,   \* the call that holds the rows of a month
  pc,       \* idle, begun, locked, done
  request,  \* what a call was asked to do
  seen,     \* the snapshot of a call: entries, codes and closed
  written   \* what a call has written and not committed

vars == <<entries, facts, codes, closed, holder, pc, request, seen, written>>

Targets == Activity \union {Unallocated}
Row == [from : Call, box : Box, activity : Targets]

\* An entry keeps its identity when its activity changes.
Id(r) == <<r.from, r.box>>

Now == [entries |-> entries, codes |-> codes, closed |-> closed]
NothingSeen == [entries |-> [m \in Month |-> {}], codes |-> [b \in Box |-> Unallocated],
                closed |-> {}]
NoRequest == [kind |-> "none"]
NoWrites == [entries |-> <<>>, facts |-> <<>>]

ClosedMonths(years) == {m \in Month : YearOf[m] \in years}

-----------------------------------------------------------------------------
\* The check on closed years and the plain reads of a call.
Begin(c, req) ==
  /\ pc[c] = "idle"
  /\ pc' = [pc EXCEPT ![c] = "begun"]
  /\ request' = [request EXCEPT ![c] = req]
  /\ seen' = [seen EXCEPT ![c] = Now]
  /\ UNCHANGED <<entries, facts, codes, closed, holder, written>>

\* POST /api/actuals/import.  The file replaces the months it has lines of,
\* those whose lines are all of excluded accounts included.
BeginImport(c, months, lines) ==
  /\ months \intersect ClosedMonths(closed) = {}
  /\ Begin(c, [kind |-> "import", months |-> months, lines |-> lines])

\* POST /api/actuals/reallocate.
BeginReallocate(c, months) ==
  /\ months \intersect ClosedMonths(closed) = {}
  /\ \A m \in months : entries[m] # {}
  /\ Begin(c, [kind |-> "reallocate", months |-> months])

\* POST /api/actuals/unallocated/assign.
BeginAssign(c, box, activity) ==
  /\ codes[box] = Unallocated
  /\ Begin(c, [kind |-> "assign", box |-> box, activity |-> activity])

\* What the statements of a call do to the rows of a month: the rows deleted
\* or updated, and the rows as they are written.
ImportedRows(c, m) ==
  {[from |-> c, box |-> b, activity |-> seen[c].codes[b]] :
     b \in {b \in Box : <<m, b>> \in request[c].lines}}
Reallocated(c, r) == [r EXCEPT !.activity = seen[c].codes[r.box]]
Assignable(c, m) ==
  {r \in entries[m] : r.box = request[c].box /\ r.activity = Unallocated}

\* The want of syncFacts: a plain SELECT of the month, so the snapshot, but
\* for the rows the call has touched, which it sees as it left them.
ViewMutant(c, m, touched, rows) == seen[c].entries[m] \union rows
View(c, m, touched, rows) ==
  {r \in seen[c].entries[m] : Id(r) \notin {Id(x) : x \in touched}} \union rows

\* The rows a call touches and writes in each of the months it holds until the
\* commit, and the months it runs syncFacts for; touched and rows are functions
\* of the month.
Write(c, months, synced, touched, rows) ==
  /\ \A m \in months : holder[m] = NoCall
  /\ holder' = [m \in Month |-> IF m \in months THEN c ELSE holder[m]]
  /\ written' = [written EXCEPT ![c] =
       [entries |-> [m \in months |-> (entries[m] \ touched[m]) \union rows[m]],
        facts |-> [m \in synced |-> View(c, m, touched[m], rows[m])]]]
  /\ pc' = [pc EXCEPT ![c] = "locked"]
  /\ UNCHANGED <<entries, facts, codes, closed, request, seen>>

\* importActuals after its checks: DELETE, insertEntries, syncFacts.
AcquireImportMutant(c) ==
  /\ pc[c] = "begun" /\ request[c].kind = "import"
  /\ Write(c, request[c].months, request[c].months, seen[c].entries,
           [m \in Month |-> ImportedRows(c, m)])
AcquireImport(c) ==
  /\ pc[c] = "begun" /\ request[c].kind = "import"
  /\ Write(c, request[c].months, request[c].months, entries,
           [m \in Month |-> ImportedRows(c, m)])

\* reallocate after its checks.  The entries of an account that has been
\* excluded since the import are removed.
AcquireReallocate(c) ==
  /\ pc[c] = "begun" /\ request[c].kind = "reallocate"
  /\ \E excluded \in SUBSET Box :
       LET moved(m) == {r \in entries[m] : r.box \in excluded \/ Reallocated(c, r) # r}
           left(m) == {r \in moved(m) : r.box \notin excluded}
       IN  Write(c, request[c].months, request[c].months, [m \in Month |-> moved(m)],
                 [m \in Month |-> {Reallocated(c, r) : r \in left(m)}])

\* The assignments under way that have inserted their code.  Their UPDATE has
\* read the closed years, and holds them.
Assigning == {c \in Call : pc[c] = "locked" /\ request[c].kind = "assign"}

\* assignUnallocated after its checks: the code, which is unique, the months
\* with entries to assign, by the closed years of the snapshot, and the UPDATE,
\* which reads the closed years of the moment.  syncFacts has the first months,
\* so a year that is reopened in between has entries assigned and no totals.
AssignIn(c, open) ==
  LET months == {m \in Month \ ClosedMonths(seen[c].closed) : Assignable(c, m) # {}}
      assigned(m) == IF m \in open THEN Assignable(c, m) ELSE {}
  IN  Write(c, months \union {m \in Month : assigned(m) # {}}, months,
            [m \in Month |-> assigned(m)],
            [m \in Month |-> {[r EXCEPT !.activity = request[c].activity] :
                                r \in assigned(m)}])
AcquireAssignMutant(c) ==
  /\ pc[c] = "begun" /\ request[c].kind = "assign"
  /\ codes[request[c].box] = Unallocated
  /\ \A d \in Assigning : request[d].box # request[c].box
  /\ AssignIn(c, Month \ ClosedMonths(seen[c].closed))
AcquireAssign(c) ==
  /\ pc[c] = "begun" /\ request[c].kind = "assign"
  /\ codes[request[c].box] = Unallocated
  /\ \A d \in Assigning : request[d].box # request[c].box
  /\ AssignIn(c, Month \ ClosedMonths(closed))

\* The transaction is over, and nothing of it is left but what it published.
FinishMutant(c) ==
  /\ pc' = [pc EXCEPT ![c] = "done"]
  /\ request' = [request EXCEPT ![c] = NoRequest]
  /\ seen' = [seen EXCEPT ![c] = NothingSeen]
  /\ written' = [written EXCEPT ![c] = NoWrites]
  /\ UNCHANGED <<closed, holder>>
Finish(c) ==
  /\ pc' = [pc EXCEPT ![c] = "done"]
  /\ request' = [request EXCEPT ![c] = NoRequest]
  /\ seen' = [seen EXCEPT ![c] = NothingSeen]
  /\ written' = [written EXCEPT ![c] = NoWrites]
  /\ holder' = [m \in Month |-> IF holder[m] = c THEN NoCall ELSE holder[m]]
  /\ UNCHANGED closed

Commit(c) ==
  /\ pc[c] = "locked"
  /\ entries' = [m \in Month |-> IF m \in DOMAIN written[c].entries
                                 THEN written[c].entries[m] ELSE entries[m]]
  /\ facts' = [m \in Month |-> IF m \in DOMAIN written[c].facts
                               THEN written[c].facts[m] ELSE facts[m]]
  /\ codes' = IF request[c].kind = "assign"
              THEN [codes EXCEPT ![request[c].box] = request[c].activity] ELSE codes
  /\ Finish(c)

\* A dry run, an error in a later statement, a deadlock or a lock wait that
\* takes too long: everything the call wrote is undone.
RollBack(c) ==
  /\ pc[c] \in {"begun", "locked"}
  /\ Finish(c)
  /\ UNCHANGED <<entries, facts, codes>>

-----------------------------------------------------------------------------
\* closeYear and reopenYear: one statement on the closed years each, which
\* waits for the assignments that hold them.
CloseYear(y) ==
  /\ y \notin closed /\ Assigning = {}
  /\ closed' = closed \union {y}
  /\ UNCHANGED <<entries, facts, codes, holder, pc, request, seen, written>>
ReopenYear(y) ==
  /\ y \in closed /\ Assigning = {}
  /\ closed' = closed \ {y}
  /\ UNCHANGED <<entries, facts, codes, holder, pc, request, seen, written>>

\* createExternalCode and deleteExternalCode of the activities.
ChangeCode(b, target) ==
  /\ codes[b] = Unallocated <=> target # Unallocated
  /\ \A d \in Assigning : request[d].box # b
  /\ codes' = [codes EXCEPT ![b] = target]
  /\ UNCHANGED <<entries, facts, closed, holder, pc, request, seen, written>>

-----------------------------------------------------------------------------
Init ==
  /\ entries = [m \in Month |-> {}]
  /\ facts = [m \in Month |-> {}]
  /\ codes = [b \in Box |-> Unallocated]
  /\ closed = {}
  /\ holder = [m \in Month |-> NoCall]
  /\ pc = [c \in Call |-> "idle"]
  /\ request = [c \in Call |-> NoRequest]
  /\ seen = [c \in Call |-> NothingSeen]
  /\ written = [c \in Call |-> NoWrites]

BeginCall(c) ==
  \/ \E months \in SUBSET Month \ {{}} :
       \/ \E lines \in SUBSET (months \X Box) : BeginImport(c, months, lines)
       \/ BeginReallocate(c, months)
  \/ \E b \in Box, a \in Activity : BeginAssign(c, b, a)

Acquire(c) == AcquireImport(c) \/ AcquireReallocate(c) \/ AcquireAssign(c)

Next ==
  \/ \E c \in Call : BeginCall(c) \/ Acquire(c) \/ Commit(c) \/ RollBack(c)
  \/ \E y \in Year : CloseYear(y) \/ ReopenYear(y)
  \/ \E b \in Box, target \in Targets : ChangeCode(b, target)

Spec == Init /\ [][Next]_vars

-----------------------------------------------------------------------------
\* The state, and who holds what: the months a call holds are those it has
\* written, so nobody holds a month when no call is between its locking
\* statements and its commit.
TypeOK ==
  /\ entries \in [Month -> SUBSET Row]
  /\ facts \in [Month -> SUBSET Row]
  /\ codes \in [Box -> Targets]
  /\ closed \subseteq Year
  /\ holder \in [Month -> Call \union {NoCall}]
  /\ pc \in [Call -> {"idle", "begun", "locked", "done"}]
  /\ \A c \in Call : {m \in Month : holder[m] = c} = DOMAIN written[c].entries

\* However imports of a month overlap, the entries of a month come from one
\* file: an import never adds its lines to those of another.
MonthHasOneFile ==
  \A m \in Month : \A r, s \in entries[m] : r.from = s.from

\* A call that commits and finds the entries of a month it has written as they
\* were when it began leaves totals that are the sums of the entries, whatever
\* they were before: an import on its own repairs a month.  The exception is a
\* year that was closed when the call began and has been reopened before its
\* UPDATE: an assignment then writes entries and no totals.
LeavesSums ==
  \A c \in Call, m \in Month :
    /\ Commit(c) /\ holder[m] = c
    /\ seen[c].entries[m] = entries[m]
    /\ YearOf[m] \notin seen[c].closed \ closed
    => facts'[m] = entries'[m]
SettledCallMatches == [][LeavesSums]_vars

\* assignUnallocated: the entries of a closed year are not assigned, even when
\* the year is closed after the call has begun.
AssignsOpenYears ==
  \A c \in Call : request[c].kind = "assign" /\ pc'[c] = "done" =>
    \A m \in ClosedMonths(closed) : entries'[m] = entries[m]
AssignSkipsClosedYears == [][AssignsOpenYears]_vars

\* docs/plan.md:508: the actuals of the months of a closed year are changed by
\* no import, no reallocation and no assignment.
ClosedMonthsKept ==
  \A m \in ClosedMonths(closed \intersect closed') :
    facts'[m] = facts[m] /\ entries'[m] = entries[m]
ClosedMonthsStay == [][ClosedMonthsKept]_vars

\* facts.go:15: the totals follow the entries.
FactsMatchEntries == \A m \in Month : facts[m] = entries[m]
=============================================================================

--------------------------- MODULE ScenariosProofs --------------------------
(***************************************************************************)
(* Theorems about Scenarios, for any number of scenarios, years and months.*)
(* First the invariant; then what a call does to whole years.              *)
(*                                                                         *)
(* Inv is inductive as it stands: the safety invariants support each other.*)
(* A blank row keeps no actuals because it is not locked; the boundary of a*)
(* locked version cannot move because Update compares it; the year of a    *)
(* version never changes, so aliases, active versions and previous         *)
(* forecasts can be compared year by year.                                 *)
(***************************************************************************)
EXTENDS Scenarios, FiniteSetTheorems, SequenceTheorems, TLAPS

Inv ==
  /\ TypeOK
  /\ OneActivePerYear
  /\ OneHolderPerAlias
  /\ KeptActualsMatchVersion
  /\ PreviousInYear

\* What the table operators of the code do to a row, field by field.
LEMMA TakeRoleRows ==
  ASSUME NEW table \in [Scenario -> Row], NEW y, NEW role, NEW except
  PROVE  /\ TakeRole(table, y, role, except) \in [Scenario -> Row]
         /\ \A s \in Scenario :
              LET v == TakeRole(table, y, role, except)[s]
              IN  /\ v.year = table[s].year /\ v.through = table[s].through
                  /\ v.active = table[s].active /\ v.locked = table[s].locked
                  /\ v.previous = table[s].previous
                  /\ v.role = table[s].role \/ v.role = NoRole
                  /\ table[s].role = NoRole => v = table[s]
                  /\ role # NoRole /\ s # except /\ v.year = y => v.role # role
  BY DEF TakeRole, Row, Roles, NoRole

LEMMA DeactivateRows ==
  ASSUME NEW table \in [Scenario -> Row], NEW y
  PROVE  /\ DeactivateCurrent(table, y) \in [Scenario -> Row]
         /\ \A s \in Scenario :
              LET v == DeactivateCurrent(table, y)[s]
              IN  /\ v.year = table[s].year /\ v.through = table[s].through
                  /\ v.role = table[s].role /\ v.locked = table[s].locked
                  /\ v.previous = table[s].previous
                  /\ v.active = (table[s].active /\ table[s].year # y)
                  /\ ~table[s].active => v = table[s]
  BY DEF DeactivateCurrent, Row

LEMMA LockedRows ==
  ASSUME TypeOK, NEW locking \in SUBSET Scenario
  PROVE  /\ LockRows(locking) \in [Scenario -> Row]
         /\ KeepActuals(locking) \in [Scenario -> [Months -> Contents]]
         /\ \A s \in Scenario :
              LET v == LockRows(locking)[s]
              IN  /\ v.year = version[s].year /\ v.through = version[s].through
                  /\ v.role = version[s].role /\ v.previous = version[s].previous
                  /\ v.active <=> version[s].active /\ s \notin locking
                  /\ v.locked <=> version[s].locked \/ s \in locking
                  /\ s \notin locking => v = version[s]
         /\ \A s \in Scenario \ locking : KeepActuals(locking)[s] = frozen[s]
         /\ \A s \in locking, m \in Months :
              KeepActuals(locking)[s][m] # NoRows => m \in ActualMonths(version[s])
<1>1. \A s \in Scenario : Snapshot(version[s]) \in [Months -> Contents]
  BY ContentsAssumption DEF Snapshot, TypeOK
<1>2. /\ KeepActuals(locking) \in [Scenario -> [Months -> Contents]]
      /\ \A s \in Scenario \ locking : KeepActuals(locking)[s] = frozen[s]
      /\ \A s \in locking : KeepActuals(locking)[s] = Snapshot(version[s])
  BY <1>1 DEF KeepActuals, TypeOK
<1>3. \A s \in locking, m \in Months :
        KeepActuals(locking)[s][m] # NoRows => m \in ActualMonths(version[s])
  BY <1>2 DEF Snapshot
<1>4. /\ LockRows(locking) \in [Scenario -> Row]
      /\ \A s \in Scenario \ locking : LockRows(locking)[s] = version[s]
      /\ \A s \in locking :
           LockRows(locking)[s] = [version[s] EXCEPT !.locked = TRUE, !.active = FALSE]
  BY DEF LockRows, TypeOK, Row
<1>5. \A s \in Scenario : version[s] \in Row
  BY DEF TypeOK
<1>6. ASSUME NEW s \in Scenario
      PROVE  LET v == LockRows(locking)[s]
             IN  /\ v.year = version[s].year /\ v.through = version[s].through
                 /\ v.role = version[s].role /\ v.previous = version[s].previous
                 /\ v.active <=> version[s].active /\ s \notin locking
                 /\ v.locked <=> version[s].locked \/ s \in locking
                 /\ s \notin locking => v = version[s]
  <2>1. CASE s \in locking
    <3>. DEFINE w == LockRows(locking)[s]
    <3>1. w = [version[s] EXCEPT !.locked = TRUE, !.active = FALSE]
      BY <1>4, <2>1
    <3>2. version[s] \in Row
      BY <1>5
    <3>. HIDE DEF w
    <3>3. /\ w.year = version[s].year /\ w.through = version[s].through
          /\ w.role = version[s].role /\ w.previous = version[s].previous
          /\ w.active = FALSE /\ w.locked = TRUE
      BY <3>1, <3>2 DEF Row
    <3>. QED BY <2>1, <3>3 DEF w
  <2>2. CASE s \notin locking
    BY <1>4, <1>5, <2>2 DEF Row
  <2>. QED BY <2>1, <2>2
<1>. QED BY <1>2, <1>3, <1>4, <1>6

\* A month of a year in use is a month, and never NoMonth.
LEMMA FiscalMonthsAreMonths ==
  ASSUME NEW y \in Years
  PROVE  FiscalMonths(y) \subseteq Months /\ FiscalMonths(y) \subseteq Nat \ {0}
  BY YearsAssumption, MonthsAssumption DEF Months, FiscalMonths

\* An empty database satisfies the invariant.
THEOREM InitInv == Init => Inv
<1>. SUFFICES ASSUME Init PROVE Inv OBVIOUS
<1>1. NoFacts \in [Months -> Contents]
  BY ContentsAssumption DEF NoFacts
<1>2. Absent \in Row
  BY DEF Absent, Row
<1>3. TypeOK BY <1>1, <1>2 DEF Init, TypeOK, NothingChanging
<1>4. OneActivePerYear /\ OneHolderPerAlias /\ PreviousInYear
  BY DEF Init, OneActivePerYear, OneHolderPerAlias, PreviousInYear, Absent
<1>5. KeptActualsMatchVersion
  BY DEF Init, KeptActualsMatchVersion, NoFacts
<1>. QED BY <1>3, <1>4, <1>5 DEF Inv

LEMMA CreateInv ==
  ASSUME Inv, NEW s \in Scenario, NEW y \in Years, NEW role \in Roles \union {NoRole},
         NEW through \in FiscalMonths(y) \union {NoMonth},
         NEW previous \in Scenario \union {NoScenario},
         Create(s, y, role, through, previous)
  PROVE  Inv'
<1>. USE DEF Inv
<1>. DEFINE table == TakeRole(version, y, role, NoScenario)
            row == [Absent EXCEPT !.year = y, !.role = role,
                      !.through = through, !.previous = previous]
<1>1. /\ row \in Row /\ row.year = y /\ row.role = role /\ row.through = through
      /\ row.previous = previous /\ ~row.active /\ ~row.locked
  BY FiscalMonthsAreMonths DEF Row, Absent
<1>2. /\ table \in [Scenario -> Row]
      /\ \A t \in Scenario :
           /\ table[t].year = version[t].year /\ table[t].through = version[t].through
           /\ table[t].active = version[t].active /\ table[t].locked = version[t].locked
           /\ table[t].previous = version[t].previous
           /\ table[t].role = version[t].role \/ table[t].role = NoRole
           /\ version[t].role = NoRole => table[t] = version[t]
           /\ role # NoRole /\ table[t].year = y => table[t].role # role
  BY TakeRoleRows, ScenarioAssumption DEF TypeOK
<1>. HIDE DEF table, row
<1>3. /\ version' = [table EXCEPT ![s] = row]
      /\ facts' = facts /\ frozen' = frozen /\ closed' = closed
      /\ changing' = changing
  BY DEF Create, table, row
<1>4. /\ version' \in [Scenario -> Row] /\ version'[s] = row
      /\ \A t \in Scenario \ {s} : version'[t] = table[t]
  BY <1>1, <1>2, <1>3
<1>5. version[s] = Absent /\ ValidPrevious(s, y, previous)
  BY DEF Create, Exists
<1>6. TypeOK'
  <2>1. \A t \in Scenario : version'[t].year = 0 => version'[t] = Absent
    BY <1>1, <1>2, <1>4, YearsAssumption DEF TypeOK, Absent
  <2>. QED BY <1>3, <1>4, <2>1 DEF TypeOK
<1>7. OneActivePerYear' BY <1>1, <1>2, <1>4 DEF OneActivePerYear
<1>8. OneHolderPerAlias' BY <1>1, <1>2, <1>4 DEF OneHolderPerAlias
<1>9. KeptActualsMatchVersion'
  BY <1>1, <1>2, <1>3, <1>4, <1>5 DEF KeptActualsMatchVersion, ActualMonths, Absent
<1>10. PreviousInYear'
  <2>1. \A t \in Scenario \ {s} : version[t].previous # s
    BY <1>5, YearsAssumption, ScenarioAssumption DEF PreviousInYear, TypeOK, Absent
  <2>. QED BY <1>1, <1>2, <1>4, <1>5, <2>1 DEF PreviousInYear, ValidPrevious, Row
<1>. QED BY <1>6, <1>7, <1>8, <1>9, <1>10

LEMMA UpdateInv ==
  ASSUME Inv, NEW s \in Scenario, NEW role \in Roles \union {NoRole},
         NEW through \in Months \union {NoMonth},
         NEW previous \in Scenario \union {NoScenario},
         Update(s, role, through, previous)
  PROVE  Inv'
<1>. USE DEF Inv
<1>. DEFINE y == version[s].year
            table == TakeRole(version, y, role, s)
            row == [table[s] EXCEPT !.role = role, !.through = through, !.previous = previous]
<1>1. /\ table \in [Scenario -> Row]
      /\ \A t \in Scenario :
           /\ table[t].year = version[t].year /\ table[t].through = version[t].through
           /\ table[t].active = version[t].active /\ table[t].locked = version[t].locked
           /\ table[t].previous = version[t].previous
           /\ table[t].role = version[t].role \/ table[t].role = NoRole
           /\ version[t].role = NoRole => table[t] = version[t]
           /\ role # NoRole /\ t # s /\ table[t].year = y => table[t].role # role
  BY TakeRoleRows DEF TypeOK
<1>2. /\ row \in Row /\ row.year = y /\ row.role = role /\ row.through = through
      /\ row.previous = previous
      /\ row.active = version[s].active /\ row.locked = version[s].locked
  BY <1>1 DEF Row
<1>. HIDE DEF table, row
<1>3. /\ version' = [table EXCEPT ![s] = row]
      /\ facts' = facts /\ frozen' = frozen /\ closed' = closed
      /\ changing' = changing
  BY DEF Update, table, row
<1>4. /\ version' \in [Scenario -> Row] /\ version'[s] = row
      /\ \A t \in Scenario \ {s} : version'[t] = table[t]
  BY <1>1, <1>2, <1>3
<1>5. /\ version[s] # Absent /\ ValidPrevious(s, y, previous)
      /\ version[s].locked => through = version[s].through
  BY DEF Update, Exists
<1>6. TypeOK'
  <2>1. \A t \in Scenario : version'[t].year = 0 => version'[t] = Absent
    BY <1>1, <1>2, <1>4, <1>5 DEF TypeOK, Absent
  <2>. QED BY <1>3, <1>4, <2>1 DEF TypeOK
<1>7. OneActivePerYear' BY <1>1, <1>2, <1>4 DEF OneActivePerYear
<1>8. OneHolderPerAlias' BY <1>1, <1>2, <1>4 DEF OneHolderPerAlias
<1>9. KeptActualsMatchVersion'
  BY <1>1, <1>2, <1>3, <1>4, <1>5 DEF KeptActualsMatchVersion, ActualMonths
<1>10. PreviousInYear'
  BY <1>1, <1>2, <1>4, <1>5 DEF PreviousInYear, ValidPrevious, Row
<1>. QED BY <1>6, <1>7, <1>8, <1>9, <1>10

LEMMA ActivateInv ==
  ASSUME Inv, NEW s \in Scenario, Activate(s)
  PROVE  Inv'
<1>. USE DEF Inv
<1>. DEFINE y == version[s].year
            table == DeactivateCurrent(version, y)
            row == [table[s] EXCEPT !.active = TRUE]
<1>1. /\ table \in [Scenario -> Row]
      /\ \A t \in Scenario :
           /\ table[t].year = version[t].year /\ table[t].through = version[t].through
           /\ table[t].role = version[t].role /\ table[t].locked = version[t].locked
           /\ table[t].previous = version[t].previous
           /\ table[t].active = (version[t].active /\ version[t].year # y)
           /\ ~version[t].active => table[t] = version[t]
  BY DeactivateRows DEF TypeOK
<1>2. /\ row \in Row /\ row.year = y /\ row.role = version[s].role
      /\ row.through = version[s].through /\ row.previous = version[s].previous
      /\ row.active /\ row.locked = version[s].locked
  BY <1>1 DEF Row
<1>. HIDE DEF table, row
<1>3. /\ version' = [table EXCEPT ![s] = row]
      /\ facts' = facts /\ frozen' = frozen /\ closed' = closed
      /\ changing' = changing
  BY DEF Activate, table, row
<1>4. /\ version' \in [Scenario -> Row] /\ version'[s] = row
      /\ \A t \in Scenario \ {s} : version'[t] = table[t]
  BY <1>1, <1>2, <1>3
<1>5. version[s] # Absent /\ ~version[s].locked
  BY DEF Activate, Exists
<1>6. TypeOK'
  <2>1. \A t \in Scenario : version'[t].year = 0 => version'[t] = Absent
    BY <1>1, <1>2, <1>4, <1>5 DEF TypeOK, Absent
  <2>. QED BY <1>3, <1>4, <2>1 DEF TypeOK
<1>7. OneActivePerYear' BY <1>1, <1>2, <1>4, <1>5 DEF OneActivePerYear
<1>8. OneHolderPerAlias' BY <1>1, <1>2, <1>4 DEF OneHolderPerAlias
<1>9. KeptActualsMatchVersion'
  BY <1>1, <1>2, <1>3, <1>4 DEF KeptActualsMatchVersion, ActualMonths
<1>10. PreviousInYear'
  <2>1. \A t \in Scenario : version[t].previous # NoScenario =>
          version[t].previous \in Scenario
    BY DEF TypeOK, Row
  <2>. QED BY <1>1, <1>2, <1>4, <2>1 DEF PreviousInYear
<1>. QED BY <1>6, <1>7, <1>8, <1>9, <1>10

\* Lock and CloseYear: some versions that exist are locked.
LEMMA LockingInv ==
  ASSUME Inv, NEW locking \in SUBSET Scenario,
         \A s \in locking : Exists(s) /\ ~version[s].locked,
         version' = LockRows(locking), frozen' = KeepActuals(locking),
         facts' = facts, closed' \subseteq Years, changing' = changing
  PROVE  Inv'
<1>. USE DEF Inv
<1>1. /\ version' \in [Scenario -> Row]
      /\ frozen' \in [Scenario -> [Months -> Contents]]
      /\ \A t \in Scenario :
           /\ version'[t].year = version[t].year /\ version'[t].through = version[t].through
           /\ version'[t].role = version[t].role
           /\ version'[t].previous = version[t].previous
           /\ version'[t].active <=> version[t].active /\ t \notin locking
           /\ version'[t].locked <=> version[t].locked \/ t \in locking
           /\ t \notin locking => version'[t] = version[t]
      /\ \A t \in Scenario \ locking : frozen'[t] = frozen[t]
      /\ \A t \in locking, m \in Months :
           frozen'[t][m] # NoRows => m \in ActualMonths(version[t])
  BY LockedRows
<1>2. TypeOK'
  <2>1. \A t \in Scenario : version'[t].year = 0 => version'[t] = Absent
    BY <1>1 DEF TypeOK, Exists
  <2>2. facts' \in [Months -> Contents] /\ closed' \subseteq Years
    BY DEF TypeOK
  <2>. QED BY <1>1, <2>1, <2>2 DEF TypeOK
<1>3. OneActivePerYear' BY <1>1 DEF OneActivePerYear
<1>4. OneHolderPerAlias' BY <1>1 DEF OneHolderPerAlias
<1>5. KeptActualsMatchVersion'
  BY <1>1 DEF KeptActualsMatchVersion, ActualMonths
<1>6. PreviousInYear' BY <1>1 DEF PreviousInYear, TypeOK, Row
<1>. QED BY <1>2, <1>3, <1>4, <1>5, <1>6

LEMMA UnlockInv ==
  ASSUME Inv, NEW s \in Scenario, Unlock(s)
  PROVE  Inv'
<1>. USE DEF Inv
<1>. DEFINE row == [version[s] EXCEPT !.locked = FALSE]
<1>1. /\ row \in Row /\ row.year = version[s].year /\ row.role = version[s].role
      /\ row.through = version[s].through /\ row.previous = version[s].previous
      /\ row.active = version[s].active /\ ~row.locked
  BY DEF TypeOK, Row
<1>2. version' = [version EXCEPT ![s] = row] /\ version[s].locked
  BY DEF Unlock
<1>. HIDE DEF row
<1>3. /\ frozen' \in [Scenario -> [Months -> Contents]] /\ frozen'[s] = NoFacts
      /\ \A t \in Scenario \ {s} : frozen'[t] = frozen[t]
      /\ facts' = facts /\ closed' = closed /\ changing' = changing
  BY ContentsAssumption DEF Unlock, TypeOK, NoFacts
<1>4. /\ version' \in [Scenario -> Row] /\ version'[s] = row
      /\ \A t \in Scenario \ {s} : version'[t] = version[t]
  BY <1>1, <1>2 DEF TypeOK
<1>5. TypeOK'
  <2>1. \A t \in Scenario : version'[t].year = 0 => version'[t] = Absent
    <3>1. version[s] # Absent
      BY <1>2 DEF Absent
    <3>. QED BY <1>1, <1>4, <3>1 DEF TypeOK
  <2>. QED BY <1>3, <1>4, <2>1 DEF TypeOK
<1>6. OneActivePerYear' BY <1>1, <1>2, <1>4 DEF OneActivePerYear
<1>7. OneHolderPerAlias' BY <1>1, <1>4 DEF OneHolderPerAlias
<1>8. KeptActualsMatchVersion'
  BY <1>1, <1>3, <1>4 DEF KeptActualsMatchVersion, ActualMonths, NoFacts
<1>9. PreviousInYear' BY <1>1, <1>4 DEF PreviousInYear, TypeOK, Row
<1>. QED BY <1>5, <1>6, <1>7, <1>8, <1>9

\* A table to which runCycle adds a version: the row of the new version, and
\* what the other rows keep.  The steps StartMonthly and StartFiscalYear share it.
LEMMA CycleRows ==
  ASSUME NEW table \in [Scenario -> Row], NEW s \in Scenario, NEW y \in Years,
         NEW role \in Roles, NEW row \in Row, row.year = y, row.role = role,
         ~row.locked
  PROVE  LET result == RunCycle(table, s, row) IN
         /\ result \in [Scenario -> Row]
         /\ result[s].year = y /\ result[s].role = role /\ result[s].active
         /\ result[s].through = row.through /\ result[s].previous = row.previous
         /\ ~result[s].locked
         /\ \A t \in Scenario \ {s} :
              /\ result[t].year = table[t].year /\ result[t].through = table[t].through
              /\ result[t].locked = table[t].locked
              /\ result[t].previous = table[t].previous
              /\ result[t].active <=> table[t].active /\ table[t].year # y
              /\ result[t].role = table[t].role \/ result[t].role = NoRole
              /\ result[t].year = y => result[t].role # role
              /\ table[t].role = NoRole /\ ~table[t].active => result[t] = table[t]
<1>. DEFINE result == RunCycle(table, s, row)
            taken == TakeRole(table, y, role, NoScenario)
            created == [taken EXCEPT ![s] = row]
            deactivated == DeactivateCurrent(created, y)
<1>1. /\ taken \in [Scenario -> Row]
      /\ \A t \in Scenario :
           /\ taken[t].year = table[t].year /\ taken[t].through = table[t].through
           /\ taken[t].active = table[t].active /\ taken[t].locked = table[t].locked
           /\ taken[t].previous = table[t].previous
           /\ taken[t].role = table[t].role \/ taken[t].role = NoRole
           /\ table[t].role = NoRole => taken[t] = table[t]
           /\ taken[t].year = y => taken[t].role # role
  BY TakeRoleRows, ScenarioAssumption DEF Roles, NoRole
<1>. HIDE DEF taken
<1>2. /\ created \in [Scenario -> Row] /\ created[s] = row
      /\ \A t \in Scenario \ {s} : created[t] = taken[t]
  BY <1>1
<1>. HIDE DEF created
<1>3. /\ deactivated \in [Scenario -> Row]
      /\ \A t \in Scenario :
           /\ deactivated[t].year = created[t].year
           /\ deactivated[t].through = created[t].through
           /\ deactivated[t].role = created[t].role
           /\ deactivated[t].locked = created[t].locked
           /\ deactivated[t].previous = created[t].previous
           /\ deactivated[t].active = (created[t].active /\ created[t].year # y)
           /\ ~created[t].active => deactivated[t] = created[t]
  BY <1>2, DeactivateRows
<1>. HIDE DEF deactivated
<1>4. result = [deactivated EXCEPT ![s].active = TRUE]
  BY DEF RunCycle, deactivated, created, taken
<1>. HIDE DEF result
<1>5. ASSUME NEW v, v = [deactivated[s] EXCEPT !.active = TRUE]
      PROVE  /\ v \in Row /\ v.year = y /\ v.role = role /\ v.active
             /\ v.through = row.through /\ v.previous = row.previous /\ ~v.locked
  BY <1>2, <1>3, <1>5 DEF Row
<1>6. /\ result \in [Scenario -> Row]
      /\ result[s] = [deactivated[s] EXCEPT !.active = TRUE]
      /\ \A t \in Scenario \ {s} : result[t] = deactivated[t]
  BY <1>3, <1>4, <1>5 DEF Row
<1>7. /\ result[s].year = y /\ result[s].role = role /\ result[s].active
      /\ result[s].through = row.through /\ result[s].previous = row.previous
      /\ ~result[s].locked
  BY <1>5, <1>6
<1>8. ASSUME NEW t \in Scenario \ {s}
      PROVE  /\ result[t].year = table[t].year /\ result[t].through = table[t].through
             /\ result[t].locked = table[t].locked
             /\ result[t].previous = table[t].previous
             /\ result[t].active <=> table[t].active /\ table[t].year # y
             /\ result[t].role = table[t].role \/ result[t].role = NoRole
             /\ result[t].year = y => result[t].role # role
             /\ table[t].role = NoRole /\ ~table[t].active => result[t] = table[t]
  <2>1. result[t] = deactivated[t] /\ created[t] = taken[t]
    BY <1>2, <1>6
  <2>2. /\ result[t].year = table[t].year /\ result[t].through = table[t].through
        /\ result[t].role = taken[t].role /\ result[t].locked = table[t].locked
        /\ result[t].previous = table[t].previous
    BY <1>1, <1>3, <2>1
  <2>3. result[t].active = (table[t].active /\ table[t].year # y)
    BY <1>1, <1>3, <2>1
  <2>4. table[t].role = NoRole /\ ~table[t].active => result[t] = table[t]
    BY <1>1, <1>3, <2>1
  <2>5. result[t].year = y => result[t].role # role
    BY <1>1, <2>2
  <2>6. result[t].role = table[t].role \/ result[t].role = NoRole
    BY <1>1, <2>2
  <2>. QED BY <2>2, <2>3, <2>4, <2>5, <2>6
<1>. QED BY <1>6, <1>7, <1>8 DEF result

\* A version of a year that is active or holds an alias has been inserted.
LEMMA BaseExists ==
  ASSUME Inv, NEW y \in Years, NEW base \in MonthlyBase(y)
  PROVE  /\ base \in Scenario /\ version[base].year = y /\ version[base] # Absent
         /\ version[base].active \/ ActiveOf(y) = {}
  BY YearsAssumption DEF MonthlyBase, ActiveOf, HolderOf, Absent, Inv

LEMMA StartMonthlyInv ==
  ASSUME Inv, NEW s \in Scenario, NEW y \in Years, NEW through \in FiscalMonths(y),
         StartMonthly(s, y, through)
  PROVE  Inv'
<1>. USE DEF Inv
<1>1. PICK base \in MonthlyBase(y) :
        LET locking == IF version[base].locked THEN {} ELSE {base}
            row == [Absent EXCEPT !.year = y, !.role = "latest",
                      !.through = through, !.previous = base]
        IN  /\ version' = RunCycle(LockRows(locking), s, row)
            /\ frozen' = KeepActuals(locking)
  BY DEF StartMonthly
<1>. DEFINE locking == IF version[base].locked THEN {} ELSE {base}
            table == LockRows(locking)
            row == [Absent EXCEPT !.year = y, !.role = "latest",
                      !.through = through, !.previous = base]
<1>2. /\ base \in Scenario /\ version[base].year = y /\ base # s
      /\ version[s] = Absent /\ facts' = facts /\ closed' = closed
      /\ changing' = changing
  BY BaseExists DEF StartMonthly, Exists
<1>3. /\ row \in Row /\ row.year = y /\ row.role = "latest" /\ row.through = through
      /\ row.previous = base /\ ~row.locked
  BY <1>2, FiscalMonthsAreMonths DEF Row, Absent, Roles
<1>4. /\ version' = RunCycle(table, s, row)
      /\ frozen' = KeepActuals(locking)
  BY <1>1
<1>5. locking \in SUBSET Scenario /\ s \notin locking
  BY <1>2
<1>. HIDE DEF locking, row
<1>6. /\ table \in [Scenario -> Row]
      /\ frozen' \in [Scenario -> [Months -> Contents]]
      /\ \A t \in Scenario :
           /\ table[t].year = version[t].year /\ table[t].through = version[t].through
           /\ table[t].role = version[t].role /\ table[t].previous = version[t].previous
           /\ table[t].active <=> version[t].active /\ t \notin locking
           /\ table[t].locked <=> version[t].locked \/ t \in locking
           /\ t \notin locking => table[t] = version[t]
      /\ \A t \in Scenario \ locking : frozen'[t] = frozen[t]
      /\ \A t \in locking, m \in Months :
           frozen'[t][m] # NoRows => m \in ActualMonths(version[t])
  BY <1>4, <1>5, LockedRows
<1>. HIDE DEF table
<1>7. /\ version' \in [Scenario -> Row]
      /\ version'[s].year = y /\ version'[s].role = "latest" /\ version'[s].active
      /\ version'[s].previous = base /\ ~version'[s].locked
      /\ \A t \in Scenario \ {s} :
           /\ version'[t].year = table[t].year /\ version'[t].through = table[t].through
           /\ version'[t].locked = table[t].locked
           /\ version'[t].previous = table[t].previous
           /\ version'[t].active <=> table[t].active /\ table[t].year # y
           /\ version'[t].role = table[t].role \/ version'[t].role = NoRole
           /\ version'[t].year = y => version'[t].role # "latest"
           /\ table[t].role = NoRole /\ ~table[t].active => version'[t] = table[t]
  BY <1>3, <1>4, <1>6, CycleRows DEF Roles
<1>8. TypeOK'
  <2>1. ASSUME NEW t \in Scenario, version'[t].year = 0
        PROVE  version'[t] = Absent
    <3>1. t # s /\ version[t] = Absent
      BY <1>6, <1>7, <2>1, YearsAssumption DEF TypeOK
    <3>2. t \notin locking
      BY <1>2, <3>1, YearsAssumption DEF locking, Absent
    <3>. QED BY <1>6, <1>7, <3>1, <3>2 DEF Absent
  <2>. QED BY <1>2, <1>6, <1>7, <2>1 DEF TypeOK
<1>9. OneActivePerYear'
  <2>1. ASSUME NEW t \in Scenario, version'[t].active
        PROVE  ~version'[t].locked /\ (t = s \/ version'[t].year # y)
    BY <1>6, <1>7, <2>1 DEF OneActivePerYear
  <2>2. \A t \in Scenario \ {s} :
          /\ version'[t].active => version[t].active
          /\ version'[t].year = version[t].year
    BY <1>6, <1>7
  <2>. QED BY <1>7, <2>1, <2>2 DEF OneActivePerYear
<1>10. OneHolderPerAlias'
  BY <1>6, <1>7 DEF OneHolderPerAlias
<1>11. KeptActualsMatchVersion'
  BY <1>2, <1>5, <1>6, <1>7 DEF KeptActualsMatchVersion, ActualMonths, Absent
<1>12. PreviousInYear'
  <2>1. \A t \in Scenario \ {s} : version[t].previous # s
    BY <1>2, YearsAssumption, ScenarioAssumption DEF PreviousInYear, TypeOK, Absent
  <2>2. \A t \in Scenario \ {s} :
          version'[t].previous = version[t].previous /\ version'[t].year = version[t].year
    BY <1>6, <1>7
  <2>3. \A t \in Scenario : version[t].previous \in Scenario \union {NoScenario}
    BY DEF TypeOK, Row
  <2>. QED BY <1>2, <1>7, <2>1, <2>2, <2>3 DEF PreviousInYear
<1>. QED BY <1>8, <1>9, <1>10, <1>11, <1>12

LEMMA StartFiscalYearInv ==
  ASSUME Inv, NEW s \in Scenario, NEW y \in Years, NEW fromCurrent \in BOOLEAN,
         StartFiscalYear(s, y, fromCurrent)
  PROVE  Inv'
<1>. USE DEF Inv
<1>. DEFINE row == [Absent EXCEPT !.year = y, !.role = "initial"]
<1>1. /\ row \in Row /\ row.year = y /\ row.role = "initial"
      /\ row.previous = NoScenario /\ ~row.locked
  BY DEF Row, Absent, Roles
<1>2. /\ version' = RunCycle(version, s, row)
      /\ version[s] = Absent
      /\ facts' = facts /\ frozen' = frozen /\ closed' = closed
      /\ changing' = changing
  BY DEF StartFiscalYear, Exists
<1>. HIDE DEF row
<1>3. /\ version' \in [Scenario -> Row]
      /\ version'[s].year = y /\ version'[s].role = "initial" /\ version'[s].active
      /\ version'[s].previous = NoScenario /\ ~version'[s].locked
      /\ \A t \in Scenario \ {s} :
           /\ version'[t].year = version[t].year
           /\ version'[t].through = version[t].through
           /\ version'[t].locked = version[t].locked
           /\ version'[t].previous = version[t].previous
           /\ version'[t].active <=> version[t].active /\ version[t].year # y
           /\ version'[t].role = version[t].role \/ version'[t].role = NoRole
           /\ version'[t].year = y => version'[t].role # "initial"
           /\ version[t].role = NoRole /\ ~version[t].active => version'[t] = version[t]
  BY <1>1, <1>2, CycleRows DEF TypeOK, Roles
<1>4. TypeOK'
  <2>1. ASSUME NEW t \in Scenario, version'[t].year = 0
        PROVE  version'[t] = Absent
    <3>1. t # s /\ version[t] = Absent
      BY <1>3, <2>1, YearsAssumption DEF TypeOK
    <3>. QED BY <1>3, <3>1 DEF Absent
  <2>. QED BY <1>2, <1>3, <2>1 DEF TypeOK
<1>5. OneActivePerYear' BY <1>3 DEF OneActivePerYear
<1>6. OneHolderPerAlias' BY <1>3 DEF OneHolderPerAlias
<1>7. KeptActualsMatchVersion'
  BY <1>2, <1>3 DEF KeptActualsMatchVersion, ActualMonths, Absent
<1>8. PreviousInYear'
  <2>1. \A t \in Scenario \ {s} : version[t].previous # s
    BY <1>2, YearsAssumption, ScenarioAssumption DEF PreviousInYear, TypeOK, Absent
  <2>. QED BY <1>3, <2>1 DEF PreviousInYear, TypeOK, Row
<1>. QED BY <1>4, <1>5, <1>6, <1>7, <1>8

LEMMA ActualsInv ==
  ASSUME Inv,
         \/ \E c \in Call : ChangeActuals(c)
         \/ \E s \in Scenario : RefreshActuals(s)
  PROVE  Inv'
<1>. USE DEF Inv
<1>1. version' = version /\ closed' = closed
  BY DEF ChangeActuals, BeginChange, CommitChange, RollBackChange, RefreshActuals
<1>2. /\ facts' \in [Months -> Contents]
      /\ frozen' \in [Scenario -> [Months -> Contents]]
      /\ \A s \in Scenario, m \in Months : frozen'[s][m] # NoRows =>
           \/ frozen'[s] = frozen[s]
           \/ version[s].locked /\ m \in ActualMonths(version[s])
  <2>1. CASE \E c \in Call : ChangeActuals(c)
    BY <2>1 DEF ChangeActuals, BeginChange, CommitChange, RollBackChange, TypeOK
  <2>2. CASE \E s \in Scenario : RefreshActuals(s)
    <3>1. PICK s \in Scenario : RefreshActuals(s)
      BY <2>2
    <3>2. Snapshot(version[s]) \in [Months -> Contents]
      BY ContentsAssumption DEF Snapshot, TypeOK
    <3>3. \A m \in Months : Snapshot(version[s])[m] # NoRows =>
            m \in ActualMonths(version[s])
      BY DEF Snapshot
    <3>. QED BY <3>1, <3>2, <3>3 DEF RefreshActuals, TypeOK
  <2>. QED BY <2>1, <2>2
<1>3. KeptActualsMatchVersion'
  BY <1>1, <1>2 DEF KeptActualsMatchVersion, ActualMonths
<1>4. changing' \in [Call -> SUBSET Months]
  BY DEF ChangeActuals, BeginChange, CommitChange, RollBackChange, RefreshActuals, TypeOK
<1>. QED
  BY <1>1, <1>2, <1>3, <1>4 DEF TypeOK, OneActivePerYear, OneHolderPerAlias, PreviousInYear

\* Every call of the API keeps the invariant.
THEOREM NextInv == Inv /\ [Next]_vars => Inv'
<1>. SUFFICES ASSUME Inv, [Next]_vars PROVE Inv' OBVIOUS
<1>1. ASSUME NEW s \in Scenario, NEW y \in Years, NEW role \in Roles \union {NoRole},
             NEW through \in FiscalMonths(y) \union {NoMonth},
             NEW previous \in Scenario \union {NoScenario},
             Create(s, y, role, through, previous)
      PROVE  Inv'
  BY <1>1, CreateInv
<1>2. ASSUME NEW s \in Scenario, NEW y \in Years, NEW through \in FiscalMonths(y),
             StartMonthly(s, y, through)
      PROVE  Inv'
  BY <1>2, StartMonthlyInv
<1>3. ASSUME NEW s \in Scenario, NEW y \in Years, NEW fromCurrent \in BOOLEAN,
             StartFiscalYear(s, y, fromCurrent)
      PROVE  Inv'
  BY <1>3, StartFiscalYearInv
<1>4. ASSUME NEW s \in Scenario, NEW role \in Roles \union {NoRole},
             NEW through \in Months \union {NoMonth},
             NEW previous \in Scenario \union {NoScenario},
             Update(s, role, through, previous)
      PROVE  Inv'
  BY <1>4, UpdateInv
<1>5. ASSUME NEW s \in Scenario, Activate(s) PROVE Inv'
  BY <1>5, ActivateInv
<1>6. ASSUME NEW s \in Scenario, Lock(s) PROVE Inv'
  <2>1. closed \subseteq Years BY DEF Inv, TypeOK
  <2>2. \A t \in {s} : Exists(t) /\ ~version[t].locked BY <1>6 DEF Lock
  <2>3. /\ version' = LockRows({s}) /\ frozen' = KeepActuals({s})
        /\ facts' = facts /\ closed' = closed /\ changing' = changing
    BY <1>6 DEF Lock
  <2>. QED BY <2>1, <2>2, <2>3, LockingInv
<1>7. ASSUME NEW s \in Scenario, Unlock(s) PROVE Inv'
  BY <1>7, UnlockInv
<1>8. ASSUME NEW y \in Years, CloseYear(y) PROVE Inv'
  <2>. DEFINE closing == {s \in ActiveOf(y) : ~version[s].locked}
  <2>1. closed' \subseteq Years BY <1>8 DEF CloseYear, Inv, TypeOK
  <2>2. closing \in SUBSET Scenario BY DEF ActiveOf
  <2>3. \A t \in closing : Exists(t) /\ ~version[t].locked
    BY YearsAssumption DEF ActiveOf, Exists, Absent
  <2>4. /\ version' = LockRows(closing) /\ frozen' = KeepActuals(closing)
        /\ facts' = facts /\ changing' = changing
    BY <1>8 DEF CloseYear
  <2>. HIDE DEF closing
  <2>. QED BY <2>1, <2>2, <2>3, <2>4, LockingInv
<1>9. ASSUME NEW y \in Years, ReopenYear(y) PROVE Inv'
  BY <1>9 DEF ReopenYear, Inv, TypeOK, OneActivePerYear, OneHolderPerAlias,
              KeptActualsMatchVersion, ActualMonths, PreviousInYear
<1>10. ASSUME \/ \E c \in Call : ChangeActuals(c)
              \/ \E s \in Scenario : RefreshActuals(s)
       PROVE  Inv'
  BY <1>10, ActualsInv
<1>11. CASE UNCHANGED vars
  BY <1>11 DEF vars, Inv, TypeOK, OneActivePerYear, OneHolderPerAlias,
               KeptActualsMatchVersion, ActualMonths, PreviousInYear
<1>. QED
  BY <1>1, <1>2, <1>3, <1>4, <1>5, <1>6, <1>7, <1>8, <1>9, <1>10, <1>11 DEF Next

\* The inductive invariant: the conjunction of the five below.
THEOREM SpecInv == Spec => []Inv
  BY InitInv, NextInv, PTL DEF Spec

\* The rows of every table have their type, and a scenario that was never
\* inserted stays blank.
THEOREM TypeCorrect == Spec => []TypeOK
<1>1. Inv => TypeOK BY DEF Inv
<1>. QED BY <1>1, SpecInv, PTL

\* activate, the two switches, lock and close together: never two active
\* versions of a year, and never an active version that is locked.
THEOREM ActiveVersionUnique == Spec => []OneActivePerYear
<1>1. Inv => OneActivePerYear BY DEF Inv
<1>. QED BY <1>1, SpecInv, PTL

\* takeRole: never two holders of an alias in one year.
THEOREM AliasHolderUnique == Spec => []OneHolderPerAlias
<1>1. Inv => OneHolderPerAlias BY DEF Inv
<1>. QED BY <1>1, SpecInv, PTL

\* lockScenario, setLocked and refreshActuals: the actuals kept belong to a
\* locked version and to the months in which it shows actuals.
THEOREM KeptActualsOfLockedOnly == Spec => []KeptActualsMatchVersion
<1>1. Inv => KeptActualsMatchVersion BY DEF Inv
<1>. QED BY <1>1, SpecInv, PTL

\* checkPrevious: the previous forecast is another version of the same year.
THEOREM PreviousOfSameYear == Spec => []PreviousInYear
<1>1. Inv => PreviousInYear BY DEF Inv
<1>. QED BY <1>1, SpecInv, PTL

-----------------------------------------------------------------------------
\* What a step does to a version that is locked before and after it: either
\* its boundary and the rows it keeps stay as they are, or it is refreshed.
KeepsLocked(s) ==
  version[s].locked /\ version'[s].locked =>
    /\ version'[s].year = version[s].year /\ version'[s].through = version[s].through
    /\ frozen'[s] = frozen[s]

\* A row that the table operators were applied to is the row of the same
\* version: they touch neither its year nor its boundary.
LEMMA TableStepKeepsLocked ==
  ASSUME Inv, NEW s \in Scenario, NEW y \in Years, NEW t \in Scenario,
         \/ \E role \in Roles \union {NoRole}, through \in FiscalMonths(y) \union {NoMonth},
               previous \in Scenario \union {NoScenario} :
              Create(s, y, role, through, previous)
         \/ \E role \in Roles \union {NoRole}, through \in Months \union {NoMonth},
               previous \in Scenario \union {NoScenario} :
              Update(s, role, through, previous)
         \/ Activate(s)
  PROVE  KeepsLocked(t)
<1>. USE DEF KeepsLocked
<1>1. version \in [Scenario -> Row]
  BY DEF Inv, TypeOK
<1>2. ASSUME NEW role \in Roles \union {NoRole}, NEW through \in FiscalMonths(y) \union {NoMonth},
             NEW previous \in Scenario \union {NoScenario},
             Create(s, y, role, through, previous)
      PROVE  KeepsLocked(t)
  <2>1. version[s].locked = FALSE /\ frozen' = frozen
    <3>1. version[s] = Absent /\ frozen' = frozen
      BY <1>2 DEF Create, Exists
    <3>. QED BY <3>1 DEF Absent
  <2>2. t # s => version'[t] = TakeRole(version, y, role, NoScenario)[t]
    BY <1>1, <1>2, TakeRoleRows DEF Create
  <2>. QED BY <1>1, <2>1, <2>2, TakeRoleRows
<1>3. ASSUME NEW role \in Roles \union {NoRole}, NEW through \in Months \union {NoMonth},
             NEW previous \in Scenario \union {NoScenario},
             Update(s, role, through, previous)
      PROVE  KeepsLocked(t)
  <2>. DEFINE table == TakeRole(version, version[s].year, role, s)
              row == [table[s] EXCEPT !.role = role, !.through = through,
                                      !.previous = previous]
  <2>1. /\ table \in [Scenario -> Row]
        /\ \A u \in Scenario : /\ table[u].year = version[u].year
                               /\ table[u].through = version[u].through
    BY <1>1, TakeRoleRows
  <2>2. row.year = version[s].year /\ row.through = through
    BY <2>1 DEF Row
  <2>3. version' = [table EXCEPT ![s] = row]
    BY <1>3 DEF Update
  <2>. HIDE DEF table, row
  <2>. QED BY <1>3, <2>1, <2>2, <2>3 DEF Update
<1>4. CASE Activate(s)
  <2>1. t # s => version'[t] = DeactivateCurrent(version, version[s].year)[t]
    BY <1>1, <1>4, DeactivateRows DEF Activate
  <2>2. ~version[s].locked /\ frozen' = frozen
    BY <1>4 DEF Activate
  <2>. QED BY <1>1, <2>1, <2>2, DeactivateRows
<1>. QED BY <1>2, <1>3, <1>4

LEMMA LockingKeepsLocked ==
  ASSUME Inv, NEW locking \in SUBSET Scenario, NEW t \in Scenario,
         \A u \in locking : ~version[u].locked,
         version' = LockRows(locking), frozen' = KeepActuals(locking)
  PROVE  KeepsLocked(t)
  BY LockedRows DEF KeepsLocked, Inv

LEMMA CycleKeepsLocked ==
  ASSUME Inv, NEW s \in Scenario, NEW y \in Years, NEW t \in Scenario,
         \/ \E through \in FiscalMonths(y) : StartMonthly(s, y, through)
         \/ \E fromCurrent \in BOOLEAN : StartFiscalYear(s, y, fromCurrent)
  PROVE  KeepsLocked(t)
<1>1. version \in [Scenario -> Row]
  BY DEF Inv, TypeOK
<1>2. version[s].locked = FALSE
  <2>1. version[s] = Absent
    BY DEF StartMonthly, StartFiscalYear, Exists
  <2>. QED BY <2>1 DEF Absent
<1>3. ASSUME NEW through \in FiscalMonths(y), StartMonthly(s, y, through)
      PROVE  KeepsLocked(t)
  <2>1. PICK base \in MonthlyBase(y) :
          LET locking == IF version[base].locked THEN {} ELSE {base}
              row == [Absent EXCEPT !.year = y, !.role = "latest",
                        !.through = through, !.previous = base]
          IN  /\ version' = RunCycle(LockRows(locking), s, row)
              /\ frozen' = KeepActuals(locking)
    BY <1>3 DEF StartMonthly
  <2>. DEFINE locking == IF version[base].locked THEN {} ELSE {base}
              row == [Absent EXCEPT !.year = y, !.role = "latest",
                        !.through = through, !.previous = base]
  <2>2. base \in Scenario
    BY BaseExists
  <2>3. row \in Row /\ row.year = y /\ row.role = "latest" /\ ~row.locked
    BY <2>2, FiscalMonthsAreMonths DEF Row, Absent, Roles
  <2>4. version' = RunCycle(LockRows(locking), s, row) /\ frozen' = KeepActuals(locking)
    BY <2>1
  <2>5. locking \in SUBSET Scenario /\ (version[t].locked => t \notin locking)
    BY <2>2
  <2>. HIDE DEF locking, row
  <2>6. /\ LockRows(locking) \in [Scenario -> Row]
        /\ LockRows(locking)[t].year = version[t].year
        /\ LockRows(locking)[t].through = version[t].through
        /\ t \notin locking => KeepActuals(locking)[t] = frozen[t]
    BY <2>5, LockedRows DEF Inv
  <2>7. t # s => /\ version'[t].year = LockRows(locking)[t].year
                 /\ version'[t].through = LockRows(locking)[t].through
    BY <2>3, <2>4, <2>6, CycleRows DEF Roles
  <2>. QED BY <1>2, <2>4, <2>5, <2>6, <2>7 DEF KeepsLocked
<1>4. ASSUME NEW fromCurrent \in BOOLEAN, StartFiscalYear(s, y, fromCurrent)
      PROVE  KeepsLocked(t)
  <2>. DEFINE row == [Absent EXCEPT !.year = y, !.role = "initial"]
  <2>1. row \in Row /\ row.year = y /\ row.role = "initial" /\ ~row.locked
    BY DEF Row, Absent, Roles
  <2>2. version' = RunCycle(version, s, row) /\ frozen' = frozen
    BY <1>4 DEF StartFiscalYear
  <2>. HIDE DEF row
  <2>3. t # s => version'[t].year = version[t].year /\ version'[t].through = version[t].through
    BY <1>1, <2>1, <2>2, CycleRows DEF Roles
  <2>. QED BY <1>2, <2>2, <2>3 DEF KeepsLocked
<1>. QED BY <1>3, <1>4

\* The refresh copies today's actuals, and changes no other version.
LEMMA RefreshKeepsLocked ==
  ASSUME Inv, NEW s \in Scenario, RefreshActuals(s), NEW t \in Scenario
  PROVE  /\ version' = version /\ facts' = facts
         /\ t # s => frozen'[t] = frozen[t]
         /\ \A m \in ActualMonths(version[s]) : frozen'[s][m] = facts[m]
<1>1. version[s].year \in Years
  BY DEF RefreshActuals, Inv, TypeOK, Absent, Row
<1>2. ActualMonths(version[s]) \subseteq Months
  BY <1>1, FiscalMonthsAreMonths DEF ActualMonths
<1>3. frozen' = [frozen EXCEPT ![s] = Snapshot(version[s])]
  BY DEF RefreshActuals
<1>4. \A m \in ActualMonths(version[s]) : Snapshot(version[s])[m] = facts[m]
  BY <1>2 DEF Snapshot
<1>. QED BY <1>3, <1>4 DEF RefreshActuals, Inv, TypeOK

\* Every call but the refresh leaves a version that stays locked as it is.
LEMMA StepKeepsLocked ==
  ASSUME Inv, Next, NEW t \in Scenario, \A s \in Scenario : ~RefreshActuals(s)
  PROVE  KeepsLocked(t)
<1>1. ASSUME NEW s \in Scenario, NEW y \in Years,
             \/ \E role \in Roles \union {NoRole},
                   through \in FiscalMonths(y) \union {NoMonth},
                   previous \in Scenario \union {NoScenario} :
                  Create(s, y, role, through, previous)
             \/ \E through \in FiscalMonths(y) : StartMonthly(s, y, through)
             \/ \E fromCurrent \in BOOLEAN : StartFiscalYear(s, y, fromCurrent)
      PROVE  KeepsLocked(t)
  BY <1>1, TableStepKeepsLocked, CycleKeepsLocked
<1>2. ASSUME NEW s \in Scenario, Activate(s) \/
             \E role \in Roles \union {NoRole}, through \in Months \union {NoMonth},
                previous \in Scenario \union {NoScenario} :
               Update(s, role, through, previous)
      PROVE  KeepsLocked(t)
  <2>1. version[s].year \in Years
    BY <1>2 DEF Activate, Update, Exists, Inv, TypeOK, Row
  <2>. QED BY <1>2, <2>1, TableStepKeepsLocked
<1>3. ASSUME NEW s \in Scenario, Lock(s) PROVE KeepsLocked(t)
  <2>1. \A u \in {s} : ~version[u].locked BY <1>3 DEF Lock
  <2>2. version' = LockRows({s}) /\ frozen' = KeepActuals({s}) BY <1>3 DEF Lock
  <2>. QED BY <2>1, <2>2, LockingKeepsLocked
<1>4. ASSUME NEW s \in Scenario, Unlock(s) PROVE KeepsLocked(t)
  BY <1>4 DEF Unlock, KeepsLocked, Inv, TypeOK, Row
<1>5. ASSUME NEW y \in Years, CloseYear(y) PROVE KeepsLocked(t)
  <2>. DEFINE closing == {s \in ActiveOf(y) : ~version[s].locked}
  <2>1. closing \in SUBSET Scenario /\ \A u \in closing : ~version[u].locked
    BY DEF ActiveOf
  <2>2. version' = LockRows(closing) /\ frozen' = KeepActuals(closing)
    BY <1>5 DEF CloseYear
  <2>. HIDE DEF closing
  <2>. QED BY <2>1, <2>2, LockingKeepsLocked
<1>6. ASSUME \/ \E y \in Years : ReopenYear(y)
             \/ \E c \in Call : ChangeActuals(c)
      PROVE  KeepsLocked(t)
  BY <1>6 DEF ReopenYear, ChangeActuals, BeginChange, CommitChange, RollBackChange,
              KeepsLocked
<1>. QED BY <1>1, <1>2, <1>3, <1>4, <1>5, <1>6 DEF Next

\* The actuals a locked version shows are those it kept: nothing but the
\* refresh changes them, and the refresh makes them today's.
THEOREM LockedNumbersStayFrozen == Spec => LockedNumbersStay
<1>1. ASSUME NEW t \in Scenario, KeepsLocked(t)
      PROVE  KeepsReported(t)
  BY <1>1 DEF KeepsLocked, KeepsReported, Shown, ActualMonths
<1>2. ASSUME Inv, NEW s \in Scenario, RefreshActuals(s), NEW t \in Scenario
      PROVE  KeepsReported(t)
  <2>1. CASE t # s
    BY <1>1, <1>2, <2>1, RefreshKeepsLocked DEF KeepsLocked
  <2>2. CASE t = s
    BY <1>2, <2>2, RefreshKeepsLocked DEF KeepsReported, Drift, ActualMonths
  <2>. QED BY <2>1, <2>2
<1>3. ASSUME Inv, Next, NEW t \in Scenario
      PROVE  KeepsReported(t)
  BY <1>1, <1>2, <1>3, StepKeepsLocked
<1>4. Inv /\ [Next]_vars => [KeepsAllReported]_vars
  BY <1>3 DEF KeepsAllReported
<1>. QED BY <1>4, SpecInv, PTL DEF Spec, LockedNumbersStay

-----------------------------------------------------------------------------
(***************************************************************************)
(* What the calls of Scenarios do to whole fiscal years, for any number of *)
(* scenarios, years and months.                                            *)
(*                                                                         *)
(* First, that they implement YearSlots.  The mapping keeps three columns  *)
(* of the table.  A call changes them in one of four ways (Made, Entered,  *)
(* Fixed and UnlockStep below) or not at all (NoChange), each of which is  *)
(* a step of YearSlots; that closing a year locks at most one version, and *)
(* so is one such step, needs Inv.                                         *)
(*                                                                         *)
(* Then three action properties: closing a year ends its entry, a closed   *)
(* year stays in agreement with the actuals once the calls begun before    *)
(* the closing are over, and starting a version leaves the other years     *)
(* alone.  They rest on the same invariant: that an active version is not  *)
(* locked makes closing lock every active version, and that nothing but    *)
(* the refresh touches a locked version is what a closed year relies on.   *)
(*                                                                         *)
(* Last, the classification of the active versions: the loops of Versions  *)
(* find what the comment of the package says in every state of the life    *)
(* cycle, and the plan of a new year does not become the current forecast. *)
(* That the active versions can be put in order of their years needs that  *)
(* a year has one, and that finitely many exist (FewRows).                 *)
(***************************************************************************)

\* The columns that YearSlots speaks of stay as they are.
SameColumns ==
  /\ version' \in [Scenario -> Row]
  /\ \A t \in Scenario :
       /\ version'[t].year = version[t].year
       /\ version'[t].active = version[t].active
       /\ version'[t].locked = version[t].locked

LEMMA NoChange == ASSUME SameColumns PROVE UNCHANGED Slots!vars
  BY DEF SameColumns, Slots!vars

LEMMA Made ==
  ASSUME Inv, NEW s \in Scenario, NEW y \in Years, version[s].year = 0,
         version' \in [Scenario -> Row],
         \A t \in Scenario :
           /\ version'[t].year = IF t = s THEN y ELSE version[t].year
           /\ version'[t].active = version[t].active
           /\ version'[t].locked = version[t].locked
  PROVE  Slots!Make(s, y)
  BY DEF Slots!Make

\* A version takes the place of its year.
LEMMA Entered ==
  ASSUME Inv, NEW s \in Scenario, NEW y \in Years, version[s].year \in {0, y},
         ~version[s].locked, version' \in [Scenario -> Row],
         \A t \in Scenario :
           /\ version'[t].year = IF t = s THEN y ELSE version[t].year
           /\ version'[t].active <=> t = s \/ (version[t].active /\ version[t].year # y)
           /\ version'[t].locked <=> version[t].locked
  PROVE  Slots!Enter(s, y)
<1>. DEFINE years == [t \in Scenario |-> version[t].year]
            fixedNow == {t \in Scenario : version[t].locked}
            fixed == {}
<1>1. Slots!Of(y) = {t \in Scenario : version[t].year = y}
  BY DEF Slots!Of
<1>2. years' = [years EXCEPT ![s] = y]
  OBVIOUS
<1>3. {t \in Scenario : version'[t].active}
        = {s} \union ({t \in Scenario : version[t].active} \ {t \in Scenario : version[t].year = y})
  OBVIOUS
<1>4. fixedNow' = fixedNow \union fixed
  OBVIOUS
<1>5. years[s] \in {0, y} /\ s \notin fixedNow
  OBVIOUS
<1>6. fixed \in {{}} \union {{t} : t \in {t \in Scenario : version[t].year = y} \ {s}}
  OBVIOUS
<1>. QED BY <1>1, <1>2, <1>3, <1>4, <1>5, <1>6 DEF Slots!Enter

\* A version takes the place of its year, and the one that it continues is locked.
LEMMA EnteredAfter ==
  ASSUME Inv, NEW s \in Scenario, NEW y \in Years, version[s].year \in {0, y},
         ~version[s].locked, version' \in [Scenario -> Row],
         NEW base \in Scenario, base # s, version[base].year = y,
         \A t \in Scenario :
           /\ version'[t].year = IF t = s THEN y ELSE version[t].year
           /\ version'[t].active <=> t = s \/ (version[t].active /\ version[t].year # y)
           /\ version'[t].locked <=> version[t].locked \/ t = base
  PROVE  Slots!Enter(s, y)
<1>. DEFINE years == [t \in Scenario |-> version[t].year]
            fixedNow == {t \in Scenario : version[t].locked}
            fixed == {base}
<1>1. Slots!Of(y) = {t \in Scenario : version[t].year = y}
  BY DEF Slots!Of
<1>2. years' = [years EXCEPT ![s] = y]
  OBVIOUS
<1>3. {t \in Scenario : version'[t].active}
        = {s} \union ({t \in Scenario : version[t].active} \ {t \in Scenario : version[t].year = y})
  OBVIOUS
<1>4. fixedNow' = fixedNow \union fixed
  OBVIOUS
<1>5. years[s] \in {0, y} /\ s \notin fixedNow
  OBVIOUS
<1>6. fixed \in {{}} \union {{t} : t \in {t \in Scenario : version[t].year = y} \ {s}}
  OBVIOUS
<1>. QED BY <1>1, <1>2, <1>3, <1>4, <1>5, <1>6 DEF Slots!Enter

LEMMA Fixed ==
  ASSUME Inv, NEW s \in Scenario, version[s].year # 0, version' = LockRows({s})
  PROVE  Slots!Lock(s)
<1>1. /\ version' \in [Scenario -> Row]
      /\ \A t \in Scenario :
           /\ version'[t].year = version[t].year
           /\ version'[t].active <=> version[t].active /\ t # s
           /\ version'[t].locked <=> version[t].locked \/ t = s
  BY LockedRows DEF Inv
<1>. QED BY <1>1 DEF Slots!Lock

LEMMA CreateStep ==
  ASSUME Inv, NEW s \in Scenario, NEW y \in Years, NEW role \in Roles \union {NoRole},
         NEW through \in FiscalMonths(y) \union {NoMonth},
         NEW previous \in Scenario \union {NoScenario},
         Create(s, y, role, through, previous)
  PROVE  Slots!Make(s, y)
<1>. DEFINE table == TakeRole(version, y, role, NoScenario)
            row == [Absent EXCEPT !.year = y, !.role = role,
                      !.through = through, !.previous = previous]
<1>1. row \in Row /\ row.year = y /\ ~row.active /\ ~row.locked
  BY FiscalMonthsAreMonths DEF Row, Absent
<1>2. /\ table \in [Scenario -> Row]
      /\ \A t \in Scenario :
           /\ table[t].year = version[t].year
           /\ table[t].active = version[t].active /\ table[t].locked = version[t].locked
  BY TakeRoleRows DEF Inv, TypeOK
<1>3. version[s] = Absent /\ version' = [table EXCEPT ![s] = row]
  BY DEF Create, Exists
<1>. HIDE DEF table, row
<1>4. version[s].year = 0 /\ ~version[s].active /\ ~version[s].locked
  BY <1>3 DEF Absent
<1>5. /\ version' \in [Scenario -> Row] /\ version'[s] = row
      /\ \A t \in Scenario \ {s} : version'[t] = table[t]
  BY <1>1, <1>2, <1>3
<1>6. \A t \in Scenario :
        /\ version'[t].year = IF t = s THEN y ELSE version[t].year
        /\ version'[t].active = version[t].active
        /\ version'[t].locked = version[t].locked
  <2>1. version \in [Scenario -> Row] BY DEF Inv, TypeOK
  <2>2. version'[s].active = version[s].active /\ version'[s].locked = version[s].locked
    BY <1>1, <1>4, <1>5, <2>1 DEF Row
  <2>. QED BY <1>1, <1>2, <1>5, <2>2
<1>. QED BY <1>4, <1>5, <1>6, Made

\* Aliases, boundary months and previous forecasts are not part of YearSlots.
LEMMA UpdateStep ==
  ASSUME Inv, NEW s \in Scenario, NEW role \in Roles \union {NoRole},
         NEW through \in Months \union {NoMonth},
         NEW previous \in Scenario \union {NoScenario},
         Update(s, role, through, previous)
  PROVE  UNCHANGED Slots!vars
<1>. DEFINE table == TakeRole(version, version[s].year, role, s)
            row == [table[s] EXCEPT !.role = role, !.through = through, !.previous = previous]
<1>1. /\ table \in [Scenario -> Row]
      /\ \A t \in Scenario :
           /\ table[t].year = version[t].year
           /\ table[t].active = version[t].active /\ table[t].locked = version[t].locked
  BY TakeRoleRows DEF Inv, TypeOK
<1>2. /\ row \in Row /\ row.year = version[s].year
      /\ row.active = version[s].active /\ row.locked = version[s].locked
  BY <1>1 DEF Row
<1>3. version' = [table EXCEPT ![s] = row]
  BY DEF Update
<1>. HIDE DEF table, row
<1>4. SameColumns
  BY <1>1, <1>2, <1>3 DEF SameColumns
<1>. QED BY <1>4, NoChange

LEMMA ActivateStep ==
  ASSUME Inv, NEW s \in Scenario, Activate(s)
  PROVE  \E y \in Years : Slots!Enter(s, y)
<1>. PICK y \in Years : y = version[s].year
  BY DEF Activate, Exists, Inv, TypeOK, Row
<1>. DEFINE table == DeactivateCurrent(version, y)
            row == [table[s] EXCEPT !.active = TRUE]
<1>1. ~version[s].locked
  BY DEF Activate
<1>2. /\ table \in [Scenario -> Row]
      /\ \A t \in Scenario :
           /\ table[t].year = version[t].year /\ table[t].locked = version[t].locked
           /\ table[t].active = (version[t].active /\ version[t].year # y)
  BY DeactivateRows DEF Inv, TypeOK
<1>3. row \in Row /\ row.year = y /\ row.active /\ row.locked = version[s].locked
  BY <1>2 DEF Row
<1>4. version' = [table EXCEPT ![s] = row]
  BY DEF Activate
<1>. HIDE DEF table, row
<1>5. /\ version' \in [Scenario -> Row] /\ version'[s] = row
      /\ \A t \in Scenario \ {s} : version'[t] = table[t]
  BY <1>2, <1>3, <1>4
<1>6. \A t \in Scenario :
        /\ version'[t].year = IF t = s THEN y ELSE version[t].year
        /\ version'[t].active <=> t = s \/ (version[t].active /\ version[t].year # y)
        /\ version'[t].locked <=> version[t].locked
  BY <1>2, <1>3, <1>5
<1>. QED BY <1>1, <1>5, <1>6, Entered

LEMMA StartMonthlyStep ==
  ASSUME Inv, NEW s \in Scenario, NEW y \in Years, NEW through \in FiscalMonths(y),
         StartMonthly(s, y, through)
  PROVE  Slots!Enter(s, y)
<1>1. PICK base \in MonthlyBase(y) :
        LET locking == IF version[base].locked THEN {} ELSE {base}
            row == [Absent EXCEPT !.year = y, !.role = "latest",
                      !.through = through, !.previous = base]
        IN  version' = RunCycle(LockRows(locking), s, row)
  BY DEF StartMonthly
<1>. DEFINE locking == IF version[base].locked THEN {} ELSE {base}
            table == LockRows(locking)
            row == [Absent EXCEPT !.year = y, !.role = "latest",
                      !.through = through, !.previous = base]
<1>2. base \in Scenario /\ version[base].year = y /\ version[s] = Absent
  BY BaseExists DEF StartMonthly, Exists
<1>3. version[s].year = 0 /\ ~version[s].locked /\ ~version[s].active /\ base # s
  BY <1>2, YearsAssumption DEF Absent
<1>4. row \in Row /\ row.year = y /\ row.role = "latest" /\ ~row.locked
  BY <1>2, FiscalMonthsAreMonths DEF Row, Absent, Roles
<1>5. version' = RunCycle(table, s, row)
  BY <1>1
<1>6. /\ locking \in SUBSET Scenario /\ s \notin locking
      /\ \A t \in Scenario : t \in locking <=> ~version[base].locked /\ t = base
  BY <1>2, <1>3
<1>. HIDE DEF locking, row
<1>7. /\ table \in [Scenario -> Row]
      /\ \A t \in Scenario :
           /\ table[t].year = version[t].year
           /\ table[t].active <=> version[t].active /\ t \notin locking
           /\ table[t].locked <=> version[t].locked \/ t \in locking
  BY <1>6, LockedRows DEF Inv
<1>. HIDE DEF table
<1>8. /\ version' \in [Scenario -> Row]
      /\ version'[s].year = y /\ version'[s].active /\ ~version'[s].locked
      /\ \A t \in Scenario \ {s} :
           /\ version'[t].year = table[t].year /\ version'[t].locked = table[t].locked
           /\ version'[t].active <=> table[t].active /\ table[t].year # y
  BY <1>4, <1>5, <1>7, CycleRows DEF Roles
<1>9. \A t \in Scenario :
        /\ version'[t].year = IF t = s THEN y ELSE version[t].year
        /\ version'[t].active <=> t = s \/ (version[t].active /\ version[t].year # y)
        /\ version'[t].locked <=> version[t].locked \/ t = base
  <2>1. ASSUME NEW t \in Scenario \ {s}
        PROVE  /\ version'[t].year = version[t].year
               /\ version'[t].active <=> version[t].active /\ version[t].year # y
               /\ version'[t].locked <=> version[t].locked \/ t = base
    BY <1>2, <1>6, <1>7, <1>8
  <2>. QED BY <1>3, <1>8, <2>1
<1>. QED BY <1>2, <1>3, <1>8, <1>9, EnteredAfter

LEMMA StartFiscalYearStep ==
  ASSUME Inv, NEW s \in Scenario, NEW y \in Years, NEW fromCurrent \in BOOLEAN,
         StartFiscalYear(s, y, fromCurrent)
  PROVE  Slots!Enter(s, y)
<1>. DEFINE row == [Absent EXCEPT !.year = y, !.role = "initial"]
<1>1. row \in Row /\ row.year = y /\ row.role = "initial" /\ ~row.locked
  BY DEF Row, Absent, Roles
<1>2. version[s] = Absent /\ version' = RunCycle(version, s, row)
  BY DEF StartFiscalYear, Exists
<1>3. version[s].year = 0 /\ ~version[s].locked /\ ~version[s].active
  BY <1>2 DEF Absent
<1>. HIDE DEF row
<1>4. version \in [Scenario -> Row]
  BY DEF Inv, TypeOK
<1>5. /\ version' \in [Scenario -> Row]
      /\ version'[s].year = y /\ version'[s].active /\ ~version'[s].locked
      /\ \A t \in Scenario \ {s} :
           /\ version'[t].year = version[t].year /\ version'[t].locked = version[t].locked
           /\ version'[t].active <=> version[t].active /\ version[t].year # y
  BY <1>1, <1>2, <1>4, CycleRows DEF Roles
<1>6. \A t \in Scenario :
        /\ version'[t].year = IF t = s THEN y ELSE version[t].year
        /\ version'[t].active <=> t = s \/ (version[t].active /\ version[t].year # y)
        /\ version'[t].locked <=> version[t].locked
  BY <1>3, <1>5
<1>. QED BY <1>3, <1>5, <1>6, Entered

LEMMA UnlockStep ==
  ASSUME Inv, NEW s \in Scenario, Unlock(s)
  PROVE  Slots!Unlock(s)
<1>. DEFINE row == [version[s] EXCEPT !.locked = FALSE]
<1>1. /\ row \in Row /\ row.year = version[s].year
      /\ row.active = version[s].active /\ ~row.locked
  BY DEF Inv, TypeOK, Row
<1>2. version' = [version EXCEPT ![s] = row] /\ version \in [Scenario -> Row]
  BY DEF Unlock, Inv, TypeOK
<1>. HIDE DEF row
<1>3. /\ version' \in [Scenario -> Row]
      /\ \A t \in Scenario :
           /\ version'[t].year = version[t].year /\ version'[t].active = version[t].active
           /\ version'[t].locked <=> version[t].locked /\ t # s
  BY <1>1, <1>2
<1>. QED BY <1>3 DEF Slots!Unlock

\* The active version of the year is the only one, and it is not locked.
LEMMA CloseYearStep ==
  ASSUME Inv, NEW y \in Years, CloseYear(y)
  PROVE  (\E s \in Scenario : Slots!Lock(s)) \/ UNCHANGED Slots!vars
<1>. DEFINE closing == {s \in ActiveOf(y) : ~version[s].locked}
<1>1. version' = LockRows(closing)
  BY DEF CloseYear
<1>2. CASE closing = {}
  <2>1. SameColumns
    BY <1>1, <1>2, LockedRows DEF SameColumns, Inv, TypeOK
  <2>. QED BY <2>1, NoChange
<1>3. CASE closing # {}
  <2>1. PICK s \in closing : TRUE
    BY <1>3
  <2>2. closing = {s} /\ s \in Scenario
    BY <2>1 DEF ActiveOf, Inv, OneActivePerYear
  <2>3. version[s].year # 0
    BY <2>1, YearsAssumption DEF ActiveOf
  <2>. HIDE DEF closing
  <2>4. version' = LockRows({s})
    BY <1>1, <2>2
  <2>. QED BY <2>2, <2>3, <2>4, Fixed
<1>. QED BY <1>2, <1>3

\* Every call of the API is a step of YearSlots or does not concern it.
LEMMA StepsAreSlotSteps ==
  ASSUME Inv, [Next]_vars
  PROVE  [Slots!Next]_Slots!vars
<1>1. ASSUME NEW s \in Scenario, NEW y \in Years,
             NEW role \in Roles \union {NoRole},
             NEW through \in FiscalMonths(y) \union {NoMonth},
             NEW previous \in Scenario \union {NoScenario},
             Create(s, y, role, through, previous)
      PROVE  Slots!Next
  BY <1>1, CreateStep DEF Slots!Next
<1>2. ASSUME NEW s \in Scenario, NEW y \in Years,
             \/ \E through \in FiscalMonths(y) : StartMonthly(s, y, through)
             \/ \E fromCurrent \in BOOLEAN : StartFiscalYear(s, y, fromCurrent)
      PROVE  Slots!Next
  <2>1. Slots!Enter(s, y)
    BY <1>2, StartMonthlyStep, StartFiscalYearStep
  <2>. QED BY <2>1 DEF Slots!Next
<1>3. ASSUME NEW s \in Scenario, Activate(s)
      PROVE  Slots!Next
  <2>1. PICK y \in Years : Slots!Enter(s, y)
    BY <1>3, ActivateStep
  <2>. QED BY <2>1 DEF Slots!Next
<1>4. ASSUME NEW s \in Scenario, Lock(s)
      PROVE  Slots!Next
  <2>1. version[s].year # 0 /\ version' = LockRows({s})
    BY <1>4 DEF Lock, Exists, Inv, TypeOK
  <2>2. Slots!Lock(s)
    BY <2>1, Fixed
  <2>. QED BY <2>2 DEF Slots!Next
<1>5. ASSUME NEW s \in Scenario, Unlock(s)
      PROVE  Slots!Next
  BY <1>5, UnlockStep DEF Slots!Next
<1>6. ASSUME NEW y \in Years, CloseYear(y)
      PROVE  Slots!Next \/ UNCHANGED Slots!vars
  BY <1>6, CloseYearStep DEF Slots!Next
<1>7. ASSUME NEW s \in Scenario, NEW role \in Roles \union {NoRole},
             NEW through \in Months \union {NoMonth},
             NEW previous \in Scenario \union {NoScenario},
             Update(s, role, through, previous)
      PROVE  UNCHANGED Slots!vars
  BY <1>7, UpdateStep
<1>8. ASSUME \/ \E s \in Scenario : RefreshActuals(s)
             \/ \E y \in Years : ReopenYear(y)
             \/ \E c \in Call : ChangeActuals(c)
             \/ UNCHANGED vars
      PROVE  UNCHANGED Slots!vars
  BY <1>8 DEF RefreshActuals, ReopenYear, ChangeActuals, BeginChange, CommitChange,
              RollBackChange, vars, Slots!vars
<1>. QED BY <1>1, <1>2, <1>3, <1>4, <1>5, <1>6, <1>7, <1>8 DEF Next

\* Scenarios implements YearSlots.
THEOREM ScenariosImplementSlots == Spec => OnePlacePerYear
<1>1. Init => Slots!Init
  BY DEF Init, Slots!Init, Absent
<1>2. Inv /\ [Next]_vars => [Slots!Next]_Slots!vars
  BY StepsAreSlotSteps
<1>. QED BY <1>1, <1>2, SpecInv, PTL DEF Spec, OnePlacePerYear, Slots!Spec

-----------------------------------------------------------------------------
\* Three properties of the steps.

\* What CloseYear locks, with the facts the lemmas on locking ask for.
LEMMA Closing ==
  ASSUME Inv, NEW y \in Years, CloseYear(y)
  PROVE  LET closing == {s \in ActiveOf(y) : ~version[s].locked}
         IN  /\ closing \in SUBSET Scenario /\ closing = ActiveOf(y)
             /\ version' = LockRows(closing) /\ frozen' = KeepActuals(closing)
  BY DEF CloseYear, ActiveOf, Inv, OneActivePerYear

\* Only the closing of a year adds to the closed ones.
LEMMA ClosedBy ==
  ASSUME Next, NEW y \in closed' \ closed
  PROVE  y \in Years /\ CloseYear(y)
  BY DEF Next, Create, StartMonthly, StartFiscalYear, Update, Activate, Lock, Unlock,
         RefreshActuals, CloseYear, ReopenYear, ChangeActuals, BeginChange, CommitChange,
         RollBackChange

\* LockActiveOfYear: a year that is being closed has no version left that is
\* open for entry (ClosingEndsEntry of Scenarios).
THEOREM CloseLocksEntry == Spec => ClosingEndsEntry
<1>1. ASSUME Inv, Next, NEW y \in closed' \ closed PROVE ActiveOf(y)' = {}
  <2> DEFINE closing == {s \in ActiveOf(y) : ~version[s].locked}
  <2>1. y \in Years /\ CloseYear(y)
    BY <1>1, ClosedBy
  <2>2. closing \in SUBSET Scenario /\ closing = ActiveOf(y) /\ version' = LockRows(closing)
    BY <1>1, <2>1, Closing
  <2> HIDE DEF closing
  <2>3. \A s \in Scenario : /\ version'[s].year = version[s].year
                            /\ version'[s].active <=> version[s].active /\ s \notin closing
    BY <1>1, <2>2, LockedRows DEF Inv
  <2> QED
    BY <2>2, <2>3 DEF ActiveOf
<1>2. Inv /\ [Next]_vars => [\A y \in closed' \ closed : ActiveOf(y)' = {}]_vars
  BY <1>1
<1> QED
  BY <1>2, SpecInv, PTL DEF Spec, ClosingEndsEntry

-----------------------------------------------------------------------------
\* No call is under way at the months of a year.
Still(y) == \A c \in Call : changing[c] \intersect FiscalMonths(y) = {}

\* The actuals of a year that is closed and still do not change, and while it is
\* closed nothing begins there: a call that begins looks at the closed years.
LEMMA ClosedFactsStay ==
  ASSUME Inv, Next, NEW y \in closed, Still(y)
  PROVE  Still(y)' /\ \A m \in FiscalMonths(y) : facts'[m] = facts[m]
<1>1. y \in Years /\ FiscalMonths(y) \subseteq Months
  BY FiscalMonthsAreMonths DEF Inv, TypeOK
<1>2. changing \in [Call -> SUBSET Months] /\ facts \in [Months -> Contents]
  BY DEF Inv, TypeOK
<1>3. ASSUME NEW c \in Call, NEW changed \in SUBSET Months, BeginChange(c, changed)
      PROVE  Still(y)' /\ \A m \in FiscalMonths(y) : facts'[m] = facts[m]
  <2>1. changed \intersect FiscalMonths(y) = {} /\ facts' = facts
        /\ changing' = [changing EXCEPT ![c] = changed]
    BY <1>3 DEF BeginChange
  <2> QED
    BY <1>2, <2>1 DEF Still, FiscalMonths
<1>4. ASSUME NEW c \in Call, NEW content \in Contents, CommitChange(c, content)
      PROVE  Still(y)' /\ \A m \in FiscalMonths(y) : facts'[m] = facts[m]
  <2>1. \A m \in FiscalMonths(y) : m \in Months /\ m \notin changing[c]
    BY <1>1 DEF Still
  <2>2. /\ facts' = [m \in Months |-> IF m \in changing[c] THEN content ELSE facts[m]]
        /\ changing' = [changing EXCEPT ![c] = {}]
    BY <1>4 DEF CommitChange
  <2>3. \A m \in FiscalMonths(y) : facts'[m] = facts[m]
    BY <2>1, <2>2
  <2>4. Still(y)'
    BY <1>2, <2>2 DEF Still, FiscalMonths
  <2> QED
    BY <2>3, <2>4
<1>5. ASSUME NEW c \in Call, RollBackChange(c)
      PROVE  Still(y)' /\ \A m \in FiscalMonths(y) : facts'[m] = facts[m]
  BY <1>2, <1>5 DEF RollBackChange, Still, FiscalMonths
<1>6. CASE \A c \in Call : ~ChangeActuals(c)
  <2>1. facts' = facts /\ changing' = changing
    BY <1>6 DEF Next, Create, StartMonthly, StartFiscalYear, Update, Activate, Lock, Unlock,
                RefreshActuals, CloseYear, ReopenYear
  <2> QED
    BY <2>1 DEF Still, FiscalMonths
<1> QED
  BY <1>3, <1>4, <1>5, <1>6 DEF ChangeActuals

\* A closed year whose locked version agrees with the actuals, and which no call
\* begun before the closing is still about to change, keeps agreeing with them
\* (ClosedYearStaysReconciled of Scenarios).
StaysReconciled(s) ==
  Reconciled(s) /\ version'[s].locked /\ version[s].year \in closed' => Reconciled(s)'

LEMMA ReconciledIs ==
  ASSUME NEW s \in Scenario
  PROVE  /\ Reconciled(s) <=> /\ version[s].locked /\ version[s].year \in closed
                              /\ Drift(s) = {} /\ Still(version[s].year)
         /\ Reconciled(s)' <=> /\ version'[s].locked /\ version'[s].year \in closed'
                               /\ Drift(s)' = {} /\ Still(version[s].year)'
  BY DEF Reconciled, Still

THEOREM ClosedYearsAgree == Spec => ClosedYearStaysReconciled
<1>1. ASSUME Inv, Next, NEW s \in Scenario, KeepsLocked(s) PROVE StaysReconciled(s)
  <2>1. SUFFICES ASSUME Reconciled(s), version'[s].locked, version[s].year \in closed'
                 PROVE  Reconciled(s)'
    BY DEF StaysReconciled
  <2>2. /\ version[s].locked /\ version[s].year \in closed
        /\ Drift(s) = {} /\ Still(version[s].year)
    BY <2>1, ReconciledIs
  <2>3. /\ version'[s].year = version[s].year /\ version'[s].through = version[s].through
        /\ frozen'[s] = frozen[s]
    BY <1>1, <2>1, <2>2 DEF KeepsLocked
  <2>4. Still(version[s].year)' /\ \A m \in FiscalMonths(version[s].year) : facts'[m] = facts[m]
    BY <1>1, <2>2, <2>3, ClosedFactsStay DEF Still, FiscalMonths
  <2>5. Drift(s)' = {}
    BY <2>2, <2>3, <2>4 DEF Drift, ActualMonths, FiscalMonths
  <2> QED
    BY <2>1, <2>3, <2>4, <2>5, ReconciledIs
<1>2. ASSUME Inv, NEW r \in Scenario, RefreshActuals(r), NEW s \in Scenario
      PROVE  StaysReconciled(s)
  <2>1. /\ version' = version /\ facts' = facts /\ (s # r => frozen'[s] = frozen[s])
        /\ closed' = closed /\ changing' = changing
    BY <1>2, RefreshKeepsLocked DEF RefreshActuals
  <2>2. s = r => \A m \in ActualMonths(version[s]) : frozen'[s][m] = facts[m]
    BY <1>2, RefreshKeepsLocked
  <2>3. Drift(s) = {} => Drift(s)' = {}
    BY <2>1, <2>2 DEF Drift, ActualMonths, FiscalMonths
  <2> QED
    BY <2>1, <2>3 DEF StaysReconciled, Reconciled, FiscalMonths
<1>3. ASSUME Inv, Next PROVE \A s \in Scenario : StaysReconciled(s)
  BY <1>1, <1>2, <1>3, StepKeepsLocked
<1>4. Inv /\ [Next]_vars =>
        [\A s \in Scenario :
           Reconciled(s) /\ version[s]'.locked /\ version[s].year \in closed'
             => Reconciled(s)']_vars
  BY <1>3 DEF StaysReconciled
<1> QED
  BY <1>4, SpecInv, PTL DEF Spec, ClosedYearStaysReconciled

-----------------------------------------------------------------------------
\* takeRole and deactivateCurrent touch the rows of one year, and no blank row.
LEMMA RoleOfOneYear ==
  ASSUME NEW table \in [Scenario -> Row], NEW y, NEW role, NEW except, NEW t \in Scenario,
         table[t].year # y \/ table[t] = Absent
  PROVE  TakeRole(table, y, role, except)[t] = table[t]
  BY DEF TakeRole, Absent

\* The version that was active is put out in its own year only.
LEMMA ActiveOfOneYear ==
  ASSUME NEW table \in [Scenario -> Row], NEW y, NEW t \in Scenario,
         table[t].year # y \/ table[t] = Absent
  PROVE  DeactivateCurrent(table, y)[t] = table[t]
  BY DEF DeactivateCurrent, Absent

\* Nor does a switch touch another year but by the version it makes.
LEMMA CycleOfOneYear ==
  ASSUME NEW table \in [Scenario -> Row], NEW s \in Scenario, NEW row \in Row,
         NEW t \in Scenario \ {s}, table[t].year # row.year \/ table[t] = Absent
  PROVE  RunCycle(table, s, row)[t] = table[t]
<1> DEFINE taken == TakeRole(table, row.year, row.role, NoScenario)
           created == [taken EXCEPT ![s] = row]
<1>1. taken \in [Scenario -> Row] /\ taken[t] = table[t]
  BY TakeRoleRows, RoleOfOneYear
<1>2. created \in [Scenario -> Row] /\ created[t] = table[t]
  BY <1>1
<1>3. RunCycle(table, s, row) = [DeactivateCurrent(created, row.year) EXCEPT ![s].active = TRUE]
  BY DEF RunCycle
<1> HIDE DEF created, taken
<1>4. DeactivateCurrent(created, row.year)[t] = table[t]
  BY <1>2, ActiveOfOneYear
<1> QED
  BY <1>3, <1>4 DEF DeactivateCurrent

\* The three calls that make a version make one, and leave the versions of
\* other years as they are.
Starts(s, y) ==
  \/ \E role \in Roles \union {NoRole}, through \in FiscalMonths(y) \union {NoMonth},
        previous \in Scenario \union {NoScenario} : Create(s, y, role, through, previous)
  \/ \E through \in FiscalMonths(y) : StartMonthly(s, y, through)
  \/ \E fromCurrent \in BOOLEAN : StartFiscalYear(s, y, fromCurrent)

LEMMA StartsOne ==
  ASSUME Inv, NEW s \in Scenario, NEW y \in Years, Starts(s, y)
  PROVE  /\ version'[s].year = y
         /\ \A t \in Scenario \ {s} :
              version[t].year # y \/ version[t] = Absent
                => version'[t] = version[t] /\ frozen'[t] = frozen[t]
<1>1. version \in [Scenario -> Row]
  BY DEF Inv, TypeOK
<1>2. ASSUME NEW role \in Roles \union {NoRole}, NEW through \in FiscalMonths(y) \union {NoMonth},
             NEW previous \in Scenario \union {NoScenario}, Create(s, y, role, through, previous)
      PROVE  /\ version'[s].year = y
             /\ \A t \in Scenario \ {s} :
                  version[t].year # y \/ version[t] = Absent
                    => version'[t] = version[t] /\ frozen'[t] = frozen[t]
  <2> DEFINE table == TakeRole(version, y, role, NoScenario)
             row == [Absent EXCEPT !.year = y, !.role = role, !.through = through,
                                   !.previous = previous]
  <2>1. version' = [table EXCEPT ![s] = row] /\ frozen' = frozen
    BY <1>2 DEF Create
  <2>2. row.year = y
    BY DEF Absent
  <2>3. /\ table \in [Scenario -> Row]
        /\ \A t \in Scenario : version[t].year # y \/ version[t] = Absent => table[t] = version[t]
    BY <1>1, TakeRoleRows, RoleOfOneYear
  <2> HIDE DEF table, row
  <2> QED
    BY <2>1, <2>2, <2>3
<1>3. ASSUME NEW through \in FiscalMonths(y), StartMonthly(s, y, through)
      PROVE  /\ version'[s].year = y
             /\ \A t \in Scenario \ {s} :
                  version[t].year # y \/ version[t] = Absent
                    => version'[t] = version[t] /\ frozen'[t] = frozen[t]
  <2>1. PICK base \in MonthlyBase(y) :
          LET locking == IF version[base].locked THEN {} ELSE {base}
              row == [Absent EXCEPT !.year = y, !.role = "latest",
                        !.through = through, !.previous = base]
          IN  /\ version' = RunCycle(LockRows(locking), s, row)
              /\ frozen' = KeepActuals(locking)
    BY <1>3 DEF StartMonthly
  <2> DEFINE locking == IF version[base].locked THEN {} ELSE {base}
             row == [Absent EXCEPT !.year = y, !.role = "latest",
                       !.through = through, !.previous = base]
  <2>2. base \in Scenario /\ version[base].year = y /\ version[base] # Absent
    BY BaseExists
  <2>3. row \in Row /\ row.year = y /\ row.role = "latest" /\ ~row.locked
    BY <2>2, FiscalMonthsAreMonths DEF Row, Absent, Roles
  <2>4. version' = RunCycle(LockRows(locking), s, row) /\ frozen' = KeepActuals(locking)
    BY <2>1
  <2>5. locking \in SUBSET Scenario /\ \A t \in locking : t = base
    BY <2>2
  <2> HIDE DEF locking, row
  <2>6. /\ LockRows(locking) \in [Scenario -> Row]
        /\ \A t \in Scenario \ locking : /\ LockRows(locking)[t] = version[t]
                                         /\ KeepActuals(locking)[t] = frozen[t]
    BY <2>5, LockedRows DEF Inv
  <2>7. version'[s].year = y
    BY <2>3, <2>4, <2>6, CycleRows DEF Roles
  <2>8. ASSUME NEW t \in Scenario \ {s}, version[t].year # y \/ version[t] = Absent
        PROVE  version'[t] = version[t] /\ frozen'[t] = frozen[t]
    <3>1. t \notin locking
      BY <2>2, <2>5, <2>8
    <3>2. LockRows(locking)[t] = version[t] /\ KeepActuals(locking)[t] = frozen[t]
      BY <2>6, <3>1
    <3>3. RunCycle(LockRows(locking), s, row)[t] = LockRows(locking)[t]
      BY <2>3, <2>6, <2>8, <3>2, CycleOfOneYear
    <3> QED
      BY <2>4, <3>2, <3>3
  <2> QED
    BY <2>7, <2>8
<1>4. ASSUME NEW fromCurrent \in BOOLEAN, StartFiscalYear(s, y, fromCurrent)
      PROVE  /\ version'[s].year = y
             /\ \A t \in Scenario \ {s} :
                  version[t].year # y \/ version[t] = Absent
                    => version'[t] = version[t] /\ frozen'[t] = frozen[t]
  <2> DEFINE row == [Absent EXCEPT !.year = y, !.role = "initial"]
  <2>1. row \in Row /\ row.year = y /\ row.role = "initial" /\ ~row.locked
    BY DEF Row, Absent, Roles
  <2>2. version' = RunCycle(version, s, row) /\ frozen' = frozen
    BY <1>4 DEF StartFiscalYear
  <2> HIDE DEF row
  <2>3. version'[s].year = y
    BY <1>1, <2>1, <2>2, CycleRows DEF Roles
  <2>4. \A t \in Scenario \ {s} : version[t].year # y \/ version[t] = Absent
                                    => version'[t] = version[t]
    BY <1>1, <2>1, <2>2, CycleOfOneYear
  <2> QED
    BY <2>2, <2>3, <2>4
<1> QED
  BY <1>2, <1>3, <1>4 DEF Starts

\* Every other call leaves a blank row blank.
LEMMA MadeBy ==
  ASSUME Inv, Next, NEW s \in Scenario, ~Exists(s), Exists(s)'
  PROVE  \E y \in Years : Starts(s, y)
<1>1. version \in [Scenario -> Row] /\ version[s] = Absent /\ version'[s] # Absent
  BY DEF Inv, TypeOK, Exists
<1>2. ASSUME NEW r \in Scenario, NEW y \in Years, Starts(r, y) PROVE r = s
  BY <1>1, <1>2, StartsOne
<1>3. ASSUME NEW r \in Scenario, NEW role \in Roles \union {NoRole},
             NEW through \in Months \union {NoMonth},
             NEW previous \in Scenario \union {NoScenario}, Update(r, role, through, previous)
      PROVE  FALSE
  <2> DEFINE table == TakeRole(version, version[r].year, role, r)
             row == [table[r] EXCEPT !.role = role, !.through = through, !.previous = previous]
  <2>1. version' = [table EXCEPT ![r] = row] /\ r # s
    BY <1>1, <1>3 DEF Update, Exists
  <2>2. table \in [Scenario -> Row] /\ table[s] = version[s]
    BY <1>1, TakeRoleRows, RoleOfOneYear
  <2> HIDE DEF table, row
  <2> QED
    BY <1>1, <2>1, <2>2
<1>4. ASSUME NEW r \in Scenario, Activate(r) PROVE FALSE
  <2> DEFINE table == DeactivateCurrent(version, version[r].year)
  <2>1. version' = [table EXCEPT ![r].active = TRUE] /\ r # s
    BY <1>1, <1>4 DEF Activate, Exists
  <2>2. table \in [Scenario -> Row] /\ table[s] = version[s]
    BY <1>1, DeactivateRows, ActiveOfOneYear
  <2> HIDE DEF table
  <2> QED
    BY <1>1, <2>1, <2>2
<1>5. ASSUME NEW locking \in SUBSET Scenario, s \notin locking, version' = LockRows(locking)
      PROVE  FALSE
  BY <1>1, <1>5 DEF LockRows
<1>6. ASSUME NEW r \in Scenario, Lock(r) PROVE FALSE
  BY <1>1, <1>5, <1>6 DEF Lock, Exists
<1>7. ASSUME NEW y \in Years, CloseYear(y) PROVE FALSE
  <2>1. s \notin ActiveOf(y)
    BY <1>1 DEF ActiveOf, Absent
  <2> QED
    BY <1>5, <1>7, <2>1, Closing
<1>8. ASSUME NEW r \in Scenario, Unlock(r) PROVE FALSE
  <2>1. r # s
    BY <1>1, <1>8 DEF Unlock, Absent
  <2> QED
    BY <1>1, <1>8, <2>1 DEF Unlock
<1>9. ASSUME version' = version PROVE FALSE
  BY <1>1, <1>9
<1> QED
  BY <1>2, <1>3, <1>4, <1>6, <1>7, <1>8, <1>9
  DEF Next, Starts, ReopenYear, ChangeActuals, BeginChange, CommitChange,
      RollBackChange, RefreshActuals

\* Starting a month's forecast or a year's plan, and making a version, leave
\* the versions of the other years alone (SwitchKeepsOtherYears of Scenarios).
KeepsOther(s, t) ==
  ~Exists(s) /\ Exists(s)' /\ Exists(t) /\ version[t].year # version'[s].year
    => version'[t] = version[t] /\ frozen'[t] = frozen[t]

THEOREM OtherYearsStay == Spec => SwitchKeepsOtherYears
<1>1. ASSUME Inv, Next, NEW s \in Scenario, NEW t \in Scenario PROVE KeepsOther(s, t)
  <2>1. SUFFICES ASSUME ~Exists(s), Exists(s)', Exists(t), version[t].year # version'[s].year
                 PROVE  version'[t] = version[t] /\ frozen'[t] = frozen[t]
    BY DEF KeepsOther
  <2>2. PICK y \in Years : Starts(s, y)
    BY <1>1, <2>1, MadeBy
  <2>3. t # s
    BY <2>1
  <2> QED
    BY <1>1, <2>1, <2>2, <2>3, StartsOne
<1>2. Inv /\ [Next]_vars =>
        [\A s, t \in Scenario :
           ~Exists(s) /\ Exists(s)' /\ Exists(t) /\ version[t].year # version[s]'.year
             => version[t]' = version[t] /\ frozen[t]' = frozen[t]]_vars
  BY <1>1 DEF KeepsOther
<1> QED
  BY <1>2, SpecInv, PTL DEF Spec, SwitchKeepsOtherYears

-----------------------------------------------------------------------------
\* The largest and the smallest of some positions in a list.
LEMMA LeastExists ==
  ASSUME NEW S \in SUBSET Nat, S # {}
  PROVE  \E x \in S : \A y \in S : x <= y
<1>1. \E x \in S : \A y \in S : ~(<<y, x>> \in OpToRel(<, Nat))
  BY NatLessThanWellFounded, WFMin
<1>2. \E x \in S : \A y \in S : ~(y < x)
  BY ONLY S \in SUBSET Nat, <1>1, Zenon DEF OpToRel
<1>. QED  BY <1>2

LEMMA MinIs ==
  ASSUME NEW S \in SUBSET Nat, S # {}
  PROVE  Min(S) \in S /\ \A y \in S : Min(S) <= y
  BY LeastExists DEF Min

LEMMA MaxIs ==
  ASSUME NEW n \in Nat, NEW S \in SUBSET (1..n), S # {}
  PROVE  Max(S) \in S /\ \A y \in S : y <= Max(S)
<1>. DEFINE above == {k \in 0..n : \A y \in S : y <= k}
<1>1. above \in SUBSET Nat /\ n \in above
  OBVIOUS
<1>2. PICK k \in above : \A y \in above : k <= y
  BY <1>1, LeastExists
<1>3. k \in S
  <2>1. SUFFICES ASSUME k \notin S PROVE FALSE
    OBVIOUS
  <2>2. \A y \in S : y <= k - 1
    BY <2>1
  <2>3. k - 1 \in above
    <3>1. PICK y \in S : TRUE
      OBVIOUS
    <3>. QED  BY <2>2, <3>1
  <2>. QED  BY <1>2, <2>3
<1>4. \A y \in S : k >= y
  OBVIOUS
<1>. HIDE DEF above
<1>5. Max(S) \in S /\ \A y \in S : Max(S) >= y
  BY <1>3, <1>4 DEF Max
<1>. QED  BY <1>5

-----------------------------------------------------------------------------
\* Active versions as the life cycle leaves them: one of each year.
OnePerYear(S) ==
  /\ IsFiniteSet(S)
  /\ \A v \in S : v.year \in Nat
  /\ \A v, w \in S : v.year = w.year => v = w

InOrder(S, list) ==
  /\ list \in [1..Cardinality(S) -> S]
  /\ \A v \in S : \E i \in 1..Cardinality(S) : list[i] = v
  /\ \A i, j \in 1..Cardinality(S) : i < j => list[i].year <= list[j].year

\* They can be put in order: each has as many before it as are of its year or
\* an earlier one.
LEMMA OrderExists ==
  ASSUME NEW S, OnePerYear(S)
  PROVE  \E list : InOrder(S, list)
<1>. DEFINE n == Cardinality(S)
            upTo(v) == {w \in S : w.year <= v.year}
            rank == [v \in S |-> Cardinality(upTo(v))]
            list == [i \in 1..n |-> CHOOSE v \in S : rank[v] = i]
<1>1. n \in Nat /\ IsFiniteSet(1..n) /\ Cardinality(1..n) = n
  BY FS_CardinalityType, FS_Interval DEF OnePerYear
<1>2. ASSUME NEW v \in S PROVE IsFiniteSet(upTo(v)) /\ rank[v] \in 1..n
  <2>1. upTo(v) \in SUBSET S /\ v \in upTo(v)
    BY DEF OnePerYear
  <2>2. IsFiniteSet(upTo(v)) /\ Cardinality(upTo(v)) <= n
    BY <2>1, FS_Subset DEF OnePerYear
  <2>3. Cardinality(upTo(v)) \in Nat /\ Cardinality(upTo(v)) # 0
    BY <2>1, <2>2, FS_CardinalityType, FS_EmptySet
  <2>. QED  BY <1>1, <2>2, <2>3
<1>3. ASSUME NEW v \in S, NEW w \in S, v.year < w.year PROVE rank[v] < rank[w]
  <2>1. upTo(v) \in SUBSET upTo(w)
    BY <1>3 DEF OnePerYear
  <2>2. w \in upTo(w) /\ w \notin upTo(v)
    BY <1>3 DEF OnePerYear
  <2>3. Cardinality(upTo(v)) <= Cardinality(upTo(w)) /\ Cardinality(upTo(v)) # Cardinality(upTo(w))
    BY <1>2, <2>1, <2>2, FS_Subset
  <2>4. /\ rank[v] = Cardinality(upTo(v)) /\ rank[w] = Cardinality(upTo(w))
        /\ rank[v] \in 1..n /\ rank[w] \in 1..n
    BY <1>2
  <2>. HIDE DEF rank, upTo
  <2>. QED  BY <1>1, <2>3, <2>4
<1>. HIDE DEF upTo
<1>4. rank \in [S -> 1..n]
  BY <1>2
<1>. HIDE DEF rank
<1>5. \A v, w \in S : rank[v] = rank[w] => v = w
  BY <1>1, <1>3, <1>4 DEF OnePerYear
<1>6. rank \in Injection(S, 1..n)
  BY <1>4, <1>5 DEF Injection, IsInjective
<1>7. rank \in Surjection(S, 1..n)
  BY <1>1, <1>6, FS_Injection
<1>8. \A i \in 1..n : \E v \in S : rank[v] = i
  BY <1>7 DEF Surjection
<1>9. \A i \in 1..n : list[i] \in S /\ rank[list[i]] = i
  BY <1>8
<1>10. list \in [1..n -> S]
  BY <1>9
<1>11. \A v \in S : rank[v] \in 1..n /\ list[rank[v]] = v
  BY <1>4, <1>5, <1>9
<1>. HIDE DEF list, n
<1>12. \A i, j \in 1..n : i < j => list[i].year <= list[j].year
  <2>1. SUFFICES ASSUME NEW i \in 1..n, NEW j \in 1..n, i < j, list[j].year < list[i].year
                 PROVE  FALSE
    BY <1>9 DEF OnePerYear
  <2>2. rank[list[j]] < rank[list[i]]
    BY <1>3, <1>9, <2>1
  <2>. QED  BY <1>1, <1>9, <2>1, <2>2
<1>13. InOrder(S, list)
  BY <1>10, <1>11, <1>12 DEF InOrder, n
<1>. QED  BY <1>13

LEMMA OldestFirstIs ==
  ASSUME NEW S, OnePerYear(S)
  PROVE  InOrder(S, OldestFirst(S))
<1>. DEFINE good(list) == /\ Range(list) = S
                          /\ \A i, j \in DOMAIN list : i < j => list[i].year <= list[j].year
<1>1. PICK list : InOrder(S, list)
  BY OrderExists
<1>2. list \in [1..Cardinality(S) -> S] /\ good(list)
  BY <1>1 DEF InOrder, Range
<1>3. OldestFirst(S) \in [1..Cardinality(S) -> S] /\ good(OldestFirst(S))
  BY <1>2 DEF OldestFirst
<1>. QED  BY <1>3 DEF InOrder, Range

\* What the first loop of Classify finds.
LEMMA CurrentOfIs ==
  ASSUME NEW S, OnePerYear(S)
  PROVE  LET current == CurrentOf(OldestFirst(S))
             forecasts == {v \in S : ~IsPlan(v)}
         IN  /\ S = {} => current = Missing
             /\ forecasts # {} => /\ current \in forecasts
                                  /\ \A v \in forecasts : v.year <= current.year
             /\ S # {} /\ forecasts = {} => /\ current \in S
                                           /\ \A v \in S : v.year >= current.year
<1>. DEFINE list == OldestFirst(S)
            n == Cardinality(S)
            at == {i \in DOMAIN list : ~IsPlan(list[i])}
<1>1. n \in Nat /\ (n = 0 <=> S = {})
  BY FS_CardinalityType, FS_EmptySet DEF OnePerYear
<1>2. /\ list \in [1..n -> S] /\ \A v \in S : \E i \in 1..n : list[i] = v
      /\ \A i, j \in 1..n : i < j => list[i].year <= list[j].year
  BY OldestFirstIs DEF InOrder
<1>3. \A v \in S : v.year \in Nat
  BY DEF OnePerYear
<1>4. list = <<>> <=> n = 0
  <2>1. list \in Seq(S) /\ Len(list) = n
    BY <1>1, <1>2
  <2>. HIDE DEF list
  <2>. QED  BY <2>1, EmptySeq
<1>. HIDE DEF list, n
<1>5. CurrentOf(list) = IF at # {} THEN list[Max(at)] ELSE IF list # <<>> THEN list[1] ELSE Missing
  BY DEF CurrentOf
<1>6. \A i \in 1..n : i \in at <=> ~IsPlan(list[i])
  BY <1>2
<1>7. at \in SUBSET (1..n)
  BY <1>2
<1>. HIDE DEF at
<1>8. CASE at # {}
  <2>1. Max(at) \in at /\ \A i \in at : i <= Max(at)
    BY <1>1, <1>7, <1>8, MaxIs
  <2>2. CurrentOf(list) = list[Max(at)] /\ list[Max(at)] \in {v \in S : ~IsPlan(v)}
    BY <1>2, <1>5, <1>6, <1>7, <1>8, <2>1
  <2>3. ASSUME NEW v \in S, ~IsPlan(v) PROVE v.year <= CurrentOf(list).year
    <3>1. PICK i \in 1..n : list[i] = v
      BY <1>2
    <3>2. i \in at /\ i <= Max(at) /\ Max(at) \in 1..n
      BY <1>6, <1>7, <2>1, <2>3, <3>1
    <3>3. CASE i = Max(at)
      BY <1>3, <2>2, <3>1, <3>3
    <3>4. CASE i < Max(at)
      BY <1>2, <2>2, <3>1, <3>2, <3>4
    <3>. QED  BY <1>1, <3>2, <3>3, <3>4
  <2>. QED  BY <2>2, <2>3 DEF list
<1>9. CASE at = {}
  <2>1. \A v \in S : IsPlan(v)
    BY <1>2, <1>6, <1>9
  <2>2. CASE S = {}
    BY <1>1, <1>4, <1>5, <1>9, <2>2 DEF list
  <2>3. CASE S # {}
    <3>1. CurrentOf(list) = list[1] /\ 1 \in 1..n /\ list[1] \in S
      BY <1>1, <1>2, <1>4, <1>5, <1>9, <2>3
    <3>2. ASSUME NEW v \in S PROVE v.year >= CurrentOf(list).year
      <4>1. PICK i \in 1..n : list[i] = v
        BY <1>2
      <4>2. CASE i = 1
        BY <1>3, <3>1, <4>1, <4>2
      <4>3. CASE 1 < i
        BY <1>2, <1>3, <3>1, <4>1, <4>3
      <4>. QED  BY <1>1, <4>2, <4>3
    <3>. QED  BY <2>1, <2>3, <3>1, <3>2 DEF list
  <2>. QED  BY <2>2, <2>3
<1>. QED  BY <1>8, <1>9

\* What the second loop finds; the ids tell the versions apart.
LEMMA NextPlanOfIs ==
  ASSUME NEW S, OnePerYear(S)
  PROVE  LET current == CurrentOf(OldestFirst(S))
             next == NextPlanOf(OldestFirst(S))
             later == {v \in S : v.id # current.id /\ IsPlan(v) /\ v.year > current.year}
         IN  /\ later = {} => next = Missing
             /\ later # {} => next \in later /\ \A v \in later : v.year >= next.year
<1>. DEFINE list == OldestFirst(S)
            n == Cardinality(S)
            current == CurrentOf(list)
            good(v) == v.id # current.id /\ IsPlan(v) /\ v.year > current.year
            at == {i \in DOMAIN list : good(list[i])}
            later == {v \in S : good(v)}
<1>1. n \in Nat
  BY FS_CardinalityType DEF OnePerYear
<1>2. /\ list \in [1..n -> S] /\ \A v \in S : \E i \in 1..n : list[i] = v
      /\ \A i, j \in 1..n : i < j => list[i].year <= list[j].year
  BY OldestFirstIs DEF InOrder
<1>3. \A v \in S : v.year \in Nat
  BY DEF OnePerYear
<1>4. NextPlanOf(list) = IF at # {} THEN list[Min(at)] ELSE Missing
  BY DEF NextPlanOf
<1>. HIDE DEF list, n, current
<1>. HIDE DEF good
<1>5. at \in SUBSET (1..n) /\ \A i \in 1..n : i \in at <=> list[i] \in later
  BY <1>2
<1>6. at = {} <=> later = {}
  BY <1>2, <1>5
<1>. HIDE DEF at
<1>7. ASSUME at # {}
      PROVE  NextPlanOf(list) \in later /\ \A v \in later : v.year >= NextPlanOf(list).year
  <2>1. Min(at) \in at /\ \A i \in at : Min(at) <= i
    BY <1>1, <1>5, <1>7, MinIs
  <2>2. NextPlanOf(list) = list[Min(at)] /\ list[Min(at)] \in later
    BY <1>4, <1>5, <1>7, <2>1
  <2>3. ASSUME NEW v \in later PROVE v.year >= NextPlanOf(list).year
    <3>1. PICK i \in 1..n : list[i] = v
      BY <1>2
    <3>2. i \in at /\ Min(at) <= i /\ Min(at) \in 1..n
      BY <1>5, <2>1, <3>1
    <3>3. CASE i = Min(at)
      BY <1>3, <2>2, <3>1, <3>3
    <3>4. CASE Min(at) < i
      BY <1>2, <1>3, <2>2, <3>1, <3>2, <3>4
    <3>. QED  BY <1>1, <3>2, <3>3, <3>4
  <2>. QED  BY <2>2, <2>3
<1>8. /\ later = {} => NextPlanOf(list) = Missing
      /\ later # {} => /\ NextPlanOf(list) \in later
                       /\ \A v \in later : v.year >= NextPlanOf(list).year
  BY <1>4, <1>6, <1>7
<1>. QED  BY <1>8 DEF good, current, list

-----------------------------------------------------------------------------
\* Finitely many versions exist, however many rows the table may come to hold:
\* a step adds one.
FewRows == IsFiniteSet({s \in Scenario : Exists(s)})

LEMMA StepAddsOne ==
  ASSUME Inv, Next, FewRows
  PROVE  FewRows'
<1>. DEFINE old == {s \in Scenario : Exists(s)}
            new == {s \in Scenario : Exists(s)'}
<1>1. CASE new \subseteq old
  BY <1>1, FS_Subset DEF FewRows
<1>2. CASE ~(new \subseteq old)
  <2>1. PICK s \in Scenario : ~Exists(s) /\ Exists(s)'
    BY <1>2
  <2>2. PICK y \in Years : Starts(s, y)
    BY <2>1, MadeBy
  <2>3. new \in SUBSET (old \union {s})
    BY <2>2, StartsOne DEF Exists
  <2>4. IsFiniteSet(old \union {s})
    BY FS_AddElement DEF FewRows
  <2>5. IsFiniteSet(new)
    BY <2>3, <2>4, FS_Subset
  <2>. QED  BY <2>5 DEF FewRows
<1>. QED  BY <1>1, <1>2

LEMMA SpecFewRows == Spec => []FewRows
<1>1. Init => FewRows
  <2>1. SUFFICES ASSUME Init PROVE FewRows
    OBVIOUS
  <2>2. {s \in Scenario : Exists(s)} = {}
    BY <2>1 DEF Init, Exists
  <2>. QED  BY <2>2, FS_EmptySet DEF FewRows
<1>2. Inv /\ FewRows /\ [Next]_vars => FewRows'
  <2>1. UNCHANGED vars /\ FewRows => FewRows'
    BY DEF vars, FewRows, Exists
  <2>. QED  BY <2>1, StepAddsOne
<1>. QED  BY <1>1, <1>2, SpecInv, PTL DEF Spec

\* There are finitely many active versions, one of each year, and each has an
\* id of its own.
LEMMA OneEntryPerYear ==
  ASSUME Inv, FewRows
  PROVE  /\ OnePerYear(ActiveEntries)
         /\ \A v, w \in ActiveEntries : v.id = w.id => v = w
<1>. DEFINE actives == {s \in Scenario : version[s].active}
            entry == [s \in actives |-> Entry(s)]
<1>1. actives \in SUBSET {s \in Scenario : Exists(s)}
  BY DEF Exists, Absent
<1>2. IsFiniteSet(actives)
  BY <1>1, FS_Subset DEF FewRows
<1>3. entry \in Surjection(actives, ActiveEntries)
  BY DEF ActiveEntries, Surjection
<1>4. IsFiniteSet(ActiveEntries)
  BY <1>2, <1>3, FS_Surjection
<1>5. \A s \in actives : version[s].year \in Nat
  <2>1. \A s \in Scenario : version[s] \in Row
    BY DEF Inv, TypeOK
  <2>2. \A s \in Scenario : version[s].year \in Years \union {0}
    BY <2>1 DEF Row
  <2>3. \A y \in Years \union {0} : y \in Nat
    BY YearsAssumption
  <2>. QED  BY <2>2, <2>3
<1>6. \A v \in ActiveEntries : \E s \in actives : v = Entry(s)
  BY DEF ActiveEntries
<1>7. \A s, t \in actives : version[s].year = version[t].year => s = t
  BY DEF Inv, OneActivePerYear
<1>8. \A s \in actives : Entry(s).id = s /\ Entry(s).year = version[s].year
  BY DEF Entry
<1>. QED  BY <1>4, <1>5, <1>6, <1>7, <1>8 DEF OnePerYear

-----------------------------------------------------------------------------
\* Only the start of a year makes an active version without actuals.
LEMMA StartsWith ==
  ASSUME Inv, NEW s \in Scenario, NEW y \in Years, Starts(s, y),
         version'[s].active, version'[s].through = NoMonth
  PROVE  \E fromCurrent \in BOOLEAN : StartFiscalYear(s, y, fromCurrent)
<1>1. ASSUME NEW role \in Roles \union {NoRole}, NEW through \in FiscalMonths(y) \union {NoMonth},
             NEW previous \in Scenario \union {NoScenario}, Create(s, y, role, through, previous)
      PROVE  FALSE
  <2>. DEFINE table == TakeRole(version, y, role, NoScenario)
              row == [Absent EXCEPT !.year = y, !.role = role, !.through = through,
                                    !.previous = previous]
  <2>1. version' = [table EXCEPT ![s] = row] /\ table \in [Scenario -> Row]
    BY <1>1, TakeRoleRows DEF Create, Inv, TypeOK
  <2>2. ~row.active
    BY DEF Absent
  <2>. HIDE DEF row, table
  <2>. QED  BY <2>1, <2>2
<1>2. ASSUME NEW through \in FiscalMonths(y), StartMonthly(s, y, through)
      PROVE  FALSE
  <2>1. PICK base \in MonthlyBase(y) :
          version' = RunCycle(LockRows(IF version[base].locked THEN {} ELSE {base}), s,
                              [Absent EXCEPT !.year = y, !.role = "latest",
                                 !.through = through, !.previous = base])
    BY <1>2 DEF StartMonthly
  <2>. DEFINE table == LockRows(IF version[base].locked THEN {} ELSE {base})
              row == [Absent EXCEPT !.year = y, !.role = "latest",
                        !.through = through, !.previous = base]
  <2>2. base \in Scenario
    BY BaseExists
  <2>3. row \in Row /\ row.year = y /\ row.role = "latest" /\ ~row.locked /\ row.through = through
    BY <2>2, FiscalMonthsAreMonths DEF Row, Absent, Roles
  <2>4. table \in [Scenario -> Row]
    BY <2>2, LockedRows DEF Inv
  <2>5. version' = RunCycle(table, s, row)
    BY <2>1
  <2>. HIDE DEF table, row
  <2>6. version'[s].through = through
    BY <2>3, <2>4, <2>5, CycleRows DEF Roles
  <2>. QED  BY <2>6, FiscalMonthsAreMonths DEF NoMonth
<1>. QED  BY <1>1, <1>2 DEF Starts

\* It adds a plan to the active versions, and leaves the rest of them as they
\* are.
LEMMA StartAddsPlan ==
  ASSUME Inv, NEW s \in Scenario, NEW y \in Years, NEW fromCurrent \in BOOLEAN,
         StartFiscalYear(s, y, fromCurrent)
  PROVE  \E plan : /\ IsPlan(plan) /\ plan.year = y
                   /\ ActiveEntries' = ActiveEntries \union {plan}
<1>. DEFINE row == [Absent EXCEPT !.year = y, !.role = "initial"]
            plan == [id |-> s, year |-> y, role |-> "initial", through |-> NoMonth]
<1>1. /\ row \in Row /\ row.year = y /\ row.role = "initial" /\ row.through = NoMonth /\ ~row.locked
  BY DEF Row, Absent, Roles
<1>2. /\ version[s] = Absent /\ ActiveOf(y) = {} /\ version' = RunCycle(version, s, row)
  BY DEF StartFiscalYear, Exists
<1>3. version \in [Scenario -> Row] /\ ~version[s].active
  BY <1>2 DEF Inv, TypeOK, Absent
<1>. HIDE DEF row
<1>4. /\ version'[s].year = y /\ version'[s].role = "initial" /\ version'[s].active
      /\ version'[s].through = NoMonth
  BY <1>1, <1>2, <1>3, CycleRows DEF Roles
<1>5. \A t \in Scenario \ {s} : version'[t].active <=> version[t].active /\ version[t].year # y
  BY <1>1, <1>2, <1>3, CycleRows DEF Roles
<1>6. \A t \in Scenario \ {s} : version[t].active => version[t].year # y /\ version'[t] = version[t]
  BY <1>1, <1>2, <1>3, CycleOfOneYear DEF ActiveOf
<1>7. Entry(s)' = plan
  BY <1>4 DEF Entry
<1>8. \A t \in Scenario \ {s} : version'[t].active <=> version[t].active
  BY <1>5, <1>6
<1>9. \A t \in Scenario \ {s} : version[t].active => Entry(t)' = Entry(t)
  BY <1>6 DEF Entry
<1>10. ActiveEntries' = ActiveEntries \union {plan}
  BY <1>3, <1>4, <1>7, <1>8, <1>9 DEF ActiveEntries
<1>11. IsPlan(plan) /\ plan.year = y
  BY DEF IsPlan
<1>. QED  BY <1>10, <1>11

\* A plan is no forecast: the newest forecast stays the newest.
LEMMA PlanIsNotCurrent ==
  ASSUME NEW S, OnePerYear(S), NEW plan, OnePerYear(S \union {plan}), IsPlan(plan),
         CurrentOf(OldestFirst(S)).through # NoMonth
  PROVE  CurrentOf(OldestFirst(S \union {plan})) = CurrentOf(OldestFirst(S))
<1>. DEFINE old == CurrentOf(OldestFirst(S))
            new == CurrentOf(OldestFirst(S \union {plan}))
            forecasts == {v \in S : ~IsPlan(v)}
<1>1. ~IsPlan(old) /\ old # Missing
  BY DEF IsPlan, Missing
<1>2. old \in forecasts /\ \A v \in forecasts : v.year <= old.year
  BY <1>1, CurrentOfIs
<1>3. forecasts = {v \in S \union {plan} : ~IsPlan(v)}
  OBVIOUS
<1>4. new \in forecasts /\ \A v \in forecasts : v.year <= new.year
  BY <1>2, <1>3, CurrentOfIs
<1>5. old.year \in Nat /\ new.year \in Nat /\ (old.year = new.year => old = new)
  BY <1>2, <1>4 DEF OnePerYear
<1>. HIDE DEF old, new
<1>6. old.year = new.year
  BY <1>2, <1>4, <1>5
<1>. QED  BY <1>5, <1>6 DEF old, new

\* The plan of a later year does not take the place of the forecast in progress
\* (PlanKeepsCurrentForecast of Scenarios).
PlanKeepsCurrent(s) ==
  /\ ~Exists(s) /\ version'[s].active /\ version'[s].through = NoMonth
  /\ CurrentOf(ActiveList).through # NoMonth
  /\ CurrentOf(ActiveList).year < version'[s].year
  => CurrentOf(ActiveList)' = CurrentOf(ActiveList)

THEOREM PlanDoesNotTakeOver == Spec => PlanKeepsCurrentForecast
<1>1. ASSUME Inv, FewRows, Inv', FewRows', Next, NEW s \in Scenario PROVE PlanKeepsCurrent(s)
  <2>1. SUFFICES ASSUME ~Exists(s), version'[s].active, version'[s].through = NoMonth,
                        CurrentOf(ActiveList).through # NoMonth
                 PROVE  CurrentOf(ActiveList)' = CurrentOf(ActiveList)
    BY DEF PlanKeepsCurrent
  <2>2. PICK y \in Years : Starts(s, y)
    <3>1. version'[s] # Absent
      BY <2>1 DEF Absent
    <3>2. Exists(s)'
      BY <3>1 DEF Exists
    <3>. QED  BY <1>1, <2>1, <3>2, MadeBy
  <2>3. PICK fromCurrent \in BOOLEAN : StartFiscalYear(s, y, fromCurrent)
    BY <1>1, <2>1, <2>2, StartsWith
  <2>4. PICK plan : IsPlan(plan) /\ ActiveEntries' = ActiveEntries \union {plan}
    BY <1>1, <2>3, StartAddsPlan
  <2>5. OnePerYear(ActiveEntries) /\ OnePerYear(ActiveEntries')
    <3>1. OnePerYear(ActiveEntries)
      BY <1>1, OneEntryPerYear
    <3>2. OnePerYear(ActiveEntries)'
      BY <1>1, OneEntryPerYear, PTL
    <3>. QED  BY <3>1, <3>2 DEF OnePerYear
  <2>6. CurrentOf(OldestFirst(ActiveEntries)).through # NoMonth
    BY <2>1 DEF ActiveList
  <2>7. CurrentOf(OldestFirst(ActiveEntries')) = CurrentOf(OldestFirst(ActiveEntries))
    BY <2>4, <2>5, <2>6, PlanIsNotCurrent
  <2>8. ActiveList' = OldestFirst(ActiveEntries')
    BY DEF ActiveList
  <2>. QED  BY <2>7, <2>8 DEF CurrentOf, ActiveList
<1>2. Inv /\ FewRows /\ Inv' /\ FewRows' /\ [Next]_vars =>
        [\A s \in Scenario :
           /\ ~Exists(s) /\ version[s]'.active /\ version[s]'.through = NoMonth
           /\ CurrentOf(ActiveList).through # NoMonth
           /\ CurrentOf(ActiveList).year < version[s]'.year
           => CurrentOf(ActiveList)' = CurrentOf(ActiveList)]_vars
  BY <1>1 DEF PlanKeepsCurrent
<1>. QED
  BY <1>2, SpecInv, SpecFewRows, PTL DEF Spec, PlanKeepsCurrentForecast

-----------------------------------------------------------------------------
\* Whatever the calls did, the loops find the two versions of the comment.
LEMMA Classified ==
  ASSUME Inv, FewRows
  PROVE  ActiveVersionsClassified
<1>. DEFINE S == ActiveEntries
            list == OldestFirst(S)
            current == CurrentOf(list)
            next == NextPlanOf(list)
<1>1. OnePerYear(S) /\ \A v, w \in S : v.id = w.id => v = w
  BY OneEntryPerYear
<1>. HIDE DEF S
<1>2. /\ S = {} => current = Missing
      /\ {v \in S : ~IsPlan(v)} # {} => /\ current \in {v \in S : ~IsPlan(v)}
                                        /\ \A v \in {v \in S : ~IsPlan(v)} : v.year <= current.year
      /\ S # {} /\ {v \in S : ~IsPlan(v)} = {} => /\ current \in S
                                                  /\ \A v \in S : v.year >= current.year
  BY <1>1, CurrentOfIs
<1>3. current \in S \/ (S = {} /\ current = Missing)
  BY <1>2
<1>4. {v \in S : v.id # current.id /\ IsPlan(v) /\ v.year > current.year}
        = {v \in S : IsPlan(v) /\ v.year > current.year}
  <2>1. ASSUME NEW v \in S, v.year > current.year PROVE v.id # current.id
    BY <1>1, <1>3, <2>1 DEF OnePerYear
  <2>. HIDE DEF current
  <2>. QED  BY <2>1
<1>5. LET later == {v \in S : IsPlan(v) /\ v.year > current.year}
      IN  /\ later = {} => next = Missing
          /\ later # {} => next \in later /\ \A v \in later : v.year >= next.year
  BY <1>1, <1>4, NextPlanOfIs
<1>6. next \in S \/ next = Missing
  BY <1>5
<1>7. \A id : (\E i \in DOMAIN list : list[i].id = id) <=> \E v \in S : v.id = id
  <2>1. InOrder(S, list)
    BY <1>1, OldestFirstIs
  <2>. HIDE DEF list
  <2>. QED  BY <2>1 DEF InOrder
<1>8. ActiveEntries = S /\ ActiveList = list
  BY DEF ActiveList, S
<1>9. \A s \in Scenario : (\E v \in S : v.id = s) <=> version[s].active
  <2>1. S = {Entry(s) : s \in {s \in Scenario : version[s].active}}
    BY DEF S, ActiveEntries
  <2>2. \A s : Entry(s).id = s
    BY DEF Entry
  <2>. QED  BY <2>1, <2>2
<1>. HIDE DEF current, next, list
<1>10. CurrentIsNewestForecast
  BY <1>2, <1>8 DEF CurrentIsNewestForecast, current
<1>11. NextPlanIsOldestLaterPlan
  BY <1>5, <1>8 DEF NextPlanIsOldestLaterPlan, current, next
<1>12. \A id : KindOf(list, id) = IF id = current.id THEN "current"
                                  ELSE IF id = next.id THEN "next_plan"
                                  ELSE IF \E v \in S : v.id = id THEN "other" ELSE "none"
  BY <1>7 DEF KindOf, current, next
<1>13. ASSUME NEW kind \in {"current", "next_plan"}
       PROVE  Cardinality({s \in Scenario : KindOf(list, s) = kind}) <= 1
  <2>. DEFINE found == IF kind = "current" THEN current.id ELSE next.id
              kept == {s \in Scenario : KindOf(list, s) = kind}
  <2>1. kept \in SUBSET {found}
    BY <1>12
  <2>. HIDE DEF kept, found
  <2>2. IsFiniteSet({found}) /\ Cardinality({found}) = 1
    BY FS_Singleton
  <2>3. Cardinality(kept) <= 1
    BY <2>1, <2>2, FS_Subset
  <2>. QED  BY <2>3 DEF kept
<1>14. Missing.id \notin Scenario
  BY ScenarioAssumption DEF Missing
<1>15. \A s \in Scenario : KindOf(list, s) = "none" <=> ~version[s].active
  BY <1>3, <1>6, <1>9, <1>12, <1>14
<1>. QED  BY <1>8, <1>10, <1>11, <1>13, <1>15 DEF ActiveVersionsClassified

\* In every state of the life cycle, with any number of years and versions, the
\* loops of Classify find the current forecast and the next plan of the comment
\* of the package, and each active version has one kind
\* (ActiveVersionsClassified of Scenarios).
THEOREM LifeCycleIsClassified == Spec => []ActiveVersionsClassified
<1>1. Inv /\ FewRows => ActiveVersionsClassified
  BY Classified
<1>. QED  BY <1>1, SpecInv, SpecFewRows, PTL
=============================================================================

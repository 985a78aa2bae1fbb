SPECIFICATION Spec
CONSTANTS
  NoScenario = NoScenario
  Scenario = {s1, s2}
  Years = {1}
  MonthsPerYear = 2
  Call = {c1}
  Contents = {none, booked, corrected}
  NoRows = none
SYMMETRY ScenarioSymmetry
ACTION_CONSTRAINT WithoutRevised
INVARIANTS
  TypeOK
  KeptActualsMatchVersion
  PreviousInYear
PROPERTIES
  LockedNumbersStay
  ClosedYearStaysReconciled

SPECIFICATION Spec
CONSTANTS
  NoScenario = NoScenario
  Scenario = {s1, s2, s3}
  Years = {1, 2, 3}
  MonthsPerYear = 1
  Call = {c1}
  Contents = {none}
  NoRows = none
SYMMETRY ScenarioSymmetry
ACTION_CONSTRAINT SwitchingOnly
INVARIANTS
  OneHolderPerAlias
  ActiveVersionsClassified
PROPERTIES
  OnePlacePerYear
  SwitchKeepsOtherYears
  ClosingEndsEntry
  PlanKeepsCurrentForecast

SPECIFICATION Spec
CONSTANTS
  Server = {a1}
  Request = {r1}
  p1 = p1
  u1 = u1
  u2 = u2
  x1 = x1
  Plan = {p1, p2}
  Unit = {u1, u2}
  Activity = {x1}
  NoUnit = NoUnit
  Items <- MCItems
  MaxCrashes = 1
ACTION_CONSTRAINT FixedContents
INVARIANTS
  TypeOK
  ActivitiesInActiveUnits
PROPERTIES
  LoopsApplyWhatIsDue
  AppliedStays
  DueIsSettled

SPECIFICATION Spec
CONSTANTS
  None = None
  me = me somebody = somebody
  root = root left = left deep = deep right = right single = single
  ua = ua ub = ub uc = uc ud = ud
  a1 = a1 a2 = a2 a3 = a3 a4 = a4 a5 = a5
  Me = me
  Role = "manager"
  Segments <- MCSegments
  Units <- MCUnits
  Activities <- MCActivities
  Versions <- MCVersions
  Causes <- MCCauses
  Amounts <- MCAmounts
  Limit = 2
  MaxInputs = 2
  MaxGets = 3
INVARIANT
  NumbersAreOfTheirVersion
CHECK_DEADLOCK FALSE

SPECIFICATION Spec
CONSTANTS
  Call = {c1, c2, c3}
  m1 = m1
  y1 = y1
  y2 = y2
  Month = {m1}
  Year = {y1}
  YearOf <- MCYearOf
  Box = {b1}
  Activity = {a1}
  Unallocated = Unallocated
  NoCall = NoCall
SYMMETRY CallSymmetry
ACTION_CONSTRAINT YearsOpen
INVARIANT FactsMatchEntries

SPECIFICATION Spec
CONSTANTS
  RowKey = {r1, r2, r3}
  ReadOnly = {r3}
  Cols = 2
  Texts = {"", "1"}
  Empty = ""
  None = None
  MaxEvents = 5
INVARIANTS
  SelectionInGrid
  FieldIsWhereEditingBegan
PROPERTIES
  OnlyEditableIsWritten
CHECK_DEADLOCK FALSE

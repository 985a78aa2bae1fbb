SPECIFICATION Spec
CONSTANTS
  Drivers = {d1}
  Amounts = {a1}
  Values = {0, 1, 2}
  Texts = {t1, t2}
  None = None
  HistoryMax = 2
  MaxLoads = 1
  MaxInputs = 3
INVARIANTS
  TypeOK
  AnsweredSaveIsStored
  SettledScreenIsStored
PROPERTIES
  FailedSaveKeepsInput
  CompletionStandsForItsNumbers
  PreviewSettles
CHECK_DEADLOCK FALSE

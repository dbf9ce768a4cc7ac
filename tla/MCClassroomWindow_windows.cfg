CONSTANTS
  Files <- MCFiles
  HashOf <- MCHashOf
  MaxTag = 1
  MaxRating = 1
  SearchTicks = 1
  TempoTicks = 1
  LimitTicks = 2
  Tempos = {0, 3}
  Limits = {30}
  MaxSteps = 4
SPECIFICATION Spec
INVARIANTS TableFollowsLibrary FieldsOfSelectedRow
PROPERTIES RemovesTheChosen EditsTakeEffect
CHECK_DEADLOCK FALSE

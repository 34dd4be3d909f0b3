CONSTANTS
  None = None
  NumItems = 2
  Type <- MCMixedTypes
  Value <- MCMixedValues
  Assignment <- MCCalendar
  FullScore = 2
  RewardForNo = 1
  t0 = t0
  t1 = t1
  DefaultText = t0
  Texts = {t0}
  HoldTime = 0
  ExtendWindow = 1
  ExtendBy = 1
  Dates = {3}
  MaxTime = 4
SPECIFICATION Spec
INVARIANTS
  EvaluatedWorkSettled
PROPERTIES
  ClosedGradeStands
  StatusMovesForward
  ExtensionReopens

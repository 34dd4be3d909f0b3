CONSTANTS
  None = None
  NumItems = 2
  Type <- MCGradedTypes
  Value <- MCGradedValues
  Assignment <- MCCalendar
  FullScore = 2
  RewardForNo = 1
  t0 = t0
  t1 = t1
  DefaultText = t0
  Texts = {t0, t1}
  HoldTime = 0
  ExtendWindow = 1
  ExtendBy = 2
  Dates = {1, 3}
  MaxTime = 5
SPECIFICATION Spec
PROPERTIES
  NoReturnFromSelfEval

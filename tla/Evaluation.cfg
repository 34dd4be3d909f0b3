CONSTANTS
  None = None
  NumItems = 2
  Type <- MCGradedTypes
  Value <- MCGradedValues
  Assignment <- MCShortCalendar
  FullScore = 2
  RewardForNo = 1
  t0 = t0
  t1 = t1
  DefaultText = t0
  Texts = {t0, t1}
  HoldTime = 0
  ExtendWindow = 1
  ExtendBy = 1
  Dates = {2}
  MaxTime = 2
SPECIFICATION Spec
INVARIANTS
  TypeOK
  GradeNeedsResponse
  SelfAwardedGrades
  UnseenAwaitsRegrade
  ReadyMeansGraded
PROPERTIES
  FullMarksStand

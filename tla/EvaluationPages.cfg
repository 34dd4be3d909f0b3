CONSTANTS
  None = None
  Shut = Shut
  NumItems = 2
  Type <- MCType
  Value <- MCValue
  FullScore = 2
  RewardForNo = 1
  Texts = {"", "x"}
  DefaultText = ""
  GivenScores = {0, 2}
  GivenStatuses = {"ready"}
  EvalDates = {0, 1}
  MaxPages = 1
  MaxWrites = 3
  MaxTime = 1
SPECIFICATION Spec
CHECK_DEADLOCK FALSE
INVARIANTS
  CacheCoherent
PROPERTIES
  WritesWhatItShows
  RegradedUnlessBlind
  SecondGradeOnlyByAdmin

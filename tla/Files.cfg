CONSTANTS
  NumStudents = 2
  Admin = Admin
  Assignments = {1, 2}
  WebAllowed = {1}
  Homework <- MCHomework
  Names = {"hw.c", "hw.log"}
  Matches <- MCMatches
  MaxBytes = 1
  Quotas = {1}
  InitialQuota = 1
  Periods = {TRUE}
  GivenPurposes = {"log"}
  MaxFiles = 2
  None = None
SPECIFICATION Spec
INVARIANTS
  TypeOK
  NamesDistinct
  QuotaKept
PROPERTIES
  WorkSurvives
  KeepsFolders

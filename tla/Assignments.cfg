CONSTANTS
  None = None
  a1 = a1
  a2 = a2
  Admins <- MCAdmins
  FirstDates <- MCDates
  Days = {0, 2}
  Edited = {"due", "eval"}
  LastDay = 2
  MaxAssignments = 2
  MaxItems = 2
  MaxWrites = 2
SPECIFICATION Spec
SYMMETRY Symmetry
INVARIANTS NumberedInOrder DeadlineStands
PROPERTIES RemovedKnowingly DatesOneAtATime ClosedKnowingly
CHECK_DEADLOCK FALSE

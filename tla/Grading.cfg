CONSTANTS
  None = None
  s1 = s1
  s2 = s2
  i1 = i1
  i2 = i2
  Items = {i1, i2}
  Sessions = {s1, s2}
  Graders = {s1, s2}
  User <- TwoGraders
  HoldTime = 0
  Ids = {1, 2, 3, 4}
  MaxVersion = 1
  MaxSaves = 2
SPECIFICATION Spec
SYMMETRY Symmetry
INVARIANTS
  TypeOK
PROPERTIES
  SavedGradesSurvive

SPECIFICATION Spec
CONSTANTS
  adm = adm
  ann = ann
  b1 = b1
  b2 = b2
  None = None
  Names <- MCNames
  FirstAdmin = adm
  Browsers <- MCBrowsers
  Visited <- MCVisited
  Person <- MCPerson
  AutoCreate = TRUE
  MaxAccounts = 3
  MaxKeys = 1
  MaxWrites = 2
INVARIANTS ShownToEntitled PowersFromAdmins GateKept
PROPERTIES WritesOneField
CHECK_DEADLOCK FALSE

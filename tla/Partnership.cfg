CONSTANTS
  NumUsers = 4
  Students = {1, 2, 3}
  Admins = {4}
  None = None
SPECIFICATION Spec
INVARIANTS
  TypeOK
  OneSubmissionEach
  RequestsDistinct
  PartneredUsersUnasked
PROPERTIES
  PartnersByConsent

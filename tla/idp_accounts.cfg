SPECIFICATION Spec
CONSTANTS
  Emails <- MCEmails
  RawEmails <- MCRawEmails
  LowerEmail <- MCLowerEmail
  OwnDomain <- MCOwnDomain
  Names <- MCNames
  RawNames <- MCRawNames
  Canon <- MCCanon
  Requests = {r1, r2}
  SessionIds = {s1}
  MaxAccounts = 2
  MaxTime = 1
  SESSION_TTL = 0
  None = None
SYMMETRY Symmetric
CHECK_DEADLOCK FALSE
INVARIANTS OneNamespace ModeHasHandle SessionResolvesToSigner
PROPERTY RegistryImplemented

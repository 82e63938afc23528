SPECIFICATION StillSpec
CONSTANTS
  Accounts = {a1}
  Identities <- MCIdentities
  EmailOf <- MCEmailOf
  IssuerOf <- MCIssuerOf
  Issuers <- MCIssuers
  OwnIssuer = "idp"
  Poster = Poster
  Requests = {r1, r2}
  MaxCodes = 2
  MaxTime = 0
  REUSE_MARGIN = 1
  CODE_LIFE = 2
  WARRANT_LIFE = 1
  DNSSEC_MARGIN = 0
  PROOF_LIFE = 0
  None = None
SYMMETRY Symmetric
CHECK_DEADLOCK FALSE
INVARIANTS StoredWarrantIsTheUsers OwnerIsCheckedIdentity DisableSticks

SPECIFICATION FairSpec
CONSTANTS
  Accounts = {a1}
  Identities <- MCIdentities
  EmailOf <- MCEmailOf
  IssuerOf <- MCIssuerOf
  Issuers <- MCIssuers
  OwnIssuer = "idp"
  Poster = Poster
  Requests = {r1}
  MaxCodes = 1
  MaxTime = 1
  REUSE_MARGIN = 1
  CODE_LIFE = 2
  WARRANT_LIFE = 1
  DNSSEC_MARGIN = 1
  PROOF_LIFE = 1
  POLL_TRIES = 2
  PICKUP_TRIES = 2
  MaxFaults = 1
  None = None
CHECK_DEADLOCK FALSE
INVARIANT ProofsFreshAtSend
PROPERTY ApprovalIsPickedUp

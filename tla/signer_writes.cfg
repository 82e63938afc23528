SPECIFICATION SignerFairSpec
CONSTANTS
  Writes = {"w1", "w2", "w3"}
  Domains = {"broker", "idp"}
  IssuerOf <- MCIssuerOf
  Broker = "broker"
  NoDomain = NoDomain
CHECK_DEADLOCK FALSE
INVARIANTS ProofsFreshAtSubmit
PROPERTY EveryWriteEnds

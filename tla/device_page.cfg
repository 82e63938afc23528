SPECIFICATION FairSpec
CONSTANTS
  Accounts = {a1, a2}
  Handles = {h1, h2}
  Tags = {t1}
  Holders = {b1}
  MaxVisits = 2
  MaxReloads = 1
  MaxSwitches = 1
  None = None

CHECK_DEADLOCK FALSE
INVARIANTS AgentAccessIsCertified CertsAsRequested
PROPERTY VisitIsAnswered

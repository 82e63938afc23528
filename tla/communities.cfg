SPECIFICATION Spec
CONSTANTS
  Comms = {"cooks"}
  GenesisComms <- MCGenesis
  Users = {u1, u2}
  Issuers = {"cooks@"}
  IssuerAt <- MCIssuerAt
  Segments = {"general", "trades"}
  SpaceLists <- MCLists
  General = "general"
  Sys = Sys
  Successor = Successor
  Operators = {o1}
  None = None
  Anyone = Anyone
  Ghost = Ghost
  MaxOps = 4
  MaxPending = 2
  MaxClientPending = 1
SYMMETRY Symmetry
CHECK_DEADLOCK FALSE
INVARIANTS GenesisComplete WholeUnlessOverlapped RecoverableByRerun Uncaptured AppointedCanModerate
PROPERTIES ContentRule 

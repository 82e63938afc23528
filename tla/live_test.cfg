SPECIFICATION LiveSpec
CONSTANTS
  Chosen = {"S1","S2","S3","S4","S5","S6","S7","S8","S9","S10","S11","S12","S13"}
  FinalityBlocks = 2
  MaxDelay = 2
  MaxFaults = 2
  None = None
CHECK_DEADLOCK FALSE
INVARIANTS NoFalsePass NoFalseFail SweptUnlessRevoked

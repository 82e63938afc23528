SPECIFICATION GateSpec
CONSTANTS
  MaxWrites = 1
  Modals = {m1, m2}
  NoModal = NoModal
SYMMETRY MCSymmetry
CHECK_DEADLOCK FALSE
INVARIANTS WriteLandsOnce OffSurvives

SPECIFICATION Spec
CONSTANTS
  Operators = {o1, o2}
  Sys = Sys
  Others = {dan}
  Genesis = "genesis"
  Entries <- MCEntries
  Layers <- MCLayers
  MaxRuns = 4
CHECK_DEADLOCK FALSE
INVARIANTS CutoverAcknowledged NoDuplicateEntry
PROPERTY PriorEntriesKept

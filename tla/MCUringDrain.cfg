CONSTANTS
  Ops = {o1, o2}
  Entries = 2
  Batch = 0
  Peek = 2
  Posted = 2
  Lost = 1
  Drains = TRUE
  Faults = TRUE
SPECIFICATION Spec
INVARIANTS SuppressionTemporary

CONSTANTS
  Modules = {"mysql"}
  Partial = TRUE
  Garbage = {"f", "x"}
  MaxGathers = 1
SPECIFICATION Spec
INVARIANTS
  SealedIsJson
CHECK_DEADLOCK FALSE

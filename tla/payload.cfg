CONSTANTS
  Modules = {"os", "mysql"}
  Partial = FALSE
  Garbage = {"f"}
  MaxGathers = 2
SPECIFICATION Spec
INVARIANTS
  PayloadIsJson
  SealedHasRecord
CHECK_DEADLOCK FALSE

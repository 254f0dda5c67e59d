CONSTANTS
  MaxLines = 6
  MaxArgs = 2
  MaxPlugins = 2
SPECIFICATION Spec
INVARIANTS
  OverrunNeedsMany
  ConfMeaning
CHECK_DEADLOCK FALSE

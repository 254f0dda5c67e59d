CONSTANTS
  Routine = {"plugin"}
  Order <- PluginOrder
  Policy <- PluginPolicy
  Quick = {}
  Thread = {t1, t2, t3}
  MaxLate = 1
SPECIFICATION Spec
INVARIANTS
  OneLiveThread
  PostSpared
  WedgeNeedsMiss
PROPERTIES
  WedgedForGood
CHECK_DEADLOCK FALSE

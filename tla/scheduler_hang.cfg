CONSTANTS
  Routine = {"sch"}
  Order <- SchedulerOrder
  Policy <- SchedulerPolicy
  Quick = {}
  Thread = {t1, t2, t3}
  MaxLate = 0
SPECIFICATION FairSpec
PROPERTIES
  KeepsRunning
CHECK_DEADLOCK FALSE

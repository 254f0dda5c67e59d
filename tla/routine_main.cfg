CONSTANTS
  Routine = {"sch", "st"}
  Order <- MainOrder
  Policy <- MainPolicy
  Quick = {"sch"}
  Thread = {t1}
  MaxLate = 0
SPECIFICATION FairSpec
INVARIANTS
  TypeOK
PROPERTIES
  AnswerHeard
  AnswerMatchesCall
  KeepsRunning

CONSTANTS
  Models = {m1, m2}
  MaxModels = 1
  MaxCalls = 3
SPECIFICATION FairSpec
CHECK_DEADLOCK FALSE
INVARIANTS TypeOK NothingLost CalmAgreement NothingForgotten
PROPERTIES CallsSettle

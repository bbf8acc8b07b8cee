SPECIFICATION FairSpec
CONSTANTS
  r1 = r1
  r2 = r2
  Auth = Auth
  Req <- Requests
  MaxPairs = 3
  MaxSigns = 3
  MaxLosses = 1
  MaxRefusals = 1
INVARIANTS KeyringFollows LogoutIsFinal
PROPERTIES SessionKept RequestsSettle
CHECK_DEADLOCK FALSE

SPECIFICATION Spec
CONSTANTS
  s1 = s1
  s2 = s2
  home = home
  sub = sub
  Session <- MC_Session
  NoSession = NoSession
  Path <- MC_Path
  NoPath = NoPath
  Home = home
  Traits <- MC_Open
  InitialConnectAttempts = 1
  MaxReconnects = 1
  MaxOutages = 0
  MaxRequests = 3
INVARIANT KeepsConnections
CHECK_DEADLOCK FALSE

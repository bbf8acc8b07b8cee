SPECIFICATION LiveSpec
CONSTANTS
  s1 = s1
  s2 = s2
  home = home
  sub = sub
  Session <- MC_One
  NoSession = NoSession
  Path <- MC_Path
  NoPath = NoPath
  Home = home
  Traits <- MC_Traits
  InitialConnectAttempts = 2
  MaxReconnects = 1
  MaxOutages = 1
  MaxRequests = 3
INVARIANT PromptsOncePerAttempt
PROPERTY LoadingEnds
CHECK_DEADLOCK FALSE
PROPERTY NetworkListingsLand

SPECIFICATION RelayFairSpec
CONSTANTS
  Conn <- ConnSet
  Channel <- ChannelSet
  Watched = "c"
  Limit = 2
  MaxGiveUps = 1
  HighWater = 1
  NetCap = 2
  MaxWrite <- Writes
INVARIANTS TailArrives
PROPERTIES Connects PipesEnd
CHECK_DEADLOCK FALSE

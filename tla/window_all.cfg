SPECIFICATION WFairSpec
CONSTANTS
  l1 = l1
  t1 = t1
  t2 = t2
  NoJob = NoJob
  LocalJob = {}
  TransferJob = {t1, t2}
  Kind <- MC_KindTransfers
  PoolCap = 2
  InitLimit = 1
  Entries = 1
  MaxAsks = 1
  MaxRequests = 2
INVARIANTS BatchTracksQueue WorkWillShow
PROPERTIES WindowGoesAway CancelledJobEnds JobsSettle
CHECK_DEADLOCK FALSE

SPECIFICATION Spec
CONSTANTS
  l1 = l1
  l2 = l2
  t1 = t1
  t2 = t2
  NoJob = NoJob
  LocalJob = {l1, l2}
  TransferJob = {t1}
  Kind <- MC_KindLocal
  PoolCap = 1
  InitLimit = 1
  Entries = 1
  MaxAsks = 1
  MaxRequests = 1
INVARIANT AbortReachesEveryJob
CHECK_DEADLOCK FALSE

SPECIFICATION Spec
CONSTANTS
  l1 = l1
  l2 = l2
  t1 = t1
  t2 = t2
  NoJob = NoJob
  LocalJob = {l1, l2}
  TransferJob = {t1,t2}
  Kind <- MC_KindBoth
  PoolCap = 2
  InitLimit = 1
  Entries = 2
  MaxAsks = 1
  MaxRequests = 1
INVARIANTS NobodyForgotten
PROPERTIES PipelinesRefine
CHECK_DEADLOCK FALSE

\* Two workers that each need a read and a write connection, on a pool that
\* shrinks and grows between one and two connections, is shut down and is set
\* up again.
SPECIFICATION FairSpec
CONSTANTS
  Worker = {w1, w2}
  Conn = {c1, c2, c3}
  Sizes = {0, 2}
  BorrowTimeout = 1
  MaxBorrows = 2
  MaxOwnerOps = 3
INVARIANTS
  OneOwner
  SlotsAccounted
  NoLostWakeup
  ShutPoolIsEmpty
  ReapersGoneBeforeHandlers
PROPERTIES
  BorrowReturns
\* After the drain the process is over.
CHECK_DEADLOCK FALSE

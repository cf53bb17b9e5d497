SPECIFICATION FairSpec
CONSTANTS
  fd1 = fd1
  fd2 = fd2
  Fds = {fd1, fd2}
  nofde = nofde
  NotifyCap = 2
  NotifyRead = 1
  MaxFdes = 2
  MaxOps = 2
  MaxQueued = 3
INVARIANTS  PendingIsListed NothingUnwanted QueueIsNoticed
PROPERTY ClosuresRun
CHECK_DEADLOCK FALSE

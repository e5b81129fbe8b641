SPECIFICATION FairSpec
CONSTANTS
  Clients = {c1, c2}
  None = None
  QueueCap = 2
  ChanCap = 1
  MaxAge = 4
INVARIANTS ManagerInv NoGap
PROPERTIES AllLeave Unsubscribed
CHECK_DEADLOCK FALSE

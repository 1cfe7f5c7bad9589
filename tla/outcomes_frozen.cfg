\* One window beyond the listing session, and a worker alone.
SPECIFICATION FairSpec
CONSTANTS
  Offerings = {ipo, us}
  India = {ipo}
  Junk = {}
  Sessions = {worker}
  Worker = worker
  MaxAnnounced = 1
  MaxTrouble = 0
  Limit = 1
  Windows = 1
  MaxGaps = 0
PROPERTY WindowsFillIn
CHECK_DEADLOCK FALSE

\* Outbox: failures, dead passes and one use of the admin's retry.  Alerts:
\* three snapshots of which a pass sees two, a red flag.  Digest: nearly three
\* weeks.  Loop: a performance pass every second cycle, a day of four.
\* Backfills: four rows, the last of them new.
SPECIFICATION WorkerSpec
CONSTANTS
  l1 = l1  l2 = l2  i1 = i1
  Leads = {l1, l2}
  Limit = 1
  MaxAttempts = 2
  MaxFaults = 4
  MaxRetries = 1
  AlertLeads = {l1, l2}
  Ipos = {i1}
  MaxSnapshots = 3
  ScoreLimit = 2
  MaxCrashes = 1
  Subscribers = {l1, l2}
  WeekLen = 4
  LastInstant = 11
  Polls = 2
  PerfEvery = 2
  DailyEvery = 4
  MaxStops = 3
  Ids = {1, 2, 3, 4}
  PassLimit <- MCPassLimit
  MaxCuts = 1
INVARIANTS
  TypeOK AppendsAccountedFor DigestsNeverCollide
PROPERTIES EventuallySynced NewAlertsAreQueued LoopKeepsRunning EveryRowIsTried

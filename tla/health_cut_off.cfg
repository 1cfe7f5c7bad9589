\* One feed of every refresh and the daily reports, three hours: a pass is killed
\* midway, and the site says its source was read.
SPECIFICATION HealthSpec
CONSTANTS
  Frequent = 1
  Configured = FALSE
  FreshFor = 0
  DailyFreshFor = 1
  DelayedFor = 1
  LastHour = 2
  MaxJobs = 2
INVARIANT FreshMeansRead
CHECK_DEADLOCK FALSE

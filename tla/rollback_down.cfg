\* The same instances, no revision broken: does a rollback leave the site up?
SPECIFICATION SafetySpec
CONSTANTS
  e1 = e1  e2 = e2  r1 = r1  r2 = r2
  d1 = d1  d2 = d2  v1 = v1  v2 = v2  v3 = v3  w1 = w1  w2 = w2  o1 = o1  o2 = o2
  f1 = f1  f2 = f2
  q1 = q1  q2 = q2
  i1 = i1  i2 = i2
  t1 = t1  t2 = t2  c1 = c1  c2 = c2
  y1 = y1  y2 = y2  u1 = u1  u2 = u2  u3 = u3
  Emails = {e1, e2}
  Requests = {r1, r2}
  MaxEvents = 2
  MaxCrashes = 1
  Scripts = {d1, d2}
  Revisions = {v1, v2, v3}
  Migrations <- MCMigrations
  Broken = {}
  First = v1
  MaxKills = 1
  MaxMishaps = 1
  Writers = {w1, w2}
  KeepDays = 1
  LastDay = 3
  Offerings = {o1, o2}
  MaxRuns = 3
  MaxFetchFailures = 1
  LiveFrom = 4
  Filings = {f1, f2}
  FiledOn <- MCFiledOn
  Holidays = {}
  Budget = 1
  MaxRefusals = 0
  MaxDeaths = 0
  Symbols = {y1, y2}
  PoolSize = 2
  MaxCacheKills = 0
  EdgarDays = 1
  Lookback = 2
  Urls = {u1, u2, u3}
  SourceOf <- MCSourceOf
  Prices = {100}
  MaxAge = 8
  DatasetDays = 5
  YearLen = 2
  TradingDays = {1, 2, 3}
  CloseIsStale = 2
  Tickers = {q1, q2}
  ExchangeDays = 1
  ListingWindow = 1
  Frequent = 1
  Configured = FALSE
  FreshFor = 0
  DailyFreshFor = 1
  DelayedFor = 1
  LastHour = 0
  MaxJobs = 2
  Isins = {i1, i2}
  Listing <- MCListing
  FinalDay = 5
  Trading = {0, 1, 2, 4, 5}
  ReadBack = 1
  MaxFiles = 2
  NewListing = 3
  KeepListing = 1
  KeepRecent = 1
  ReturnWindows = {1, 3}
  Targets = {3}
  Slack = 1
  AnchorDays = 1
  MaxMisses = 1
  Threads = {t1, t2}
  Clients = {c1, c2}
  HitLimit = 1
  WindowLen = 2
  MaxKeys = 1
  SweepEvery = 2
  MaxClock = 2
  MaxHits = 0
INVARIANT RollbackIsSafe
CHECK_DEADLOCK FALSE

\* The worker and one admin refresh, each kind of offering; three rows over
\* passes of one; samples of four listings in two-day years; two reports of three
\* months.
SPECIFICATION PipelineSpec
CONSTANTS
  ipo = ipo  qip = qip  us = us  worker = worker  admin = admin
  row1 = row1  row2 = row2  row3 = row3
  Offerings = {ipo, qip, us}
  India = {ipo, qip}
  Junk = {qip}
  Sessions = {worker, admin}
  Worker = worker
  MaxAnnounced = 1
  MaxTrouble = 1
  Limit = 1
  Windows = 0
  MaxGaps = 1
  Rows = {row1, row2, row3}
  PerfLimit = 1
  Fresh = 3
  RetryAfter = 3
  MaxEnded = 1
  MaxFailures = 2
  ListingDays = 4
  DaysOfYear = 2
  MinTrain = 2
  MaxListings = 4
  FactMonths = 3
  FiscalYear = 1
  LagMonths = 1
  MaxReports = 2
INVARIANTS OneOutcome FiguresAgree
PROPERTIES StatusMovesForward PredictionsAreJudged RowsAreServed EvaluationIsHonest
CHECK_DEADLOCK FALSE

\* The queue: a worker alone, the SMTP transport, fewer faults than a row has
\* attempts, and more rows than one window holds.  Two handlers on one lead's
\* access; three rows of the site.
SPECIFICATION ServiceSpec
CONSTANTS
  l1 = l1
  welcome1 = welcome1  alert1 = alert1  alert2 = alert2  digest2 = digest2
  h1 = h1  h2 = h2  k1 = k1  k2 = k2  s1 = s1  s2 = s2
  Leads = {l1}
  Messages = {welcome1, alert1, alert2, digest2}
  LeadOf <- MCLeadOf
  Priority <- MCPriority
  Processors = {worker}
  Provider = "smtp"
  StartEnabled = {TRUE}
  PostRetries = 2
  Limit = 1
  MaxAttempts = 2
  DailyLimit = 1
  MaxFaults = 1
  Handlers = {h1, h2}
  Tokens = {k1, k2}
  Cookies = {s1, s2}
  MaxDisables = 1
  RowIds = {1, 2, 3}
  Issuers = {"A"}
INVARIANTS SiteIsComplete
PROPERTIES EventuallyMailed AccessIsGranted
CHECK_DEADLOCK FALSE

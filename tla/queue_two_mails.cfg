\* The worker and an admin request, and a provider that never fails.
SPECIFICATION Spec
CONSTANTS
  l1 = l1
  welcome1 = welcome1  alert1 = alert1  alert2 = alert2
  Leads <- PairLeads
  Messages <- PairMessages
  LeadOf <- PairLeadOf
  Priority <- PairPriority
  Processors = {worker, admin}
  Provider = "resend"
  StartEnabled = {TRUE}
  PostRetries = 2
  Limit = 2
  MaxAttempts = 2
  DailyLimit = 1
  MaxFaults = 0
INVARIANT MailedOnce
SYMMETRY EitherProcessor

\* One processor: accounting, the daily limit and the abstract specification;
\* mail may start disabled, which lets rows use up their attempts.
SPECIFICATION Spec
CONSTANTS
  l1 = l1
  welcome1 = welcome1  alert1 = alert1  alert2 = alert2
  Leads <- PairLeads
  Messages <- TripleMessages
  LeadOf <- TripleLeadOf
  Priority <- TriplePriority
  Processors = {worker}
  Provider = "resend"
  StartEnabled = {TRUE, FALSE}
  PostRetries = 2
  Limit = 2
  MaxAttempts = 2
  DailyLimit = 1
  MaxFaults = 1
SYMMETRY EitherAlert
INVARIANTS TypeOK MailsAccountedFor QuotaRespected
PROPERTY DeliverySpec

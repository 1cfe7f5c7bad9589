\* Leads opt out, come back and bounce while two processors run passes; and
\* one processor's passes beside the provider's events.
SPECIFICATION EventsSpec
CONSTANTS
  l1 = l1  welcome1 = welcome1  alert1 = alert1
  Leads <- MCLeads
  Messages <- MCMessages
  LeadOf <- MCLeadOf
  Priority <- MCPriority
  Processors = {worker, admin}
  Provider = "resend"
  StartEnabled = {TRUE, FALSE}
  PostRetries = 2
  Limit = 2
  MaxAttempts = 2
  DailyLimit = 1
  MaxFaults = 2
  MaxMails = 3
INVARIANTS OptOutHolds ReceiptIsReal OneSenderPerRow
 
SYMMETRY EitherProcessor

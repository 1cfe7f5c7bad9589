---------------------------- MODULE MCEmailEvents ---------------------------
\* Two instances of the queue: scope "consent" has two processors over two rows
\* of a lead that leaves, returns and bounces; scope "webhooks" has passes that
\* do not overlap, over one row, beside the provider's events.
EXTENDS EmailConsent, EmailWebhooks, TLC

CONSTANTS l1, welcome1, alert1
VARIABLE scope

\* No property tells one processor from the other.
EitherProcessor == Permutations(Processors)

MCLeads == {l1}
MCMessages == {welcome1, alert1}
MCLeadOf == [m \in MCMessages |-> l1]
MCPriority == [m \in MCMessages |-> IF m = welcome1 THEN 0 ELSE 2]

\* No two passes at once, and nothing but the alert.
Alone ==
  /\ \A p, q \in Processors : sess'[p].pc # "idle" /\ sess'[q].pc # "idle" => p = q
  /\ UNCHANGED row[welcome1]

EventsInit ==
  /\ scope \in {"consent", "webhooks"}
  /\ CInit /\ WInit
  /\ scope = "webhooks" \/ enabled

EventsNext ==
  /\ UNCHANGED scope
  /\ \/ scope = "consent" /\ Next /\ UNCHANGED hookVars /\ faults' <= 1
     \/ scope = "webhooks" /\ WNext /\ Alone
  /\ Remember

EventsSpec == EventsInit /\ [][EventsNext]_<<scope, vars, history, hookVars>>
=============================================================================

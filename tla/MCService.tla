------------------------------ MODULE MCService ------------------------------
\* What the people on the list meet, each on an instance of its own, the one
\* scope names: their queued mail, their way in, and the site's lists.  These share no state.
EXTENDS EmailQueue, BetaAccess, SiteBuild, TLC

CONSTANTS l1, welcome1, alert1, alert2, digest2, h1, h2, k1, k2, s1, s2
VARIABLE scope

\* One lead, and more rows than a window of 3 * Limit holds.
MCLeadOf == [m \in Messages |-> l1]
MCPriority ==
  [m \in Messages |-> CASE m = welcome1 -> 0 [] m = digest2 -> 3 [] OTHER -> 2]

\* A backlog: the lead has joined and every row is waiting, in this order.  The
\* state is reachable from Init.
Backlog == <<alert1, digest2, welcome1, alert2>>
BacklogInit ==
  /\ known = Leads /\ consented = Leads /\ suppressed = {}
  /\ row = [m \in Messages |->
       [NoRow EXCEPT !.status = "QUEUED",
                     !.queuedAt = CHOOSE i \in 1..4 : Backlog[i] = m]]
  /\ sentToday = {} /\ cooling = {}
  /\ sess = [p \in Processors |-> NoSession]
  /\ enabled = TRUE
  /\ mails = [m \in Messages |-> 0] /\ lost = mails
  /\ faults = 0

ServiceInit ==
  /\ scope \in {"queue", "access", "site"}
  /\ IF scope = "queue" THEN BacklogInit ELSE Init
  /\ AccessInit /\ SiteInit
  /\ scope = "site" \/ \A r \in RowIds : /\ table[r].status = "NotIPO" /\ issuerOf[r] = "nameless"
                                         /\ base[r] = <<r>> /\ richness[1] = 1

ServiceNext ==
  /\ UNCHANGED scope
  /\ \/ scope = "queue" /\ Next /\ UNCHANGED <<accessVars, siteVars>>
     \/ scope = "access" /\ AccessNext /\ UNCHANGED <<vars, siteVars>>
     \/ scope = "site" /\ SiteNext /\ UNCHANGED <<vars, accessVars>>

\* EmailQueue's Fairness, in its scope.
ServiceSpec ==
  /\ ServiceInit /\ [][ServiceNext]_<<scope, vars, accessVars, siteVars>>
  /\ \A p \in Processors : WF_vars(scope = "queue" /\ PassStep(p))
  /\ \A m \in Messages : WF_vars(scope = "queue" /\ BackoffOver(m))
  /\ WF_vars(scope = "queue" /\ NewDay)
=============================================================================

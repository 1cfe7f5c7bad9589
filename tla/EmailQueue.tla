----------------------------- MODULE EmailQueue -----------------------------
(***************************************************************************)
(* The e-mail queue of app/services/email_queue.py: the email_messages     *)
(* table, the waitlist leads it writes to, and the processors that run     *)
(* process_queue() over it - the worker loop (app/worker.py) and, when an  *)
(* operator asks for it, a web thread (POST /api/admin/email/process).     *)
(*                                                                         *)
(* A pass is one database transaction.  It selects a window of QUEUED      *)
(* rows, loads the leads it meets into its session, calls the provider     *)
(* once per row, and commits the outcome of every row together at its      *)
(* end.  The database is PostgreSQL at READ COMMITTED: other transactions  *)
(* see nothing of a pass before its commit, a flushed row stays locked     *)
(* until then, and an UPDATE that waited for the lock overwrites what the  *)
(* other transaction wrote.                                                *)
(***************************************************************************)
EXTENDS Naturals, FiniteSets

CONSTANTS
  Leads,         \* rows of waitlist_leads
  Messages,      \* the (lead, template, dedupe_key) triples a row can exist for
  Processors,    \* threads that run process_queue: the worker, an admin request
  LeadOf,        \* the recipient of a message
  Priority,      \* its priority, 0 (PRIORITY_TRANSACTIONAL) for welcome mails
  Provider,      \* the transport EMAIL_PROVIDER names
  StartEnabled,  \* the values ENABLE_EMAIL may have at first
  PostRetries,   \* max_retries of the Resend transport
  Limit,         \* rows a pass may hand to the provider
  MaxAttempts,   \* email_max_attempts
  DailyLimit,    \* email_daily_soft_limit
  MaxFaults      \* bound: provider faults and aborted passes in a behaviour

ASSUME MessagesAssumption == IsFiniteSet(Messages)
ASSUME LeadOfAssumption == LeadOf \in [Messages -> Leads]
ASSUME PriorityAssumption == Priority \in [Messages -> Nat]
ASSUME ProviderAssumption ==
  Provider \in {"smtp", "freeresend", "resend"} /\ StartEnabled \subseteq BOOLEAN
ASSUME NumberAssumption ==
  /\ PostRetries \in Nat \ {0}
  /\ Limit \in Nat \ {0}
  /\ MaxAttempts \in Nat \ {0}
  /\ DailyLimit \in Nat
  /\ MaxFaults \in Nat

VARIABLES
  known, consented, suppressed,  \* the leads: existing, consent, suppressed
  row,        \* email_messages: row[m], with status "none" while absent
  sentToday,  \* the rows whose sent_at lies in the current day
  cooling,    \* the rows whose retry backoff has not elapsed
  sess,       \* the processors' sessions
  enabled,    \* ENABLE_EMAIL
  mails,      \* how many mails of m the provider accepted
  lost,       \* history: accepted mails no committed row will ever record
  faults      \* faults so far

leadVars == <<known, consented, suppressed>>
providerVars == <<enabled, mails, lost, faults>>
vars == <<leadVars, row, sentToday, cooling, sess, providerVars>>

-----------------------------------------------------------------------------
Statuses == {"none", "QUEUED", "SENT", "DELIVERED", "DELAYED", "BOUNCED",
             "COMPLAINED", "FAILED", "SUPPRESSED", "UNSUBSCRIBED"}

\* What a pass has decided about a row and not yet committed.
Results == {"none", "QUEUED", "SENT", "FAILED", "SUPPRESSED", "UNSUBSCRIBED"}
Tried == {"QUEUED", "SENT", "FAILED"}

Row == [status : Statuses, attempts : 0..MaxAttempts, mailId : Nat, queuedAt : Nat]
NoRow == [status |-> "none", attempts |-> 0, mailId |-> 0, queuedAt |-> 0]

Session ==
  [pc : {"idle", "scan", "send"},
   todo : SUBSET Messages,          \* selected rows not visited yet
   hot : SUBSET Messages,           \* those within their backoff when selected
   seen : [Messages -> 0..MaxAttempts],  \* attempt_count as selected
   loaded : SUBSET Leads,           \* the lead in the identity map, and its
   consented : SUBSET Leads,        \*   attributes as they were when loaded
   suppressed : SUBSET Leads,
   result : [Messages -> Results],
   mailId : [Messages -> Nat],
   written : SUBSET Messages,       \* flushed rows: their row locks are held
   sentCount : Nat,                 \* sent_today
   sentToday : SUBSET Messages,     \* rows this pass sent in the current day
   processed : Nat,
   posts : Nat]                     \* POSTs of the provider call under way

NoSession ==
  [pc |-> "idle", todo |-> {}, hot |-> {}, seen |-> [m \in Messages |-> 0],
   loaded |-> {}, consented |-> {}, suppressed |-> {},
   result |-> [m \in Messages |-> "none"], mailId |-> [m \in Messages |-> 0],
   written |-> {}, sentCount |-> 0, sentToday |-> {}, processed |-> 0, posts |-> 0]

Init ==
  /\ known = {} /\ consented = {} /\ suppressed = {}
  /\ row = [m \in Messages |-> NoRow]
  /\ sentToday = {}
  /\ cooling = {}
  /\ sess = [p \in Processors |-> NoSession]
  /\ enabled \in StartEnabled
  /\ mails = [m \in Messages |-> 0]
  /\ lost = [m \in Messages |-> 0]
  /\ faults = 0

-----------------------------------------------------------------------------
(* Leads and enqueueing: the web handlers.                                 *)

\* POST /api/waitlist by a new address: the lead is committed on its own,
\* before its welcome mail is enqueued.
Join(l) ==
  /\ l \notin known
  /\ known' = known \cup {l}
  /\ consented' = consented \cup {l}
  /\ UNCHANGED <<suppressed, row, sentToday, cooling, sess, providerVars>>

\* The same endpoint, for a lead that had withdrawn its consent.
Rejoin(l) ==
  /\ l \in known \ consented
  /\ consented' = consented \cup {l}
  /\ suppressed' = suppressed \ {l}
  /\ UNCHANGED <<known, row, sentToday, cooling, sess, providerVars>>

Unsubscribe(l) ==
  /\ l \in consented
  /\ consented' = consented \ {l}
  /\ UNCHANGED <<known, suppressed, row, sentToday, cooling, sess, providerVars>>

\* _suppress_recipient, from a bounce or complaint about a mail to this lead.
Suppress(l) ==
  /\ l \in known \ suppressed
  /\ \E m \in Messages : LeadOf[m] = l /\ mails[m] > 0
  /\ suppressed' = suppressed \cup {l}
  /\ UNCHANGED <<known, consented, row, sentToday, cooling, sess, providerVars>>

\* enqueue and its commit.  A second row for the triple violates the unique
\* constraint and is not inserted.
Enqueue(m) ==
  /\ LeadOf[m] \in known
  /\ row[m].status = "none"
  /\ row' = [row EXCEPT ![m] =
       [NoRow EXCEPT !.status = "QUEUED",
          !.queuedAt = 1 + Cardinality({n \in Messages : row[n].status # "none"})]]
  /\ UNCHANGED <<leadVars, sentToday, cooling, sess, providerVars>>

-----------------------------------------------------------------------------
(* Time.                                                                   *)

\* The clock passes midnight (UTC); an open pass keeps the count it started
\* with.
NewDay ==
  /\ sentToday # {} \/ \E p \in Processors : sess[p].sentToday # {}
  /\ sentToday' = {}
  /\ sess' = [p \in Processors |-> [sess[p] EXCEPT !.sentToday = {}]]
  /\ UNCHANGED <<leadVars, row, cooling, providerVars>>

BackoffOver(m) ==
  /\ m \in cooling
  /\ cooling' = cooling \ {m}
  /\ UNCHANGED <<leadVars, row, sentToday, sess, providerVars>>

\* The operator sets ENABLE_EMAIL=true and restarts the processes.
EnableMail ==
  /\ ~enabled
  /\ \A p \in Processors : sess[p].pc = "idle"
  /\ enabled' = TRUE
  /\ UNCHANGED <<leadVars, row, sentToday, cooling, sess, mails, lost, faults>>

-----------------------------------------------------------------------------
(* A pass: process_queue.                                                  *)

Queued == {m \in Messages : row[m].status = "QUEUED"}

Before(m, n) ==
  \/ Priority[m] < Priority[n]
  \/ Priority[m] = Priority[n] /\ row[m].queuedAt < row[n].queuedAt

First(m, S) == m \in S /\ \A n \in S \ {m} : Before(m, n)

\* ORDER BY priority, queued_at LIMIT limit * 3
IsWindow(W) ==
  /\ W \subseteq Queued
  /\ \A m \in W, n \in Queued \ W : Before(m, n)
  /\ Cardinality(W) <= 3 * Limit
  /\ W # Queued => Cardinality(W) = 3 * Limit

CountedToday ==
  Cardinality({m \in sentToday : row[m].status \in {"SENT", "DELIVERED"}})

StartPass(p) ==
  /\ sess[p].pc = "idle"
  /\ \E W \in SUBSET Messages :
       /\ IsWindow(W)
       /\ sess' = [sess EXCEPT ![p] =
            [NoSession EXCEPT !.pc = "scan", !.todo = W, !.hot = W \cap cooling,
               !.seen = [m \in Messages |-> row[m].attempts],
               !.sentCount = CountedToday]]
  /\ UNCHANGED <<leadVars, row, sentToday, cooling, providerVars>>

\* The loop is at row m of p's window.
At(p, m) ==
  /\ sess[p].pc = "scan"
  /\ sess[p].processed < Limit
  /\ First(m, sess[p].todo)

\* db.get(WaitlistLead, ...).  The identity map holds a lead only as long as
\* the loop's variable does: the lead of the last row looked at is found there
\* as it was when loaded, every other one is read as committed now.
LoadLead(s, l) ==
  IF l \in s.loaded THEN s
  ELSE [s EXCEPT !.loaded = {l}, !.consented = {l} \cap consented,
                 !.suppressed = {l} \cap suppressed]

Lead(p, m) == LoadLead(sess[p], LeadOf[m])

\* Mutant: a welcome mail is sent to a suppressed lead as well.
DeliverableWhenWelcome(s, m) ==
  Priority[m] = 0 \/ LeadOf[m] \in s.consented \ s.suppressed

\* Only welcome mails, which have priority 0, may go without consent.
Deliverable(s, m) ==
  /\ LeadOf[m] \notin s.suppressed
  /\ Priority[m] = 0 \/ LeadOf[m] \in s.consented

\* Mutant: the limit is compared with > instead of >=.
QuotaSpentTooLate(s, m) == s.sentCount > DailyLimit /\ Priority[m] > 0

QuotaSpent(s, m) == s.sentCount >= DailyLimit /\ Priority[m] > 0

Dirty(s) == {m \in Messages : s.result[m] # "none"}

\* A flush of rows S blocks while another transaction has written one.
CanWrite(p, S) == \A q \in Processors \ {p} : S \cap sess[q].written = {}

\* Within its backoff: left for a later pass.  A backoff that ran when the row
\* was selected may be over by the time the loop reaches it, so the other
\* actions do not exclude hot rows.
SkipBackoff(p, m) ==
  /\ At(p, m)
  /\ m \in sess[p].hot
  /\ sess' = [sess EXCEPT ![p].todo = @ \ {m}]
  /\ UNCHANGED <<leadVars, row, sentToday, cooling, providerVars>>

Withhold(p, m) ==
  /\ At(p, m)
  /\ LET s == Lead(p, m) IN
       /\ ~Deliverable(s, m)
       /\ sess' = [sess EXCEPT ![p] =
            [s EXCEPT !.todo = @ \ {m},
               !.result[m] = IF LeadOf[m] \in s.suppressed THEN "SUPPRESSED"
                             ELSE "UNSUBSCRIBED"]]
  /\ UNCHANGED <<leadVars, row, sentToday, cooling, providerVars>>

HoldForQuota(p, m) ==
  /\ At(p, m)
  /\ LET s == Lead(p, m) IN
       /\ Deliverable(s, m)
       /\ QuotaSpent(s, m)
       /\ sess' = [sess EXCEPT ![p] = [s EXCEPT !.todo = @ \ {m}]]
  /\ UNCHANGED <<leadVars, row, sentToday, cooling, providerVars>>

\* Mutant: no flush before the provider call, hence no row lock.
BeginSendUnflushed(p, m) ==
  /\ At(p, m)
  /\ LET s == Lead(p, m) IN
       /\ Deliverable(s, m)
       /\ ~QuotaSpent(s, m)
       /\ sess' = [sess EXCEPT ![p] =
            [s EXCEPT !.pc = "send", !.posts = 0, !.processed = s.processed + 1]]
  /\ UNCHANGED <<leadVars, row, sentToday, cooling, providerVars>>

\* status = SENDING; db.flush(), which writes every pending change of the
\* session; provider.send begins.
BeginSend(p, m) ==
  /\ At(p, m)
  /\ LET s == Lead(p, m)
         rows == Dirty(s) \cup {m} IN
       /\ Deliverable(s, m)
       /\ ~QuotaSpent(s, m)
       /\ CanWrite(p, rows)
       /\ sess' = [sess EXCEPT ![p] =
            [s EXCEPT !.pc = "send", !.posts = 0, !.processed = s.processed + 1,
                      !.written = s.written \cup rows]]
  /\ UNCHANGED <<leadVars, row, sentToday, cooling, providerVars>>

-----------------------------------------------------------------------------
(* provider.send.                                                          *)

MaxPosts == IF Provider = "resend" THEN PostRetries ELSE 1

Sending(p, m) == sess[p].pc = "send" /\ First(m, sess[p].todo)

\* The row after a successful send.
Success(s, m, id) ==
  [s EXCEPT !.result[m] = "SENT", !.mailId[m] = id, !.pc = "scan",
            !.todo = s.todo \ {m}, !.sentToday = s.sentToday \cup {m},
            !.sentCount = s.sentCount + 1]

\* Mutants: the last attempt is taken to be one later, or one earlier.
FailureTooLate(s, m, retryable) ==
  [s EXCEPT !.pc = "scan", !.todo = @ \ {m},
     !.result[m] = IF ~retryable \/ s.seen[m] + 1 > MaxAttempts
                   THEN "FAILED" ELSE "QUEUED"]
FailureTooSoon(s, m, retryable) ==
  [s EXCEPT !.pc = "scan", !.todo = @ \ {m},
     !.result[m] = IF ~retryable \/ s.seen[m] + 2 >= MaxAttempts
                   THEN "FAILED" ELSE "QUEUED"]

\* The row after a failed send: attempt_count is one more than selected.
Failure(s, m, retryable) ==
  [s EXCEPT !.pc = "scan", !.todo = @ \ {m},
     !.result[m] = IF ~retryable \/ s.seen[m] + 1 >= MaxAttempts
                   THEN "FAILED" ELSE "QUEUED"]

\* Mutant: a call without an answer counts as sent.
NoAnswerIsSent(s, m) ==
  IF s.posts + 1 < MaxPosts THEN [s EXCEPT !.posts = @ + 1]
  ELSE [s EXCEPT !.pc = "scan", !.todo = @ \ {m}, !.result[m] = "SENT"]

\* One POST brought no answer: the transport tries again or gives up.
NoAnswer(s, m) ==
  IF s.posts + 1 < MaxPosts THEN [s EXCEPT !.posts = @ + 1]
  ELSE Failure(s, m, TRUE)

Accepted(p, m) ==
  /\ Sending(p, m)
  /\ enabled
  /\ mails' = [mails EXCEPT ![m] = @ + 1]
  /\ sess' = [sess EXCEPT ![p] = Success(@, m, mails[m] + 1)]
  /\ UNCHANGED <<leadVars, row, sentToday, cooling, enabled, lost, faults>>

\* The mail is accepted but the answer times out.
AnswerLost(p, m) ==
  /\ Sending(p, m)
  /\ enabled
  /\ faults < MaxFaults
  /\ faults' = faults + 1
  /\ mails' = [mails EXCEPT ![m] = @ + 1]
  /\ lost' = [lost EXCEPT ![m] = @ + 1]
  /\ sess' = [sess EXCEPT ![p] = NoAnswer(@, m)]
  /\ UNCHANGED <<leadVars, row, sentToday, cooling, enabled>>

\* Not accepted, and worth retrying: 429, 5xx, no connection.
Unavailable(p, m) ==
  /\ Sending(p, m)
  /\ enabled
  /\ faults < MaxFaults
  /\ faults' = faults + 1
  /\ sess' = [sess EXCEPT ![p] = NoAnswer(@, m)]
  /\ UNCHANGED <<leadVars, row, sentToday, cooling, enabled, mails, lost>>

\* Not accepted, and not worth retrying: 401, 403, 422.
Refused(p, m) ==
  /\ Sending(p, m)
  /\ enabled
  /\ Provider \in {"resend", "freeresend"}
  /\ faults < MaxFaults
  /\ faults' = faults + 1
  /\ sess' = [sess EXCEPT ![p] = Failure(@, m, FALSE)]
  /\ UNCHANGED <<leadVars, row, sentToday, cooling, enabled, mails, lost>>

\* Mutant: the disabled provider pretends to send.
DisabledSendPretends(p, m) ==
  /\ Sending(p, m)
  /\ ~enabled
  /\ sess' = [sess EXCEPT ![p] = Success(@, m, 1)]
  /\ UNCHANGED <<leadVars, row, sentToday, cooling, providerVars>>

\* get_provider returns DisabledEmailProvider: every send fails, retryably.
DisabledSend(p, m) ==
  /\ Sending(p, m)
  /\ ~enabled
  /\ sess' = [sess EXCEPT ![p] = Failure(@, m, TRUE)]
  /\ UNCHANGED <<leadVars, row, sentToday, cooling, providerVars>>

-----------------------------------------------------------------------------
(* The end of a pass.                                                      *)

\* Mutant: the status of a sent row is not written.
CommitStaysQueued(r, s, m) ==
  IF s.result[m] = "none" THEN r
  ELSE [r EXCEPT !.status = IF s.result[m] = "SENT" THEN @ ELSE s.result[m],
          !.attempts = IF s.result[m] = "FAILED" THEN s.seen[m] + 1 ELSE @,
          !.mailId = IF s.result[m] = "SENT" THEN s.mailId[m] ELSE @]

\* Only the columns the session changed are written.
Commit(r, s, m) ==
  IF s.result[m] = "none" THEN r
  ELSE [r EXCEPT !.status = s.result[m],
          !.attempts = IF s.result[m] \in Tried THEN s.seen[m] + 1 ELSE @,
          !.mailId = IF s.result[m] = "SENT" THEN s.mailId[m] ELSE @]

FinishPass(p) ==
  /\ sess[p].pc = "scan"
  /\ sess[p].todo = {} \/ sess[p].processed >= Limit
  /\ CanWrite(p, Dirty(sess[p]))
  /\ row' = [m \in Messages |-> Commit(row[m], sess[p], m)]
  /\ sentToday' = sentToday \cup sess[p].sentToday
  /\ cooling' = (cooling \ Dirty(sess[p]))
                  \cup {m \in Messages : sess[p].result[m] = "QUEUED"}
  /\ sess' = [sess EXCEPT ![p] = NoSession]
  /\ UNCHANGED <<leadVars, providerVars>>

\* The process is killed, the connection drops or an exception leaves the
\* loop: the transaction rolls back, the mails stay sent.
Abort(p) ==
  /\ sess[p].pc # "idle"
  /\ faults < MaxFaults
  /\ faults' = faults + 1
  /\ lost' = [m \in Messages |->
       lost[m] + (IF sess[p].result[m] = "SENT" THEN 1 ELSE 0)]
  /\ sess' = [sess EXCEPT ![p] = NoSession]
  /\ UNCHANGED <<leadVars, row, sentToday, cooling, enabled, mails>>

-----------------------------------------------------------------------------
VisitRow(p, m) ==
  \/ SkipBackoff(p, m) \/ Withhold(p, m) \/ HoldForQuota(p, m) \/ BeginSend(p, m)

ProviderCall(p, m) ==
  \/ Accepted(p, m) \/ AnswerLost(p, m) \/ Unavailable(p, m) \/ Refused(p, m)
  \/ DisabledSend(p, m)

PassStep(p) ==
  \/ StartPass(p)
  \/ \E m \in Messages : VisitRow(p, m) \/ ProviderCall(p, m)
  \/ FinishPass(p)

LeadStep == \E l \in Leads : Join(l) \/ Rejoin(l) \/ Unsubscribe(l)

QueueStep ==
  \/ LeadStep
  \/ \E m \in Messages : Enqueue(m) \/ BackoffOver(m)
  \/ NewDay \/ EnableMail
  \/ \E p \in Processors : PassStep(p) \/ Abort(p)

Next == QueueStep \/ \E l \in Leads : Suppress(l)

Spec == Init /\ [][Next]_vars

\* The worker loop comes back to the queue every EMAIL_POLL_SECONDS and every
\* provider call has a timeout; clocks advance.
Fairness ==
  /\ \A p \in Processors : WF_vars(PassStep(p))
  /\ \A m \in Messages : WF_vars(BackoffOver(m))
  /\ WF_vars(NewDay)

FairSpec == Spec /\ Fairness
-----------------------------------------------------------------------------
(* Correctness.                                                            *)

TypeOK ==
  /\ known \in SUBSET Leads
  /\ consented \in SUBSET known
  /\ suppressed \in SUBSET known
  /\ row \in [Messages -> Row]
  /\ sentToday \in SUBSET Messages
  /\ cooling \in SUBSET Messages
  /\ sess \in [Processors -> Session]
  /\ enabled \in BOOLEAN
  /\ mails \in [Messages -> Nat]
  /\ lost \in [Messages -> Nat]
  /\ faults \in 0..MaxFaults

\* A row recorded as sent names a mail the provider really accepted, whatever
\* other passes, rollbacks and lost answers did in between: the queue never
\* reports a mail that did not leave (email_queue.py:118-121).
ReceiptIsReal ==
  \A m \in Messages :
    /\ row[m].mailId <= mails[m]
    /\ row[m].status = "SENT" => row[m].mailId > 0

\* Two passes are never inside the provider call for the same row at once: the
\* flush before the call holds the row's lock (email_queue.py:113-115).
OneSenderPerRow ==
  \A m \in Messages : \A p, q \in Processors :
    Sending(p, m) /\ Sending(q, m) => p = q

\* With a single processor, every mail beyond the one the row records was lost
\* to the processor before it could record it - its answer timed out or the
\* pass rolled back.  Nothing else makes a recipient get a mail twice.
MailsAccountedFor ==
  \A m \in Messages :
    mails[m] = lost[m]
               + (IF row[m].mailId # 0 THEN 1 ELSE 0)
               + (IF \E p \in Processors : sess[p].result[m] = "SENT" THEN 1 ELSE 0)

\* With a single processor, the mails other than welcome mails recorded for
\* one day never exceed the daily limit, though the count is read once per
\* pass and a pass may span midnight (email_queue.py:74-77, 96-99, 122).
QuotaRespected ==
  Cardinality({m \in sentToday \cup UNION {sess[p].sentToday : p \in Processors} :
                 Priority[m] > 0}) <= DailyLimit

\* One logical event, one mail: models.py:377 calls delivery idempotent, by
\* the unique (lead, template, dedupe_key) row, and no provider fault excuses
\* a second one here.
MailedOnce == faults = 0 => \A m \in Messages : mails[m] <= 1

\* When the provider and the processor fail less often than a row may be
\* tried, every queued mail is sent in the end, unless its recipient opted out
\* or became unreachable: no backoff, quota or full window starves it.
EventuallyMailed ==
  \A m \in Messages :
    row[m].status = "QUEUED"
      ~> row[m].status \in {"SENT", "SUPPRESSED", "UNSUBSCRIBED"}

-----------------------------------------------------------------------------
(* The abstract specification a single processor implements.               *)

Outcome(status) ==
  CASE status = "none" -> "absent"
    [] status = "QUEUED" -> "waiting"
    [] status \in {"SENT", "DELIVERED", "DELAYED"} -> "mailed"
    [] status \in {"SUPPRESSED", "UNSUBSCRIBED"} -> "withheld"
    [] OTHER -> "failed"

Delivery == INSTANCE EmailDelivery
  WITH outcome <- [m \in Messages |-> Outcome(row[m].status)],
       handed <- mails, unrecorded <- lost

\* With a single processor the queue implements EmailDelivery: a settled row
\* is never reopened, overwritten or mailed again, and a row is settled as
\* sent only by the one mail that is neither lost nor rolled back
\* (email_queue.py:80-133).
DeliverySpec == Delivery!Spec
=============================================================================

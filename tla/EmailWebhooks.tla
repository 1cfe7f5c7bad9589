--------------------------- MODULE EmailWebhooks ---------------------------
(***************************************************************************)
(* The queue of EmailQueue together with the provider's webhooks:          *)
(* POST /api/webhooks/resend and app/services/webhooks.py.  What became of *)
(* an accepted mail is decided at the provider; its events reach           *)
(* handle_event late, repeatedly and in any order.  The endpoint is a      *)
(* coroutine that calls the synchronous handler, so the web process        *)
(* handles one event at a time, but the worker's passes run beside it.     *)
(***************************************************************************)
EXTENDS EmailQueue

CONSTANT MaxMails   \* bound: mails of one message whose fate is followed

ASSUME MaxMailsAssumption == MaxMails \in Nat

VARIABLES
  fate,   \* at the provider: what became of the k-th accepted mail of m
  hook    \* the event being handled

hookVars == <<fate, hook>>

Mail == Messages \X (1..MaxMails)
Fates == {"none", "accepted", "delivered", "failed", "bounced", "complained"}
EventTypes == {"sent", "delivered", "delayed", "failed", "bounced", "complained"}

NoHook == [open |-> FALSE]
Hook ==
  {NoHook} \cup
  [open : {TRUE}, type : EventTypes, mail : Mail, found : BOOLEAN, status : Statuses]

WInit ==
  /\ Init
  /\ fate = [d \in Mail |-> "none"]
  /\ hook = NoHook

AcceptedMail(d) == d[2] <= mails[d[1]]

\* The provider finds out what becomes of a mail it accepted; a delivered mail
\* may still be reported as spam.
Resolve(d) ==
  /\ AcceptedMail(d)
  /\ \/ /\ fate[d] = "none"
        /\ \E f \in {"delivered", "failed", "bounced"} : fate' = [fate EXCEPT ![d] = f]
     \/ /\ fate[d] = "delivered"
        /\ fate' = [fate EXCEPT ![d] = "complained"]
  /\ UNCHANGED <<vars, hook>>

\* The events the provider may have sent about a mail so far.
MayReport(type, d) ==
  CASE type \in {"sent", "delayed"} -> AcceptedMail(d)
    [] type = "delivered" -> fate[d] \in {"delivered", "complained"}
    [] OTHER -> fate[d] = type

\* Mutant: the row is looked up by its recipient, whatever mail it records.
HookReadAnyMail ==
  /\ ~hook.open
  /\ \E d \in Mail, type \in EventTypes :
       /\ MayReport(type, d)
       /\ hook' = [open |-> TRUE, type |-> type, mail |-> d,
                   found |-> row[d[1]].mailId > 0, status |-> row[d[1]].status]
  /\ UNCHANGED <<vars, fate>>

\* handle_event looks the row up by provider_message_id, in its own
\* transaction: it does not see what an open pass has not committed.
HookRead ==
  /\ ~hook.open
  /\ \E d \in Mail, type \in EventTypes :
       /\ MayReport(type, d)
       /\ hook' = [open |-> TRUE, type |-> type, mail |-> d,
                   found |-> row[d[1]].mailId = d[2], status |-> row[d[1]].status]
  /\ UNCHANGED <<vars, fate>>

\* Mutant: email.sent is not checked against DELIVERED.
ReportedUnguarded(type, seen) ==
  CASE type = "sent" -> "SENT"
    [] type = "delivered" -> "DELIVERED"
    [] type = "delayed" -> "DELAYED"
    [] type = "failed" -> "FAILED"
    [] type = "bounced" -> "BOUNCED"
    [] type = "complained" -> "COMPLAINED"

\* The status an event gives to a row whose status was seen.
Reported(type, seen) ==
  CASE type = "sent" -> IF seen = "DELIVERED" THEN seen ELSE "SENT"
    [] type = "delivered" -> "DELIVERED"
    [] type = "delayed" -> "DELAYED"
    [] type = "failed" -> "FAILED"
    [] type = "bounced" -> "BOUNCED"
    [] type = "complained" -> "COMPLAINED"

\* An attribute set to the value it was loaded with is not written at all.
HookChanges == hook.found /\ Reported(hook.type, hook.status) # hook.status

\* The update waits for a pass that holds the row's lock; bounces and
\* complaints suppress the recipient, row or no row.
HookWrite ==
  /\ hook.open
  /\ LET m == hook.mail[1] IN
       /\ HookChanges => \A p \in Processors : m \notin sess[p].written
       /\ row' = IF HookChanges
                 THEN [row EXCEPT ![m].status = Reported(hook.type, hook.status)]
                 ELSE row
       /\ suppressed' = IF hook.type \in {"bounced", "complained"}
                        THEN suppressed \cup {LeadOf[m]} ELSE suppressed
  /\ hook' = NoHook
  /\ UNCHANGED <<known, consented, sentToday, cooling, sess, providerVars, fate>>

HookStep == HookRead \/ HookWrite

WNext ==
  \/ QueueStep /\ UNCHANGED hookVars
  \/ \E d \in Mail : Resolve(d)
  \/ HookStep

WSpec == WInit /\ [][WNext]_<<vars, hookVars>>

-----------------------------------------------------------------------------
\* With a single processor, the status of a row never says more than what
\* happened to the mail the row records: events handled out of order, late, or
\* while a pass is open never put one mail's outcome on another's row
\* (webhooks.py:49-76).
StatusIsTruthful ==
  \A m \in Messages : \A k \in 1..MaxMails :
    row[m].mailId = k =>
      /\ row[m].status = "DELIVERED" => fate[<<m, k>>] \in {"delivered", "complained"}
      /\ row[m].status = "BOUNCED" => fate[<<m, k>>] = "bounced"
      /\ row[m].status = "COMPLAINED" => fate[<<m, k>>] = "complained"

\* With a single processor, a mail known to be delivered is never queued again
\* and never again counts as merely sent (webhooks.py:51-53).
DeliveredIsKept ==
  [][\A m \in Messages :
       row[m].status = "DELIVERED" => row'[m].status \notin {"SENT", "QUEUED", "none"}]_row

\* A row claims of its mail only what happened to it, in whatever order the events
\* come, and DELIVERED never gives way to SENT or to the queue.  Nothing more stays:
\* a late email.sent overwrites BOUNCED, COMPLAINED and FAILED, and a late
\* email.delivery_delayed DELIVERED (webhooks.py:50-60).
EventsAreKept == []StatusIsTruthful /\ DeliveredIsKept
=============================================================================

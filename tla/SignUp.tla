------------------------------- MODULE SignUp -------------------------------
(***************************************************************************)
(* How a lead comes to be: POST /api/waitlist on the web server's threads  *)
(* and the Clerk webhook, a coroutine that handles one event at a time,    *)
(* may be about the same address.  The lead, its welcome mail and its      *)
(* sheets outbox row are guarded by unique constraints; an insert waits    *)
(* for another transaction's uncommitted row with the same key, and then   *)
(* fails if that one committed.                                            *)
(***************************************************************************)
EXTENDS Naturals, FiniteSets

CONSTANTS
  Emails,     \* addresses
  Requests,   \* threads handling POST /api/waitlist
  MaxEvents,  \* bound: Clerk events delivered
  MaxCrashes  \* bound: handlers that die with the process

ASSUME SignUpAssumption == MaxEvents \in Nat /\ MaxCrashes \in Nat

VARIABLES
  lead,      \* waitlist_leads: who created the row, "none" if absent
  consent,   \* leads that consent
  welcome,   \* leads with a committed welcome mail
  mirror,    \* leads with a committed outbox row
  req,       \* the open requests
  hook,      \* the Clerk event being handled
  events,
  crashes

tables == <<lead, consent, welcome, mirror>>
counters == <<events, crashes>>
vars == <<tables, req, hook, counters>>

\* An open transaction: where it is, for which address, whether its last
\* lookup found a row, and whether it has flushed an insert of each kind.
Work(pcs) ==
  [pc : pcs, email : Emails, saw : BOOLEAN,
   lead : BOOLEAN, welcome : BOOLEAN, mirror : BOOLEAN]
Idle == [pc |-> "idle"]
Begin(pc, e, saw) ==
  [pc |-> pc, email |-> e, saw |-> saw,
   lead |-> FALSE, welcome |-> FALSE, mirror |-> FALSE]

ReqSteps == {"create", "rejoin", "rewelcome", "welcome", "lookup", "insert", "commit"}
HookSteps == {"lead", "lookup", "insert", "commit"}

Init ==
  /\ lead = [e \in Emails |-> "none"]
  /\ consent = {} /\ welcome = {} /\ mirror = {}
  /\ req = [r \in Requests |-> Idle]
  /\ hook = Idle
  /\ events = 0 /\ crashes = 0

Transactions == {req[r] : r \in Requests} \cup {hook}
Flushed(t, e, kind) == t.pc # "idle" /\ t.email = e /\ t[kind]
\* Some transaction has inserted this row and not committed it.
InFlight(e, kind) == \E t \in Transactions : Flushed(t, e, kind)

At(r, pc) == req[r].pc = pc
Email(r) == req[r].email
Goto(r, pc) == req' = [req EXCEPT ![r].pc = pc]
End(r) == req' = [req EXCEPT ![r] = Idle]

-----------------------------------------------------------------------------
(* waitlist: a handler that fails answers 500 and rolls back.              *)

Lookup(r, e) ==
  /\ At(r, "idle")
  /\ e \notin consent
  /\ req' = [req EXCEPT ![r] =
       Begin(IF lead[e] = "none" THEN "create" ELSE "rejoin", e, FALSE)]
  /\ UNCHANGED <<tables, hook, counters>>

CreateLead(r) ==
  /\ At(r, "create")
  /\ LET e == Email(r) IN
       /\ ~InFlight(e, "lead")
       /\ IF lead[e] = "none"
          THEN /\ lead' = [lead EXCEPT ![e] = "web"]
               /\ consent' = consent \cup {e}
               /\ Goto(r, "welcome")
          ELSE End(r) /\ UNCHANGED <<lead, consent>>
  /\ UNCHANGED <<welcome, mirror, hook, counters>>

\* enqueue of the welcome mail, flushed.  A duplicate is rolled back and
\* ignored.
Welcome(r) ==
  /\ At(r, "welcome")
  /\ ~InFlight(Email(r), "welcome")
  /\ req' = [req EXCEPT ![r].welcome = Email(r) \notin welcome, ![r].pc = "lookup"]
  /\ UNCHANGED <<tables, hook, counters>>

LookupMirror(r) ==
  /\ At(r, "lookup")
  /\ req' = [req EXCEPT ![r].saw = Email(r) \in mirror,
                        ![r].pc = IF Email(r) \in mirror THEN "commit" ELSE "insert"]
  /\ UNCHANGED <<tables, hook, counters>>

\* sheets_svc.enqueue does not catch the constraint's error.
InsertMirror(r) ==
  /\ At(r, "insert")
  /\ ~InFlight(Email(r), "mirror")
  /\ IF Email(r) \in mirror THEN End(r)
     ELSE req' = [req EXCEPT ![r].mirror = TRUE, ![r].pc = "commit"]
  /\ UNCHANGED <<tables, hook, counters>>

\* Mutants: the commit keeps only one of the two inserts.
CommitWithoutMirror(r) ==
  /\ At(r, "commit")
  /\ welcome' = IF req[r].welcome THEN welcome \cup {Email(r)} ELSE welcome
  /\ End(r)
  /\ UNCHANGED <<lead, consent, mirror, hook, counters>>
CommitWithoutWelcome(r) ==
  /\ At(r, "commit")
  /\ mirror' = IF req[r].mirror THEN mirror \cup {Email(r)} ELSE mirror
  /\ End(r)
  /\ UNCHANGED <<lead, consent, welcome, hook, counters>>

CommitSignUp(r) ==
  /\ At(r, "commit")
  /\ welcome' = IF req[r].welcome THEN welcome \cup {Email(r)} ELSE welcome
  /\ mirror' = IF req[r].mirror THEN mirror \cup {Email(r)} ELSE mirror
  /\ End(r)
  /\ UNCHANGED <<lead, consent, hook, counters>>

\* A lead that had withdrawn its consent: committed, then welcomed again,
\* which the constraint rejects if it was welcomed before.
Rejoin(r) ==
  /\ At(r, "rejoin")
  /\ consent' = consent \cup {Email(r)}
  /\ Goto(r, "rewelcome")
  /\ UNCHANGED <<lead, welcome, mirror, hook, counters>>

Rewelcome(r) ==
  /\ At(r, "rewelcome")
  /\ ~InFlight(Email(r), "welcome")
  /\ welcome' = welcome \cup {Email(r)}
  /\ End(r)
  /\ UNCHANGED <<lead, consent, mirror, hook, counters>>

Unsubscribe(e) ==
  /\ e \in consent
  /\ consent' = consent \ {e}
  /\ UNCHANGED <<lead, welcome, mirror, req, hook, counters>>

-----------------------------------------------------------------------------
(* clerk_webhook on user.created and user.updated.  Clerk delivers an      *)
(* event again if the handler fails.                                       *)

HookLookup(e) ==
  /\ hook.pc = "idle"
  /\ events < MaxEvents
  /\ events' = events + 1
  /\ hook' = Begin("lead", e, lead[e] # "none")
  /\ UNCHANGED <<tables, req, crashes>>

\* sync_identity: link the lead it found, or insert one.
HookLead ==
  /\ hook.pc = "lead"
  /\ ~InFlight(hook.email, "lead")
  /\ hook' = IF ~hook.saw /\ lead[hook.email] # "none" THEN Idle
             ELSE [hook EXCEPT !.lead = ~hook.saw, !.pc = "lookup"]
  /\ UNCHANGED <<tables, req, counters>>

HookLookupMirror ==
  /\ hook.pc = "lookup"
  /\ hook' = [hook EXCEPT !.saw = hook.email \in mirror,
                !.pc = IF hook.email \in mirror THEN "commit" ELSE "insert"]
  /\ UNCHANGED <<tables, req, counters>>

HookInsertMirror ==
  /\ hook.pc = "insert"
  /\ ~InFlight(hook.email, "mirror")
  /\ hook' = IF hook.email \in mirror THEN Idle
             ELSE [hook EXCEPT !.mirror = TRUE, !.pc = "commit"]
  /\ UNCHANGED <<tables, req, counters>>

\* Mutant: sync_identity's lead is not part of the commit.
HookCommitLeadless ==
  /\ hook.pc = "commit"
  /\ consent' = IF hook.lead THEN consent \cup {hook.email} ELSE consent
  /\ mirror' = IF hook.mirror THEN mirror \cup {hook.email} ELSE mirror
  /\ hook' = Idle
  /\ UNCHANGED <<lead, welcome, req, counters>>

HookCommit ==
  /\ hook.pc = "commit"
  /\ lead' = IF hook.lead THEN [lead EXCEPT ![hook.email] = "clerk"] ELSE lead
  /\ consent' = IF hook.lead THEN consent \cup {hook.email} ELSE consent
  /\ mirror' = IF hook.mirror THEN mirror \cup {hook.email} ELSE mirror
  /\ hook' = Idle
  /\ UNCHANGED <<welcome, req, counters>>

-----------------------------------------------------------------------------
\* The web process dies with every handler in it.
Crash ==
  /\ crashes < MaxCrashes
  /\ \E t \in Transactions : t.pc # "idle"
  /\ crashes' = crashes + 1
  /\ req' = [r \in Requests |-> Idle]
  /\ hook' = Idle
  /\ UNCHANGED <<tables, events>>

Handle(r) ==
  \/ \E e \in Emails : Lookup(r, e)
  \/ CreateLead(r) \/ Welcome(r) \/ LookupMirror(r) \/ InsertMirror(r)
  \/ CommitSignUp(r) \/ Rejoin(r) \/ Rewelcome(r)

HandleHook ==
  \/ \E e \in Emails : HookLookup(e)
  \/ HookLead \/ HookLookupMirror \/ HookInsertMirror \/ HookCommit

Next ==
  \/ \E r \in Requests : Handle(r)
  \/ \E e \in Emails : Unsubscribe(e)
  \/ HandleHook
  \/ Crash

Spec == Init /\ [][Next]_vars

-----------------------------------------------------------------------------
\* Types; the consent column, the welcome mail and the outbox row exist for
\* leads only, whichever of the inserts of a sign-up was rolled back
\* (main.py:297-305, 362-365).
TypeOK ==
  /\ lead \in [Emails -> {"none", "web", "clerk"}]
  /\ consent \cup welcome \cup mirror \subseteq {e \in Emails : lead[e] # "none"}
  /\ req \in [Requests -> Work(ReqSteps) \cup {Idle}]
  /\ hook \in Work(HookSteps) \cup {Idle}
  /\ events \in 0..MaxEvents
  /\ crashes \in 0..MaxCrashes

Quiet(e) == \A t \in Transactions : t.pc = "idle" \/ t.email # e

\* As long as no process dies, however sign-ups and Clerk events for one
\* address collide, its lead ends up with a row in the sheets outbox
\* (main.py:297-304, 362-364; sheets_sync.py:30-34).
EveryLeadIsMirrored ==
  \A e \in Emails :
    crashes = 0 /\ lead[e] # "none" /\ Quiet(e) => e \in mirror

\* Sign-ups on the site alone never rob each other of the welcome mail: as
\* long as no Clerk event comes and no process dies, each lead has one
\* (main.py:297-304; email_queue.py:26-29).
SignUpsAloneAreWelcomed ==
  \A e \in Emails :
    events = 0 /\ crashes = 0 /\ lead[e] = "web" /\ Quiet(e) => e \in welcome
=============================================================================

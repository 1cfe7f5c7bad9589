----------------------------- MODULE BetaAccess -----------------------------
(***************************************************************************)
(* One lead's way into the beta: the admin's invite, disable and enable,   *)
(* the login links, the Clerk bridge and the sessions (services/auth.py    *)
(* and the endpoints of main.py).  A handler reads, and commits later:     *)
(* another may commit in between, and the UPDATE it then emits holds only  *)
(* the columns it changed in the row it had read.                          *)
(***************************************************************************)
EXTENDS Naturals, FiniteSets

CONSTANTS
  Handlers,    \* threads of the web server's pool
  Tokens,      \* login_tokens rows the lead may come to have
  Cookies,     \* auth_sessions rows the lead may come to have
  MaxDisables  \* bound: times the lead is disabled

\* "none" and "clerk" are not the names of login links.
ASSUME AccessAssumption == MaxDisables \in Nat /\ Tokens \cap {"none", "clerk"} = {}

VARIABLES
  access,    \* access_status
  linked,    \* the lead has a clerk_user_id
  token,     \* none, fresh, used or expired
  session,   \* none, valid, revoked or expired
  handler,   \* the requests under way
  via,       \* history: the token a session was opened with, "clerk" for none
  old,       \* history: the sessions that requests disabling the lead had found
  disables,  \* history: how often the lead was disabled
  shared     \* history: tokens two requests redeemed at once

accessVars == <<access, linked, token, session, handler, via, old, disables, shared>>

NoRequest == [does |-> "nothing"]

AccessInit ==
  /\ access = "WAITLISTED" /\ linked = FALSE
  /\ token = [t \in Tokens |-> "none"]
  /\ session = [s \in Cookies |-> "none"]
  /\ handler = [h \in Handlers |-> NoRequest]
  /\ via = [s \in Cookies |-> "none"]
  /\ old = {} /\ disables = 0 /\ shared = {}

\* get_lead_from_session answers the lead.
SignedIn(s) == session[s] = "valid" /\ access = "ACTIVE"

\* A handler reads the lead: what it will do, with which token.
Read(h, does, t) ==
  /\ handler[h] = NoRequest
  /\ handler' = [handler EXCEPT ![h] = [does |-> does, token |-> t, saw |-> access, when |-> disables, live |-> {}]]
  /\ UNCHANGED <<access, linked, token, session, via, old, disables>>

\* Mutant: a disabled lead is invited like any other.
ReadInviteAnyone(h) == Read(h, "invite", "none") /\ UNCHANGED shared

ReadInvite(h) == access # "DISABLED" /\ Read(h, "invite", "none") /\ UNCHANGED shared
ReadDisable(h) == disables < MaxDisables /\ Read(h, "disable", "none") /\ UNCHANGED shared
ReadEnable(h) == Read(h, "enable", "none") /\ UNCHANGED shared
ReadLogin(h) == access \in {"INVITED", "ACTIVE"} /\ Read(h, "login", "none") /\ UNCHANGED shared
ReadClerk(h) == linked /\ access = "ACTIVE" /\ Read(h, "clerk", "none") /\ UNCHANGED shared
ReadLogout(h) == (\E s \in Cookies : SignedIn(s)) /\ Read(h, "logout", "none") /\ UNCHANGED shared
ReadToken(h, t) ==
  /\ token[t] = "fresh" /\ access # "DISABLED"
  /\ Read(h, "redeem", t)
  /\ shared' = IF \E g \in Handlers : handler[g].does = "redeem" /\ handler[g].token = t
               THEN shared \cup {t} ELSE shared

-----------------------------------------------------------------------------
Commits(h, does) == handler[h].does = does /\ handler' = [handler EXCEPT ![h] = NoRequest]

\* The column is written only if it differs from what was read.
Write(h, status) == access' = IF handler[h].saw = status THEN access ELSE status

\* Whichever row comes next in its table.
NextOf(column, x) == x = CHOOSE y \in DOMAIN column : column[y] = "none"

CreateToken(t) ==
  token[t] = "none" /\ NextOf(token, t) /\ token' = [token EXCEPT ![t] = "fresh"]

CreateSession(s, origin) ==
  /\ session[s] = "none" /\ NextOf(session, s)
  /\ session' = [session EXCEPT ![s] = "valid"]
  /\ via' = [via EXCEPT ![s] = origin]

\* revoke_all_sessions: its SELECT finds the sessions nobody has revoked; what it
\* changes in them is written when the request commits (autoflush=False, db.py:24).
FindSessions(h, does, found) ==
  /\ handler[h].does = does
  /\ handler' = [handler EXCEPT ![h] =
       [@ EXCEPT !.does = found, !.live = {s \in Cookies : session[s] \in {"valid", "expired"}}]]
  /\ UNCHANGED <<access, linked, token, session, via, old, disables, shared>>

RevokeFound(h) ==
  session' = [s \in Cookies |-> IF s \in handler[h].live THEN "revoked" ELSE session[s]]

Invite(h, t) ==
  /\ Commits(h, "invite") /\ Write(h, "INVITED") /\ CreateToken(t)
  /\ UNCHANGED <<linked, session, via, old, disables, shared>>

\* Mutant: the sessions outlive the lead's access.
DisableOnly(h) ==
  /\ Commits(h, "disabling") /\ Write(h, "DISABLED")
  /\ old' = old \cup handler[h].live /\ disables' = disables + 1
  /\ UNCHANGED <<linked, session, token, via, shared>>

\* The request commits: a session opened since it looked for them goes on.
Disable(h) ==
  /\ Commits(h, "disabling") /\ Write(h, "DISABLED") /\ RevokeFound(h)
  /\ old' = old \cup handler[h].live /\ disables' = disables + 1
  /\ UNCHANGED <<linked, token, via, shared>>

Enable(h) ==
  /\ Commits(h, "enable")
  /\ Write(h, IF handler[h].saw = "DISABLED" THEN "INVITED" ELSE handler[h].saw)
  /\ UNCHANGED <<linked, token, session, via, old, disables, shared>>

RequestLogin(h, t) ==
  /\ Commits(h, "login") /\ CreateToken(t)
  /\ UNCHANGED <<access, linked, session, via, old, disables, shared>>

\* Mutant: the link is not used up.
RedeemAgain(h, s) ==
  /\ Commits(h, "redeem")
  /\ Write(h, IF handler[h].saw = "INVITED" THEN "ACTIVE" ELSE handler[h].saw)
  /\ CreateSession(s, handler[h].token)
  /\ UNCHANGED <<linked, token, old, disables, shared>>

\* auth_callback: redeem_login_token and create_session.
Redeem(h, s) ==
  /\ Commits(h, "redeem")
  /\ token' = [token EXCEPT ![handler[h].token] = "used"]
  /\ Write(h, IF handler[h].saw = "INVITED" THEN "ACTIVE" ELSE handler[h].saw)
  /\ CreateSession(s, handler[h].token)
  /\ UNCHANGED <<linked, old, disables, shared>>

ClerkSession(h, s) ==
  /\ Commits(h, "clerk") /\ CreateSession(s, "clerk")
  /\ UNCHANGED <<access, linked, token, old, disables, shared>>

Logout(h) ==
  /\ Commits(h, "leaving") /\ RevokeFound(h)
  /\ UNCHANGED <<access, linked, token, via, old, disables, shared>>

\* user.created links the lead (sync_identity), user.deleted unlinks it.
ClerkEvent ==
  /\ linked' = ~linked
  /\ UNCHANGED <<access, token, session, handler, via, old, disables, shared>>

Expire ==
  /\ \/ \E t \in Tokens : token[t] = "fresh" /\ token' = [token EXCEPT ![t] = "expired"] /\ UNCHANGED session
     \/ \E s \in Cookies : session[s] = "valid" /\ session' = [session EXCEPT ![s] = "expired"] /\ UNCHANGED token
  /\ UNCHANGED <<access, linked, handler, via, old, disables, shared>>

AccessNext ==
  \/ ClerkEvent \/ Expire
  \/ \E h \in Handlers :
       \/ ReadInvite(h) \/ ReadDisable(h) \/ ReadEnable(h) \/ ReadLogin(h) \/ ReadClerk(h) \/ ReadLogout(h)
       \/ FindSessions(h, "disable", "disabling") \/ FindSessions(h, "logout", "leaving")
       \/ Disable(h) \/ Enable(h) \/ Logout(h)
       \/ \E t \in Tokens : ReadToken(h, t) \/ Invite(h, t) \/ RequestLogin(h, t)
       \/ \E s \in Cookies : Redeem(h, s) \/ ClerkSession(h, s)

AccessSpec == AccessInit /\ [][AccessNext]_accessVars

-----------------------------------------------------------------------------
\* A login link opens one session (models.py:62, "A single-use magic-link
\* token"), unless two requests redeemed it at once: each then finds it unused.
SingleUse ==
  \A t \in Tokens \ shared : Cardinality({s \in Cookies : via[s] = t}) <= 1

\* No session that a request disabling the lead had found signs anybody in again,
\* not even after the lead is enabled and active anew (main.py:620-623).  Sessions
\* opened later, even before that request committed, are not among them.
OldSessionsStayOut == \A s \in old : ~SignedIn(s)

\* A disabled lead is readmitted by the admin's enable only, or by a handler
\* that had read the lead before it was disabled.
ByEnable ==
  access = "DISABLED" /\ access' # "DISABLED" =>
    \E h \in Handlers : /\ handler[h].does # "nothing" /\ handler'[h] = NoRequest
                        /\ handler[h].does = "enable" \/ handler[h].when < disables

OnlyEnableReadmits == [][ByEnable]_accessVars

\* A link and a cookie give what they were issued for, and no more; who was shut
\* out stays out until the admin says otherwise.
AccessIsGranted == [](SingleUse /\ OldSessionsStayOut) /\ OnlyEnableReadmits
=============================================================================

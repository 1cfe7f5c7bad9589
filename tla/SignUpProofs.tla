---------------------------- MODULE SignUpProofs ----------------------------
(***************************************************************************)
(* Theorems about how a lead comes to be, for any addresses, threads,      *)
(* Clerk events and crashes, about its access to the beta, for any number  *)
(* of handlers, login links, cookies and disables, and about the limiter   *)
(* in front of both, for any limits, clients and threads.                  *)
(***************************************************************************)
EXTENDS SignUp, BetaAccess, RateLimiter, FiniteSetTheorems, WellFoundedInduction, TLAPS

\* The request that created the lead of its address is at work on the lead's
\* other rows.
Creating(r) == req[r].pc \in {"welcome", "lookup", "insert", "commit"}

\* A request on its way to commit an outbox row for e.
Mirroring(r, e) ==
  /\ req[r].pc \in {"welcome", "lookup", "insert"} \/ (At(r, "commit") /\ req[r].mirror)
  /\ req[r].email = e

\* A request works for a lead that exists, and so does an event, unless it
\* inserts the lead itself; nobody commits without an outbox row, its own or
\* another's.
Fits ==
  /\ \A r \in Requests :
       /\ ~At(r, "idle") /\ ~At(r, "create") => lead[Email(r)] # "none"
       /\ At(r, "commit") => req[r].mirror \/ Email(r) \in mirror
  /\ hook.pc \in {"lookup", "insert", "commit"} =>
       hook.lead \/ lead[hook.email] # "none"
  /\ hook.pc = "lead" /\ hook.saw => lead[hook.email] # "none"
  /\ hook.pc = "commit" => hook.mirror \/ hook.email \in mirror

\* A lead without an outbox row has a request on its way to insert one.
Attended ==
  \A e \in Emails :
    crashes = 0 /\ lead[e] # "none" /\ e \notin mirror =>
      \E r \in Requests : Mirroring(r, e)

MirrorInv == TypeOK /\ Fits /\ Attended

\* A request or event that is not idle is an open transaction.
LEMMA OpenWork ==
  ASSUME TypeOK
  PROVE  /\ \A r \in Requests : ~At(r, "idle") => req[r] \in Work(ReqSteps)
         /\ hook.pc # "idle" => hook \in Work(HookSteps)
BY DEF TypeOK, Idle, At

\* A request's next step keeps the types of the open transactions.
LEMMA GotoType ==
  ASSUME TypeOK, NEW r \in Requests, ~At(r, "idle"), NEW pc \in ReqSteps,
         NEW saw \in BOOLEAN, NEW w \in BOOLEAN, NEW b \in BOOLEAN
  PROVE  /\ [req EXCEPT ![r].pc = pc] \in [Requests -> Work(ReqSteps) \cup {Idle}]
         /\ [req EXCEPT ![r].welcome = w, ![r].pc = pc]
              \in [Requests -> Work(ReqSteps) \cup {Idle}]
         /\ [req EXCEPT ![r].saw = saw, ![r].pc = pc]
              \in [Requests -> Work(ReqSteps) \cup {Idle}]
         /\ [req EXCEPT ![r].mirror = b, ![r].pc = pc]
              \in [Requests -> Work(ReqSteps) \cup {Idle}]
<1>1. req[r] \in Work(ReqSteps)
  BY OpenWork
<1>2. /\ [req[r] EXCEPT !.pc = pc] \in Work(ReqSteps)
      /\ [[req[r] EXCEPT !.welcome = w] EXCEPT !.pc = pc] \in Work(ReqSteps)
      /\ [[req[r] EXCEPT !.saw = saw] EXCEPT !.pc = pc] \in Work(ReqSteps)
      /\ [[req[r] EXCEPT !.mirror = b] EXCEPT !.pc = pc] \in Work(ReqSteps)
  BY <1>1 DEF Work
<1> QED
  BY <1>2 DEF TypeOK

\* So does an event's lookup.
LEMMA HookType ==
  ASSUME hook \in Work(HookSteps), NEW pc \in HookSteps, NEW saw \in BOOLEAN
  PROVE  [hook EXCEPT !.saw = saw, !.pc = pc] \in Work(HookSteps)
BY DEF Work

\* Nothing has happened yet.
LEMMA InitMirror == Init => MirrorInv
<1> SUFFICES ASSUME Init PROVE MirrorInv
  OBVIOUS
<1>1. TypeOK
  BY SignUpAssumption DEF Init, TypeOK
<1>2. Fits
  BY DEF Init, Fits, Idle, At, Email
<1>3. Attended
  BY DEF Init, Attended
<1> QED
  BY <1>1, <1>2, <1>3 DEF MirrorInv

-----------------------------------------------------------------------------
\* Every step of a request, an event and their environment keeps it.
LEMMA MirrorStep == MirrorInv /\ [Next]_vars => MirrorInv'
<1> SUFFICES ASSUME MirrorInv, [Next]_vars PROVE MirrorInv'
  OBVIOUS
<1> USE SignUpAssumption
<1>t. TypeOK /\ Fits /\ Attended
  BY DEF MirrorInv
<1>w. /\ \A r \in Requests : ~At(r, "idle") => req[r] \in Work(ReqSteps)
      /\ hook.pc # "idle" => hook \in Work(HookSteps)
  BY <1>t, OpenWork
<1>1. ASSUME NEW r \in Requests, NEW e \in Emails, Lookup(r, e) PROVE MirrorInv'
  <2>1. TypeOK'
    BY <1>1, <1>t DEF Lookup, TypeOK, Begin, Work, ReqSteps, tables, counters
  <2>2. Fits'
    BY <1>1, <1>t DEF Lookup, Fits, TypeOK, Begin, At, Email, tables, counters
  <2>3. Attended'
    <3>1. \A q \in Requests, f \in Emails : Mirroring(q, f) => Mirroring(q, f)'
      BY <1>1, <1>t DEF Lookup, TypeOK, Mirroring, At
    <3> QED
      BY <1>1, <1>t, <3>1 DEF Lookup, Attended, tables, counters
  <2> QED
    BY <2>1, <2>2, <2>3 DEF MirrorInv
<1>2. ASSUME NEW r \in Requests, CreateLead(r) PROVE MirrorInv'
  <2>0. At(r, "create") /\ req[r] \in Work(ReqSteps) /\ Email(r) \in Emails
    BY <1>2, <1>w DEF CreateLead, At, Work, Email
  <2>1. CASE lead[Email(r)] = "none"
    <3>1. /\ lead' = [lead EXCEPT ![Email(r)] = "web"]
          /\ consent' = consent \cup {Email(r)}
          /\ req' = [req EXCEPT ![r].pc = "welcome"]
          /\ UNCHANGED <<welcome, mirror, hook, counters>>
      BY <1>2, <2>1 DEF CreateLead, Goto
    <3>2. req' \in [Requests -> Work(ReqSteps) \cup {Idle}]
      BY <1>t, <2>0, <3>1, GotoType DEF At, ReqSteps
    <3>3. TypeOK'
      BY <1>t, <2>0, <3>1, <3>2 DEF TypeOK, counters
    <3>4. Fits'
      BY <1>t, <2>0, <3>1 DEF Fits, TypeOK, At, Email, counters
    <3>5. \A q \in Requests, f \in Emails : Mirroring(q, f) => Mirroring(q, f)'
      BY <1>t, <2>0, <3>1 DEF TypeOK, Mirroring, At
    <3>6. \A f \in Emails : f = Email(r) => Mirroring(r, f)'
      BY <1>t, <2>0, <3>1 DEF TypeOK, Mirroring, At, Email
    <3>7. Attended'
      <4>1. \A f \in Emails \ {Email(r)} : lead'[f] = lead[f]
        BY <1>t, <2>0, <3>1 DEF TypeOK
      <4>2. crashes' = crashes /\ mirror' = mirror
        BY <3>1 DEF counters
      <4> QED
        BY <1>t, <3>5, <3>6, <4>1, <4>2 DEF Attended
    <3> QED
      BY <3>3, <3>4, <3>7 DEF MirrorInv
  <2>2. CASE lead[Email(r)] # "none"
    <3>1. req' = [req EXCEPT ![r] = Idle] /\ UNCHANGED <<tables, hook, counters>>
      BY <1>2, <2>2 DEF CreateLead, End, tables
    <3>2. TypeOK'
      BY <1>t, <3>1 DEF TypeOK, tables, counters
    <3>3. Fits'
      BY <1>t, <3>1 DEF Fits, TypeOK, At, Email, Idle, tables, counters
    <3>4. \A q \in Requests, f \in Emails : Mirroring(q, f) => Mirroring(q, f)'
      BY <1>t, <2>0, <3>1 DEF TypeOK, Mirroring, At
    <3>5. Attended'
      BY <1>t, <3>1, <3>4 DEF Attended, tables, counters
    <3> QED
      BY <3>2, <3>3, <3>5 DEF MirrorInv
  <2> QED
    BY <2>1, <2>2
<1>3. ASSUME NEW r \in Requests, Welcome(r) PROVE MirrorInv'
  <2>0. At(r, "welcome") /\ req[r] \in Work(ReqSteps)
    BY <1>3, <1>w DEF Welcome, At
  <2>1. /\ req' = [req EXCEPT ![r].welcome = Email(r) \notin welcome, ![r].pc = "lookup"]
        /\ UNCHANGED <<tables, hook, counters>>
    BY <1>3 DEF Welcome
  <2>2. req' \in [Requests -> Work(ReqSteps) \cup {Idle}]
    <3>1. ~At(r, "idle") /\ "lookup" \in ReqSteps
      BY <2>0 DEF At, ReqSteps
    <3>2. (Email(r) \notin welcome) \in BOOLEAN
      OBVIOUS
    <3>3. [req EXCEPT ![r].welcome = Email(r) \notin welcome, ![r].pc = "lookup"]
            \in [Requests -> Work(ReqSteps) \cup {Idle}]
      BY <1>t, <3>1, <3>2, GotoType, Zenon
    <3> QED
      BY <2>1, <3>3
  <2>3. TypeOK'
    BY <1>t, <2>1, <2>2 DEF TypeOK, tables, counters
  <2>4. Fits'
    BY <1>t, <2>0, <2>1 DEF Fits, TypeOK, At, Email, tables, counters, Work
  <2>5. \A q \in Requests, f \in Emails : Mirroring(q, f) => Mirroring(q, f)'
    BY <1>t, <2>0, <2>1 DEF TypeOK, Mirroring, At, Work
  <2>6. Attended'
    BY <1>t, <2>1, <2>5 DEF Attended, tables, counters
  <2> QED
    BY <2>3, <2>4, <2>6 DEF MirrorInv
<1>4. ASSUME NEW r \in Requests, LookupMirror(r) PROVE MirrorInv'
  <2>0. At(r, "lookup") /\ req[r] \in Work(ReqSteps)
    BY <1>4, <1>w DEF LookupMirror, At
  <2>1. /\ req' = [req EXCEPT ![r].saw = Email(r) \in mirror,
                      ![r].pc = IF Email(r) \in mirror THEN "commit" ELSE "insert"]
        /\ UNCHANGED <<tables, hook, counters>>
    BY <1>4 DEF LookupMirror
  <2>2. req' \in [Requests -> Work(ReqSteps) \cup {Idle}]
    <3> DEFINE pc == IF Email(r) \in mirror THEN "commit" ELSE "insert"
    <3>1. ~At(r, "idle") /\ pc \in ReqSteps
      BY <2>0 DEF At, ReqSteps
    <3>2. (Email(r) \in mirror) \in BOOLEAN
      OBVIOUS
    <3> HIDE DEF pc
    <3>3. [req EXCEPT ![r].saw = Email(r) \in mirror, ![r].pc = pc]
            \in [Requests -> Work(ReqSteps) \cup {Idle}]
      BY <1>t, <3>1, <3>2, GotoType, Zenon
    <3> QED
      BY <2>1, <3>3 DEF pc
  <2>3. TypeOK'
    BY <1>t, <2>1, <2>2 DEF TypeOK, tables, counters
  <2>4. Fits'
    BY <1>t, <2>0, <2>1 DEF Fits, TypeOK, At, Email, tables, counters, Work
  <2>5. \A q \in Requests, f \in Emails :
          f \notin mirror /\ Mirroring(q, f) => Mirroring(q, f)'
    BY <1>t, <2>0, <2>1 DEF TypeOK, Mirroring, At, Email, Work
  <2>6. Attended'
    BY <1>t, <2>1, <2>5 DEF Attended, tables, counters
  <2> QED
    BY <2>3, <2>4, <2>6 DEF MirrorInv
<1>5. ASSUME NEW r \in Requests, InsertMirror(r) PROVE MirrorInv'
  <2>0. /\ At(r, "insert") /\ req[r] \in Work(ReqSteps)
        /\ UNCHANGED <<tables, hook, counters>>
    BY <1>5, <1>w DEF InsertMirror, At
  <2>1. CASE Email(r) \in mirror
    <3>1. req' = [req EXCEPT ![r] = Idle]
      BY <1>5, <2>1 DEF InsertMirror, End
    <3>2. TypeOK'
      BY <1>t, <2>0, <3>1 DEF TypeOK, tables, counters
    <3>3. Fits'
      BY <1>t, <2>0, <3>1 DEF Fits, TypeOK, At, Email, Idle, tables, counters
    <3>4. \A q \in Requests, f \in Emails :
            f \notin mirror /\ Mirroring(q, f) => Mirroring(q, f)'
      BY <1>t, <2>1, <3>1 DEF TypeOK, Mirroring, At, Email
    <3>5. Attended'
      BY <1>t, <2>0, <3>4 DEF Attended, tables, counters
    <3> QED
      BY <3>2, <3>3, <3>5 DEF MirrorInv
  <2>2. CASE Email(r) \notin mirror
    <3>1. req' = [req EXCEPT ![r].mirror = TRUE, ![r].pc = "commit"]
      BY <1>5, <2>2 DEF InsertMirror
    <3>2. req' \in [Requests -> Work(ReqSteps) \cup {Idle}]
      BY <1>t, <2>0, <3>1, GotoType DEF At, ReqSteps
    <3>3. TypeOK'
      BY <1>t, <2>0, <3>2 DEF TypeOK, tables, counters
    <3>4. Fits'
      BY <1>t, <2>0, <3>1 DEF Fits, TypeOK, At, Email, tables, counters, Work
    <3>5. \A q \in Requests, f \in Emails : Mirroring(q, f) => Mirroring(q, f)'
      BY <1>t, <2>0, <3>1 DEF TypeOK, Mirroring, At, Work
    <3>6. Attended'
      BY <1>t, <2>0, <3>5 DEF Attended, tables, counters
    <3> QED
      BY <3>3, <3>4, <3>6 DEF MirrorInv
  <2> QED
    BY <2>1, <2>2
<1>6. ASSUME NEW r \in Requests, CommitSignUp(r) PROVE MirrorInv'
  <2>0. At(r, "commit") /\ req[r] \in Work(ReqSteps) /\ Email(r) \in Emails
    BY <1>6, <1>w DEF CommitSignUp, At, Work, Email
  <2>1. /\ req' = [req EXCEPT ![r] = Idle]
        /\ welcome' \subseteq welcome \cup {Email(r)}
        /\ mirror' \subseteq mirror \cup {Email(r)} /\ mirror \subseteq mirror'
        /\ UNCHANGED <<lead, consent, hook, counters>>
    BY <1>6 DEF CommitSignUp, End
  <2>2. lead[Email(r)] # "none"
    BY <1>t, <2>0 DEF Fits, At
  <2>3. Email(r) \in mirror'
    BY <1>6, <1>t, <2>0 DEF CommitSignUp, Fits
  <2>4. TypeOK'
    BY <1>t, <2>0, <2>1, <2>2 DEF TypeOK, counters
  <2>5. Fits'
    BY <1>t, <2>1 DEF Fits, TypeOK, At, Email, Idle
  <2>6. \A q \in Requests, f \in Emails \ {Email(r)} :
          Mirroring(q, f) => Mirroring(q, f)'
    BY <1>t, <2>1 DEF TypeOK, Mirroring, At, Email
  <2>7. Attended'
    BY <1>t, <2>1, <2>3, <2>6 DEF Attended, counters
  <2> QED
    BY <2>4, <2>5, <2>7 DEF MirrorInv
<1>7. ASSUME NEW r \in Requests, Rejoin(r) PROVE MirrorInv'
  <2>0. At(r, "rejoin") /\ req[r] \in Work(ReqSteps) /\ Email(r) \in Emails
    BY <1>7, <1>w DEF Rejoin, At, Work, Email
  <2>1. /\ req' = [req EXCEPT ![r].pc = "rewelcome"]
        /\ consent' = consent \cup {Email(r)}
        /\ UNCHANGED <<lead, welcome, mirror, hook, counters>>
    BY <1>7 DEF Rejoin, Goto
  <2>2. req' \in [Requests -> Work(ReqSteps) \cup {Idle}]
    BY <1>t, <2>0, <2>1, GotoType DEF At, ReqSteps
  <2>3. lead[Email(r)] # "none"
    BY <1>t, <2>0 DEF Fits, At
  <2>4. TypeOK'
    BY <1>t, <2>0, <2>1, <2>2, <2>3 DEF TypeOK, counters
  <2>5. Fits'
    BY <1>t, <2>0, <2>1 DEF Fits, TypeOK, At, Email
  <2>6. \A q \in Requests, f \in Emails : Mirroring(q, f) => Mirroring(q, f)'
    BY <1>t, <2>0, <2>1 DEF TypeOK, Mirroring, At
  <2>7. Attended'
    BY <1>t, <2>1, <2>6 DEF Attended, counters
  <2> QED
    BY <2>4, <2>5, <2>7 DEF MirrorInv
<1>8. ASSUME NEW r \in Requests, Rewelcome(r) PROVE MirrorInv'
  <2>0. At(r, "rewelcome") /\ req[r] \in Work(ReqSteps) /\ Email(r) \in Emails
    BY <1>8, <1>w DEF Rewelcome, At, Work, Email
  <2>1. /\ req' = [req EXCEPT ![r] = Idle]
        /\ welcome' = welcome \cup {Email(r)}
        /\ UNCHANGED <<lead, consent, mirror, hook, counters>>
    BY <1>8 DEF Rewelcome, End
  <2>2. lead[Email(r)] # "none"
    BY <1>t, <2>0 DEF Fits, At
  <2>3. TypeOK'
    BY <1>t, <2>0, <2>1, <2>2 DEF TypeOK, counters
  <2>4. Fits'
    BY <1>t, <2>1 DEF Fits, TypeOK, At, Email, Idle
  <2>5. \A q \in Requests, f \in Emails : Mirroring(q, f) => Mirroring(q, f)'
    BY <1>t, <2>0, <2>1 DEF TypeOK, Mirroring, At
  <2>6. Attended'
    BY <1>t, <2>1, <2>5 DEF Attended, counters
  <2> QED
    BY <2>3, <2>4, <2>6 DEF MirrorInv
<1>9. ASSUME NEW e \in Emails, Unsubscribe(e) PROVE MirrorInv'
  BY <1>9, <1>t
  DEF Unsubscribe, MirrorInv, TypeOK, Fits, Attended, Mirroring, At, Email, counters
<1>10. ASSUME NEW e \in Emails, HookLookup(e) PROVE MirrorInv'
  <2>1. hook' \in Work(HookSteps)
    BY <1>10 DEF HookLookup, Begin, Work, HookSteps
  <2>2. TypeOK'
    BY <1>10, <1>t, <2>1 DEF HookLookup, TypeOK, tables
  <2>3. Fits'
    BY <1>10, <1>t DEF HookLookup, Fits, Begin, At, Email, tables
  <2>4. Attended'
    BY <1>10, <1>t DEF HookLookup, Attended, Mirroring, At, tables
  <2> QED
    BY <2>2, <2>3, <2>4 DEF MirrorInv
<1>11. CASE HookLead
  <2>0. hook.pc = "lead" /\ hook \in Work(HookSteps)
    BY <1>11, <1>w DEF HookLead
  <2>1. hook' \in Work(HookSteps) \cup {Idle}
    BY <1>11, <2>0 DEF HookLead, Work, HookSteps
  <2>2. TypeOK'
    BY <1>11, <1>t, <2>1 DEF HookLead, TypeOK, tables, counters
  <2>3. Fits'
    BY <1>11, <1>t, <2>0 DEF HookLead, Fits, Work, Idle, At, Email, tables, counters
  <2>4. Attended'
    BY <1>11, <1>t DEF HookLead, Attended, Mirroring, At, tables, counters
  <2> QED
    BY <2>2, <2>3, <2>4 DEF MirrorInv
<1>12. CASE HookLookupMirror
  <2>0. hook.pc = "lookup" /\ hook \in Work(HookSteps)
    BY <1>12, <1>w DEF HookLookupMirror
  <2>1. hook' \in Work(HookSteps)
    <3> DEFINE pc == IF hook.email \in mirror THEN "commit" ELSE "insert"
    <3>1. pc \in HookSteps /\ (hook.email \in mirror) \in BOOLEAN
      BY DEF HookSteps
    <3>2. hook' = [hook EXCEPT !.saw = hook.email \in mirror, !.pc = pc]
      BY <1>12 DEF HookLookupMirror
    <3> HIDE DEF pc
    <3>3. [hook EXCEPT !.saw = hook.email \in mirror, !.pc = pc] \in Work(HookSteps)
      BY <2>0, <3>1, HookType, Zenon
    <3> QED
      BY <3>2, <3>3
  <2>2. TypeOK'
    BY <1>12, <1>t, <2>1 DEF HookLookupMirror, TypeOK, tables, counters
  <2>3. Fits'
    BY <1>12, <1>t, <2>0 DEF HookLookupMirror, Fits, Work, At, Email, tables, counters
  <2>4. Attended'
    BY <1>12, <1>t DEF HookLookupMirror, Attended, Mirroring, At, tables, counters
  <2> QED
    BY <2>2, <2>3, <2>4 DEF MirrorInv
<1>13. CASE HookInsertMirror
  <2>0. hook.pc = "insert" /\ hook \in Work(HookSteps)
    BY <1>13, <1>w DEF HookInsertMirror
  <2>1. hook' \in Work(HookSteps) \cup {Idle}
    BY <1>13, <2>0 DEF HookInsertMirror, Work, HookSteps
  <2>2. TypeOK'
    BY <1>13, <1>t, <2>1 DEF HookInsertMirror, TypeOK, tables, counters
  <2>3. Fits'
    BY <1>13, <1>t, <2>0
    DEF HookInsertMirror, Fits, Work, Idle, At, Email, tables, counters
  <2>4. Attended'
    BY <1>13, <1>t DEF HookInsertMirror, Attended, Mirroring, At, tables, counters
  <2> QED
    BY <2>2, <2>3, <2>4 DEF MirrorInv
<1>14. CASE HookCommit
  <2>0. hook.pc = "commit" /\ hook \in Work(HookSteps) /\ hook.email \in Emails
    BY <1>14, <1>w DEF HookCommit, Work
  <2>1. /\ hook' = Idle /\ UNCHANGED <<welcome, req, counters>>
        /\ lead' \in [Emails -> {"none", "web", "clerk"}]
        /\ \A e \in Emails : lead[e] # "none" => lead'[e] # "none"
        /\ \A e \in Emails \ {hook.email} : lead'[e] = lead[e]
        /\ lead'[hook.email] # "none"
        /\ consent' \subseteq consent \cup {hook.email}
        /\ mirror' \subseteq mirror \cup {hook.email} /\ mirror \subseteq mirror'
        /\ hook.email \in mirror'
    BY <1>14, <1>t, <2>0 DEF HookCommit, TypeOK, Fits
  <2>2. TypeOK'
    BY <1>t, <2>0, <2>1 DEF TypeOK, counters
  <2>3. \A q \in Requests : ~At(q, "idle") => Email(q) \in Emails
    BY <1>w DEF Work, Email
  <2>4. Fits'
    BY <1>t, <2>1, <2>3 DEF Fits, Idle, At, Email
  <2>5. Attended'
    BY <1>t, <2>1 DEF Attended, Mirroring, At, counters
  <2> QED
    BY <2>2, <2>4, <2>5 DEF MirrorInv
<1>15. CASE Crash
  <2>1. TypeOK'
    BY <1>15, <1>t DEF Crash, TypeOK, tables
  <2>2. Fits'
    BY <1>15 DEF Crash, Fits, Idle, At, Email
  <2>3. Attended'
    BY <1>15, <1>t DEF Crash, Attended, TypeOK
  <2> QED
    BY <2>1, <2>2, <2>3 DEF MirrorInv
<1>16. CASE UNCHANGED vars
  BY <1>16, <1>t
  DEF vars, tables, counters, MirrorInv, TypeOK, Fits, Attended, Mirroring, At, Email
<1>17. ASSUME NEW r \in Requests, Handle(r) PROVE MirrorInv'
  BY <1>17, <1>1, <1>2, <1>3, <1>4, <1>5, <1>6, <1>7, <1>8 DEF Handle
<1>18. CASE HandleHook
  BY <1>18, <1>10, <1>11, <1>12, <1>13, <1>14 DEF HandleHook
<1> QED
  BY <1>9, <1>15, <1>16, <1>17, <1>18 DEF Next

\* For every instance a consent, a welcome mail or an outbox row has its lead,
\* whichever transaction of a sign-up or an event was rolled back
\* (main.py:297-305, 362-365).
THEOREM TypeCorrect == Spec => []TypeOK
<1>1. Spec => []MirrorInv
  BY InitMirror, MirrorStep, PTL DEF Spec
<1>2. MirrorInv => TypeOK
  BY DEF MirrorInv
<1> QED
  BY <1>1, <1>2, PTL

\* For every instance, as long as no process dies, a lead that nobody is at
\* work on has an outbox row, however many sign-ups and Clerk events collided
\* (main.py:297-304, 362-364; sheets_sync.py:30-34).
THEOREM LeadsAreMirrored == Spec => []EveryLeadIsMirrored
<1>1. Spec => []MirrorInv
  BY InitMirror, MirrorStep, PTL DEF Spec
<1>2. ASSUME MirrorInv PROVE EveryLeadIsMirrored
  <2>1. \A r \in Requests, e \in Emails : Mirroring(r, e) => ~Quiet(e)
    BY DEF Mirroring, At, Quiet, Transactions
  <2> QED
    BY <1>2, <2>1 DEF MirrorInv, Attended, EveryLeadIsMirrored
<1> QED
  BY <1>1, <1>2, PTL

-----------------------------------------------------------------------------
\* A request that will commit a welcome mail for e.
Welcoming(r, e) ==
  /\ At(r, "welcome") \/ (req[r].pc \in {"lookup", "insert", "commit"} /\ req[r].welcome)
  /\ req[r].email = e

\* Without events, nobody but its creator writes a new lead's rows.
Alone ==
  /\ hook.pc = "idle"
  /\ \A r \in Requests : Creating(r) => Email(r) \notin mirror
  /\ \A r, q \in Requests :
       Creating(r) /\ Creating(q) /\ Email(r) = Email(q) => r = q
  /\ \A e \in Emails :
       lead[e] = "web" /\ e \notin welcome => \E r \in Requests : Welcoming(r, e)

WelcomeInv == MirrorInv /\ (events = 0 /\ crashes = 0 => Alone)

\* Nobody has signed up yet.
LEMMA InitWelcome == Init => WelcomeInv
<1> SUFFICES ASSUME Init PROVE WelcomeInv
  OBVIOUS
<1>1. Alone
  BY DEF Init, Alone, Idle, Creating
<1> QED
  BY <1>1, InitMirror DEF WelcomeInv

\* Every step keeps it.
LEMMA WelcomeStep == WelcomeInv /\ [Next]_vars => WelcomeInv'
<1> SUFFICES ASSUME WelcomeInv, [Next]_vars, events' = 0, crashes' = 0
             PROVE  Alone'
  BY MirrorStep DEF WelcomeInv
<1> USE SignUpAssumption
<1>t. TypeOK /\ Fits /\ TypeOK'
  BY MirrorStep DEF WelcomeInv, MirrorInv
<1>c. events \in Nat /\ crashes \in Nat
  BY <1>t DEF TypeOK
<1>a. UNCHANGED counters => Alone
  BY DEF WelcomeInv, counters
<1>w. \A r \in Requests : ~At(r, "idle") =>
        req[r] \in Work(ReqSteps) /\ Email(r) \in Emails
  BY <1>t, OpenWork DEF Work, Email
<1>1. ASSUME NEW r \in Requests, NEW e \in Emails, Lookup(r, e) PROVE Alone'
  <2>1. \A q \in Requests : (Creating(q)' <=> Creating(q)) /\ (Creating(q) => Email(q)' = Email(q))
    BY <1>1, <1>t DEF Lookup, TypeOK, Begin, Creating, At, Email
  <2>2. \A q \in Requests, f \in Emails : Welcoming(q, f) => Welcoming(q, f)'
    BY <1>1, <1>t DEF Lookup, TypeOK, Welcoming, At
  <2> QED
    BY <1>1, <1>a, <2>1, <2>2 DEF Lookup, Alone, tables
<1>2. ASSUME NEW r \in Requests, CreateLead(r) PROVE Alone'
  <2>0. At(r, "create") /\ req[r] \in Work(ReqSteps) /\ Email(r) \in Emails /\ Alone
    BY <1>2, <1>w, <1>a DEF CreateLead, At
  <2>1. CASE lead[Email(r)] = "none"
    <3>1. /\ lead' = [lead EXCEPT ![Email(r)] = "web"]
          /\ req' = [req EXCEPT ![r].pc = "welcome"]
          /\ UNCHANGED <<welcome, mirror, hook>>
      BY <1>2, <2>1 DEF CreateLead, Goto
    <3>2. \A q \in Requests :
            /\ Creating(q)' <=> Creating(q) \/ q = r
            /\ ~At(q, "idle") => Email(q)' = Email(q)
            /\ Creating(q) => Email(q) # Email(r) /\ ~At(q, "idle")
      BY <1>t, <2>0, <2>1, <3>1 DEF TypeOK, Creating, At, Email, Fits, Work
    <3>3. Email(r) \notin mirror
      BY <1>t, <2>1 DEF TypeOK
    <3>4. \A q \in Requests, f \in Emails : Welcoming(q, f) => Welcoming(q, f)'
      BY <1>t, <2>0, <3>1 DEF TypeOK, Welcoming, At
    <3>5. \A f \in Emails : f = Email(r) => Welcoming(r, f)'
      BY <1>t, <2>0, <3>1 DEF TypeOK, Welcoming, At, Email, Work
    <3>6. \A f \in Emails : f # Email(r) => lead'[f] = lead[f]
      BY <1>t, <2>0, <3>1 DEF TypeOK
    <3>7. \A q \in Requests : Creating(q)' => Email(q)' \notin mirror'
      BY <2>0, <3>1, <3>2, <3>3 DEF Alone, At
    <3>8. \A p, q \in Requests :
            Creating(p)' /\ Creating(q)' /\ Email(p)' = Email(q)' => p = q
      BY <2>0, <3>2 DEF Alone, At
    <3>9. \A f \in Emails :
            lead'[f] = "web" /\ f \notin welcome' => \E q \in Requests : Welcoming(q, f)'
      BY <2>0, <3>1, <3>4, <3>5, <3>6 DEF Alone
    <3> QED
      BY <2>0, <3>1, <3>7, <3>8, <3>9 DEF Alone
  <2>2. CASE lead[Email(r)] # "none"
    <3>1. req' = [req EXCEPT ![r] = Idle] /\ UNCHANGED <<tables, hook>>
      BY <1>2, <2>2 DEF CreateLead, End, tables
    <3>2. \A q \in Requests :
            (Creating(q)' <=> Creating(q)) /\ (Creating(q) => Email(q)' = Email(q))
      BY <1>t, <2>0, <3>1 DEF TypeOK, Creating, At, Email, Idle
    <3>3. \A q \in Requests, f \in Emails : Welcoming(q, f) => Welcoming(q, f)'
      BY <1>t, <2>0, <3>1 DEF TypeOK, Welcoming, At
    <3> QED
      BY <2>0, <3>1, <3>2, <3>3 DEF Alone, tables
  <2> QED
    BY <2>1, <2>2
<1>3. ASSUME NEW r \in Requests, Welcome(r) PROVE Alone'
  <2>0. At(r, "welcome") /\ req[r] \in Work(ReqSteps) /\ Alone
    BY <1>3, <1>w, <1>a DEF Welcome, At
  <2>1. /\ req' = [req EXCEPT ![r].welcome = Email(r) \notin welcome, ![r].pc = "lookup"]
        /\ UNCHANGED <<tables, hook>>
    BY <1>3 DEF Welcome
  <2>2. \A q \in Requests :
          (Creating(q)' <=> Creating(q)) /\ (Creating(q) => Email(q)' = Email(q))
    BY <1>t, <2>0, <2>1 DEF TypeOK, Creating, At, Email, Work
  <2>3. \A q \in Requests, f \in Emails :
          f \notin welcome /\ Welcoming(q, f) => Welcoming(q, f)'
    BY <1>t, <2>0, <2>1 DEF TypeOK, Welcoming, At, Email, Work
  <2> QED
    BY <2>0, <2>1, <2>2, <2>3 DEF Alone, tables
<1>4. ASSUME NEW r \in Requests, LookupMirror(r) PROVE Alone'
  <2>0. At(r, "lookup") /\ req[r] \in Work(ReqSteps) /\ Alone
    BY <1>4, <1>w, <1>a DEF LookupMirror, At
  <2>1. /\ req' = [req EXCEPT ![r].saw = Email(r) \in mirror,
                      ![r].pc = IF Email(r) \in mirror THEN "commit" ELSE "insert"]
        /\ UNCHANGED <<tables, hook>>
    BY <1>4 DEF LookupMirror
  <2>2. \A q \in Requests :
          (Creating(q)' <=> Creating(q)) /\ (Creating(q) => Email(q)' = Email(q))
    BY <1>t, <2>0, <2>1 DEF TypeOK, Creating, At, Email, Work
  <2>3. \A q \in Requests, f \in Emails : Welcoming(q, f) => Welcoming(q, f)'
    BY <1>t, <2>0, <2>1 DEF TypeOK, Welcoming, At, Work
  <2> QED
    BY <2>0, <2>1, <2>2, <2>3 DEF Alone, tables
<1>5. ASSUME NEW r \in Requests, InsertMirror(r) PROVE Alone'
  <2>0. At(r, "insert") /\ req[r] \in Work(ReqSteps) /\ Alone
    BY <1>5, <1>w, <1>a DEF InsertMirror, At
  <2>1. Email(r) \notin mirror
    BY <2>0 DEF Alone, Creating, At
  <2>2. /\ req' = [req EXCEPT ![r].mirror = TRUE, ![r].pc = "commit"]
        /\ UNCHANGED <<tables, hook>>
    BY <1>5, <2>1 DEF InsertMirror
  <2>3. \A q \in Requests :
          (Creating(q)' <=> Creating(q)) /\ (Creating(q) => Email(q)' = Email(q))
    BY <1>t, <2>0, <2>2 DEF TypeOK, Creating, At, Email, Work
  <2>4. \A q \in Requests, f \in Emails : Welcoming(q, f) => Welcoming(q, f)'
    BY <1>t, <2>0, <2>2 DEF TypeOK, Welcoming, At, Work
  <2> QED
    BY <2>0, <2>2, <2>3, <2>4 DEF Alone, tables
<1>6. ASSUME NEW r \in Requests, CommitSignUp(r) PROVE Alone'
  <2>0. At(r, "commit") /\ Creating(r) /\ Alone
    BY <1>6, <1>a DEF CommitSignUp, At, Creating
  <2>1. /\ req' = [req EXCEPT ![r] = Idle]
        /\ welcome \subseteq welcome'
        /\ req[r].welcome => Email(r) \in welcome'
        /\ mirror' \subseteq mirror \cup {Email(r)}
        /\ UNCHANGED <<lead, hook>>
    BY <1>6 DEF CommitSignUp, End
  <2>2. \A q \in Requests :
          /\ Creating(q)' <=> Creating(q) /\ q # r
          /\ q # r => Email(q)' = Email(q)
    BY <1>t, <2>1 DEF TypeOK, Creating, Email, Idle
  <2>3. \A q \in Requests, f \in Emails :
          f \notin welcome' /\ Welcoming(q, f) => Welcoming(q, f)'
    BY <1>t, <2>0, <2>1 DEF TypeOK, Welcoming, At, Email
  <2>4. \A q \in Requests : Creating(q)' => Email(q)' \notin mirror'
    BY <2>0, <2>1, <2>2 DEF Alone
  <2> QED
    BY <2>0, <2>1, <2>2, <2>3, <2>4 DEF Alone
<1>7. ASSUME NEW r \in Requests, Rejoin(r) PROVE Alone'
  <2>0. At(r, "rejoin") /\ req[r] \in Work(ReqSteps) /\ Alone
    BY <1>7, <1>w, <1>a DEF Rejoin, At
  <2>1. /\ req' = [req EXCEPT ![r].pc = "rewelcome"]
        /\ UNCHANGED <<lead, welcome, mirror, hook>>
    BY <1>7 DEF Rejoin, Goto
  <2>2. \A q \in Requests :
          (Creating(q)' <=> Creating(q)) /\ (Creating(q) => Email(q)' = Email(q))
    BY <1>t, <2>0, <2>1 DEF TypeOK, Creating, At, Email
  <2>3. \A q \in Requests, f \in Emails : Welcoming(q, f) => Welcoming(q, f)'
    BY <1>t, <2>0, <2>1 DEF TypeOK, Welcoming, At
  <2> QED
    BY <2>0, <2>1, <2>2, <2>3 DEF Alone
<1>8. ASSUME NEW r \in Requests, Rewelcome(r) PROVE Alone'
  <2>0. At(r, "rewelcome") /\ Alone
    BY <1>8, <1>a DEF Rewelcome
  <2>1. /\ req' = [req EXCEPT ![r] = Idle]
        /\ welcome \subseteq welcome'
        /\ UNCHANGED <<lead, mirror, hook>>
    BY <1>8 DEF Rewelcome, End
  <2>2. \A q \in Requests :
          (Creating(q)' <=> Creating(q)) /\ (Creating(q) => Email(q)' = Email(q))
    BY <1>t, <2>0, <2>1 DEF TypeOK, Creating, At, Email, Idle
  <2>3. \A q \in Requests, f \in Emails : Welcoming(q, f) => Welcoming(q, f)'
    BY <1>t, <2>0, <2>1 DEF TypeOK, Welcoming, At
  <2> QED
    BY <2>0, <2>1, <2>2, <2>3 DEF Alone
<1>9. ASSUME NEW e \in Emails, Unsubscribe(e) PROVE Alone'
  BY <1>9, <1>a DEF Unsubscribe, Alone, Creating, Welcoming, At, Email
<1>10. ASSUME NEW e \in Emails, HookLookup(e) PROVE Alone'
  BY <1>10, <1>c DEF HookLookup
<1>11. CASE HookLead \/ HookLookupMirror \/ HookInsertMirror \/ HookCommit
  BY <1>11, <1>a DEF HookLead, HookLookupMirror, HookInsertMirror, HookCommit, Alone
<1>12. CASE Crash
  BY <1>12, <1>c DEF Crash
<1>13. CASE UNCHANGED vars
  BY <1>13, <1>a
  DEF vars, tables, counters, Alone, Creating, Welcoming, At, Email
<1>14. ASSUME NEW r \in Requests, Handle(r) PROVE Alone'
  BY <1>14, <1>1, <1>2, <1>3, <1>4, <1>5, <1>6, <1>7, <1>8 DEF Handle
<1> QED
  BY <1>9, <1>10, <1>11, <1>12, <1>13, <1>14 DEF Next, HandleHook

\* For every instance, as long as no Clerk event comes and no process dies, a
\* lead that signed up has its welcome mail, however many sign-ups collided
\* (main.py:297-304; email_queue.py:26-29).
THEOREM SignUpsAreWelcomed == Spec => []SignUpsAloneAreWelcomed
<1>1. Spec => []WelcomeInv
  BY InitWelcome, WelcomeStep, PTL DEF Spec
<1>2. ASSUME WelcomeInv PROVE SignUpsAloneAreWelcomed
  <2>1. \A r \in Requests, e \in Emails : Welcoming(r, e) => ~Quiet(e)
    BY DEF Welcoming, At, Quiet, Transactions
  <2> QED
    BY <1>2, <2>1 DEF WelcomeInv, Alone, SignUpsAloneAreWelcomed
<1> QED
  BY <1>1, <1>2, PTL

-----------------------------------------------------------------------------
(* Access to the beta: a link opens one session, no session a disable had   *)
(* found signs anybody in, and only enable, or a handler that had read the  *)
(* lead before, readmits a disabled lead.                                    *)

AccessStatuses == {"WAITLISTED", "INVITED", "ACTIVE", "DISABLED"}
Doings ==
  {"invite", "disable", "disabling", "enable", "login", "clerk", "logout", "leaving", "redeem"}
Request == [does : Doings, token : Tokens \cup {"none"}, saw : AccessStatuses, when : Nat,
            live : SUBSET Cookies]

AccessTypes ==
  /\ access \in AccessStatuses
  /\ token \in [Tokens -> {"none", "fresh", "used", "expired"}]
  /\ session \in [Cookies -> {"none", "valid", "revoked", "expired"}]
  /\ handler \in [Handlers -> Request \cup {NoRequest}]
  /\ via \in [Cookies -> Tokens \cup {"none", "clerk"}]
  /\ old \in SUBSET Cookies
  /\ disables \in Nat
  /\ shared \in SUBSET Tokens

Redeems(h, t) == handler[h].does = "redeem" /\ handler[h].token = t

\* A link that opened a session is used up.
LinksAreSpent == \A s \in Cookies : via[s] \in Tokens => token[via[s]] = "used"

\* A link that no two requests share is redeemed by one of them at most, which
\* finds that it has opened no session yet; so it opens one at most.
LinksAreTheirs ==
  \A t \in Tokens \ shared :
    /\ \A g, h \in Handlers : Redeems(g, t) /\ Redeems(h, t) => g = h
    /\ \A h \in Handlers, s \in Cookies : Redeems(h, t) => via[s] # t
    /\ \A r, s \in Cookies : via[r] = t /\ via[s] = t => r = s

\* Sessions a disable had found have been revoked or have expired.
OldAreOver == \A s \in old : session[s] \in {"revoked", "expired"}

\* What a handler knows of the lead: a sign-in by link has its link, an invite and a sign-in were begun while it
\* was not disabled, and a handler that saw it so read it before the disable.
ReadsAreDated ==
  \A h \in Handlers : handler[h].does # "nothing" =>
    /\ handler[h].when <= disables
    /\ handler[h].does = "redeem" => handler[h].token \in Tokens
    /\ handler[h].does \in {"invite", "login", "clerk", "redeem"} => handler[h].saw # "DISABLED"
    /\ access = "DISABLED" /\ handler[h].saw # "DISABLED" => handler[h].when < disables

AccessInv == AccessTypes /\ LinksAreSpent /\ LinksAreTheirs /\ OldAreOver /\ ReadsAreDated

-----------------------------------------------------------------------------
\* What a handler under way has read.
LEMMA RequestFields ==
  ASSUME AccessTypes, NEW h \in Handlers, handler[h].does # "nothing"
  PROVE  /\ handler[h] \in Request
         /\ handler[h].does \in Doings /\ handler[h].token \in Tokens \cup {"none"}
         /\ handler[h].saw \in AccessStatuses /\ handler[h].when \in Nat
         /\ handler[h].live \in SUBSET Cookies
<1>1. handler[h] # NoRequest
  BY DEF NoRequest
<1>2. handler[h] \in Request
  BY <1>1 DEF AccessTypes
<1> QED
  BY <1>2 DEF Request

\* A request that begins; nobody else's changes.
LEMMA ReadBegins ==
  ASSUME AccessTypes, NEW h \in Handlers, NEW does \in Doings, NEW t \in Tokens \cup {"none"},
         Read(h, does, t)
  PROVE  /\ handler' \in [Handlers -> Request \cup {NoRequest}]
         /\ handler'[h] = [does |-> does, token |-> t, saw |-> access, when |-> disables, live |-> {}]
         /\ \A g \in Handlers \ {h} : handler'[g] = handler[g]
         /\ UNCHANGED <<access, linked, token, session, via, old, disables>>
<1> DEFINE q == [does |-> does, token |-> t, saw |-> access, when |-> disables, live |-> {}]
<1>1. q \in Request
  BY DEF AccessTypes, Request
<1>2. handler' = [handler EXCEPT ![h] = q]
  BY DEF Read
<1> HIDE DEF q
<1>3. handler' \in [Handlers -> Request \cup {NoRequest}] /\ handler'[h] = q
      /\ \A g \in Handlers \ {h} : handler'[g] = handler[g]
  BY <1>1, <1>2 DEF AccessTypes
<1> QED
  BY <1>3 DEF Read, q

\* A request that ends.
LEMMA CommitEnds ==
  ASSUME AccessTypes, NEW h \in Handlers, NEW does, Commits(h, does)
  PROVE  /\ handler[h].does = does
         /\ handler' \in [Handlers -> Request \cup {NoRequest}]
         /\ handler'[h] = NoRequest
         /\ \A g \in Handlers \ {h} : handler'[g] = handler[g]
BY DEF AccessTypes, Commits

\* A column written only if it changes is still one of the statuses.
LEMMA WriteStays ==
  ASSUME AccessTypes, NEW h \in Handlers, NEW status \in AccessStatuses, Write(h, status)
  PROVE  access' \in {access, status} /\ access' \in AccessStatuses
BY DEF AccessTypes, Write

\* Steps that begin a request.
LEMMA ReadStep ==
  ASSUME AccessInv, NEW h \in Handlers, NEW does \in Doings, NEW t \in Tokens \cup {"none"},
         Read(h, does, t), handler[h] = NoRequest,
         shared' \in SUBSET Tokens, shared \subseteq shared',
         does \in {"invite", "login", "clerk", "redeem"} => access # "DISABLED",
         does = "redeem" => t \in Tokens,
         does = "redeem" /\ t \in Tokens \ shared' =>
           token[t] = "fresh" /\ \A g \in Handlers : ~Redeems(g, t)
  PROVE  AccessInv'
<1> DEFINE q == [does |-> does, token |-> t, saw |-> access, when |-> disables, live |-> {}]
<1>1. AccessTypes
  BY DEF AccessInv
<1>2. /\ handler' \in [Handlers -> Request \cup {NoRequest}]
      /\ handler'[h] = q
      /\ \A g \in Handlers \ {h} : handler'[g] = handler[g]
      /\ UNCHANGED <<access, linked, token, session, via, old, disables>>
  BY <1>1, ReadBegins
<1>3. AccessTypes'
  BY <1>1, <1>2 DEF AccessTypes
<1>4. LinksAreSpent' /\ OldAreOver'
  BY <1>2 DEF AccessInv, LinksAreSpent, OldAreOver
<1>5. \A g \in Handlers, u \in Tokens : Redeems(g, u)' =>
        Redeems(g, u) \/ (g = h /\ does = "redeem" /\ u = t)
  BY <1>2 DEF Redeems
<1>6. LinksAreTheirs'
  <2> SUFFICES ASSUME NEW u \in Tokens \ shared'
               PROVE  /\ \A f, g \in Handlers : Redeems(f, u)' /\ Redeems(g, u)' => f = g
                      /\ \A g \in Handlers, s \in Cookies : Redeems(g, u)' => via'[s] # u
                      /\ \A r, s \in Cookies : via'[r] = u /\ via'[s] = u => r = s
    BY DEF LinksAreTheirs, Redeems
  <2>1. /\ u \notin shared
        /\ \A f, g \in Handlers : Redeems(f, u) /\ Redeems(g, u) => f = g
        /\ \A g \in Handlers, s \in Cookies : Redeems(g, u) => via[s] # u
        /\ \A r, s \in Cookies : via[r] = u /\ via[s] = u => r = s
    BY DEF AccessInv, LinksAreTheirs
  <2>2. \A f, g \in Handlers : Redeems(f, u)' /\ Redeems(g, u)' => f = g
    BY <1>5, <2>1
  <2>3. ASSUME NEW g \in Handlers, NEW s \in Cookies, Redeems(g, u)' PROVE via'[s] # u
    <3>1. token[u] = "fresh" => via[s] # u
      BY DEF AccessInv, LinksAreSpent
    <3> QED
      BY <1>2, <1>5, <2>1, <2>3, <3>1
  <2> QED
    BY <1>2, <2>1, <2>2, <2>3
<1>7. ReadsAreDated'
  <2> SUFFICES ASSUME NEW g \in Handlers, handler'[g].does # "nothing"
               PROVE  /\ handler'[g].when <= disables'
                      /\ handler'[g].does = "redeem" => handler'[g].token \in Tokens
                      /\ handler'[g].does \in {"invite", "login", "clerk", "redeem"} =>
                           handler'[g].saw # "DISABLED"
                      /\ access' = "DISABLED" /\ handler'[g].saw # "DISABLED" =>
                           handler'[g].when < disables'
    BY DEF ReadsAreDated
  <2>1. CASE g = h
    BY <1>1, <1>2, <2>1 DEF AccessTypes
  <2>2. CASE g # h
    BY <1>2, <2>2 DEF AccessInv, ReadsAreDated
  <2> QED
    BY <2>1, <2>2
<1> QED
  BY <1>3, <1>4, <1>6, <1>7 DEF AccessInv

\* Steps that end requests, or none, and neither open a session nor shut the
\* lead out.
LEMMA QuietStep ==
  ASSUME AccessInv, AccessTypes', UNCHANGED <<via, old, disables, shared>>,
         \A g \in Handlers : handler'[g] \in {handler[g], NoRequest},
         \A t \in Tokens : token[t] = "used" => token'[t] = "used",
         \A s \in Cookies : session[s] \in {"revoked", "expired"} => session'[s] \in {"revoked", "expired"},
         access' = "DISABLED" => access = "DISABLED"
  PROVE  AccessInv'
<1>1. LinksAreSpent' /\ OldAreOver'
  BY DEF AccessInv, AccessTypes, LinksAreSpent, OldAreOver
<1>2. \A g \in Handlers, t \in Tokens : Redeems(g, t)' => Redeems(g, t)
  BY DEF Redeems, NoRequest
<1>3. LinksAreTheirs'
  <2>1. \A t \in Tokens \ shared' :
          /\ \A g, h \in Handlers : Redeems(g, t)' /\ Redeems(h, t)' => g = h
          /\ \A h \in Handlers, s \in Cookies : Redeems(h, t)' => via'[s] # t
          /\ \A r, s \in Cookies : via'[r] = t /\ via'[s] = t => r = s
    BY <1>2 DEF AccessInv, LinksAreTheirs
  <2> QED
    BY <2>1 DEF LinksAreTheirs, Redeems
<1>4. ReadsAreDated'
  BY DEF AccessInv, ReadsAreDated, NoRequest
<1> QED
  BY <1>1, <1>3, <1>4 DEF AccessInv

\* The admin shuts the lead out: whoever is under way read it before that.
LEMMA DisableStep ==
  ASSUME AccessInv, NEW h \in Handlers, Disable(h)
  PROVE  AccessInv'
<1>1. AccessTypes
  BY DEF AccessInv
<1>2. /\ handler' \in [Handlers -> Request \cup {NoRequest}]
      /\ handler'[h] = NoRequest
      /\ \A g \in Handlers \ {h} : handler'[g] = handler[g]
  BY <1>1, CommitEnds DEF Disable
<1>3. access' \in AccessStatuses
  BY <1>1, WriteStays DEF Disable, AccessStatuses
<1>4. AccessTypes'
  <2>1. handler[h].live \in SUBSET Cookies
    BY <1>1, RequestFields DEF Disable, Commits
  <2> QED
    BY <1>1, <1>2, <1>3, <2>1 DEF AccessTypes, Disable, RevokeFound
<1>5. LinksAreSpent'
  BY DEF AccessInv, LinksAreSpent, Disable
<1>6. \A g \in Handlers, t \in Tokens : Redeems(g, t)' => Redeems(g, t)
  BY <1>2 DEF Redeems, NoRequest
<1>7. LinksAreTheirs'
  <2>1. via' = via /\ shared' = shared
    BY DEF Disable
  <2>2. \A t \in Tokens \ shared' :
          /\ \A f, g \in Handlers : Redeems(f, t)' /\ Redeems(g, t)' => f = g
          /\ \A g \in Handlers, s \in Cookies : Redeems(g, t)' => via'[s] # t
          /\ \A r, s \in Cookies : via'[r] = t /\ via'[s] = t => r = s
    BY <1>6, <2>1 DEF AccessInv, LinksAreTheirs
  <2> QED
    BY <2>2 DEF LinksAreTheirs, Redeems
<1>8. OldAreOver'
  <2>1. handler[h].live \in SUBSET Cookies
    BY <1>1, RequestFields DEF Disable, Commits
  <2> QED
    BY <1>1, <2>1 DEF AccessInv, AccessTypes, OldAreOver, Disable, RevokeFound
<1>9. ReadsAreDated'
  <2>1. disables' = disables + 1
    BY DEF Disable
  <2>2. \A g \in Handlers : handler'[g].does # "nothing" =>
          handler[g].when \in Nat /\ handler'[g] = handler[g]
    BY <1>1, <1>2, RequestFields DEF NoRequest
  <2> QED
    BY <1>1, <2>1, <2>2 DEF AccessInv, AccessTypes, ReadsAreDated
<1> QED
  BY <1>4, <1>5, <1>7, <1>8, <1>9 DEF AccessInv

\* A request that goes on to its next step is one.
LEMMA FoundFields ==
  ASSUME NEW r \in Request, NEW does \in Doings, NEW live \in SUBSET Cookies
  PROVE  \E q \in Request : /\ q = [r EXCEPT !.does = does, !.live = live]
                            /\ q.does = does /\ q.saw = r.saw /\ q.when = r.when
<1> DEFINE q == [r EXCEPT !.does = does, !.live = live]
<1>1. q \in Request /\ q.does = does /\ q.saw = r.saw /\ q.when = r.when
  BY DEF Request
<1> QED
  BY <1>1

\* A request finds the sessions it will revoke.
LEMMA FindStep ==
  ASSUME AccessInv, NEW h \in Handlers, NEW does \in {"disable", "logout"},
         NEW found \in {"disabling", "leaving"}, FindSessions(h, does, found)
  PROVE  AccessInv'
<1>1. AccessTypes /\ handler[h].does = does /\ handler[h].does # "nothing"
  BY DEF AccessInv, FindSessions
<1>2. PICK r \in Request : r = handler[h]
  BY <1>1, RequestFields
<1>3. PICK live \in SUBSET Cookies :
        live = {s \in Cookies : session[s] \in {"valid", "expired"}}
  OBVIOUS
<1>4. PICK q \in Request :
        /\ q = [r EXCEPT !.does = found, !.live = live]
        /\ q.does = found /\ q.saw = r.saw /\ q.when = r.when
  <2>1. found \in Doings
    BY DEF Doings
  <2> QED
    BY <2>1, FoundFields, Zenon
<1>5a. handler' = [handler EXCEPT ![h] = q]
  BY <1>2, <1>3, <1>4 DEF FindSessions
<1>5. /\ handler' \in [Handlers -> Request \cup {NoRequest}]
      /\ handler'[h] = q
      /\ \A g \in Handlers \ {h} : handler'[g] = handler[g]
      /\ UNCHANGED <<access, linked, token, session, via, old, disables, shared>>
  BY <1>1, <1>5a DEF AccessTypes, FindSessions
<1>6. AccessTypes'
  BY <1>1, <1>5 DEF AccessTypes
<1>7. LinksAreSpent' /\ OldAreOver'
  BY <1>5 DEF AccessInv, LinksAreSpent, OldAreOver
<1>8. \A g \in Handlers, t \in Tokens : Redeems(g, t)' => Redeems(g, t)
  BY <1>4, <1>5 DEF Redeems
<1>9. LinksAreTheirs'
  <2>1. \A t \in Tokens \ shared' :
          /\ \A f, g \in Handlers : Redeems(f, t)' /\ Redeems(g, t)' => f = g
          /\ \A g \in Handlers, s \in Cookies : Redeems(g, t)' => via'[s] # t
          /\ \A z, s \in Cookies : via'[z] = t /\ via'[s] = t => z = s
    BY <1>5, <1>8 DEF AccessInv, LinksAreTheirs
  <2> QED
    BY <2>1 DEF LinksAreTheirs, Redeems
<1>10. ReadsAreDated'
  <2>1. ReadsAreDated /\ handler[h].saw = q.saw /\ handler[h].when = q.when /\ q.does # "redeem"
    BY <1>2, <1>4 DEF AccessInv
  <2> SUFFICES ASSUME NEW g \in Handlers, handler'[g].does # "nothing"
               PROVE  /\ handler'[g].when <= disables'
                      /\ handler'[g].does = "redeem" => handler'[g].token \in Tokens
                      /\ handler'[g].does \in {"invite", "login", "clerk", "redeem"} =>
                           handler'[g].saw # "DISABLED"
                      /\ access' = "DISABLED" /\ handler'[g].saw # "DISABLED" =>
                           handler'[g].when < disables'
    BY DEF ReadsAreDated
  <2>2. CASE g = h
    BY <1>1, <1>4, <1>5, <2>1, <2>2 DEF ReadsAreDated
  <2>3. CASE g # h
    BY <1>5, <2>1, <2>3 DEF ReadsAreDated
  <2> QED
    BY <2>2, <2>3
<1> QED
  BY <1>6, <1>7, <1>9, <1>10 DEF AccessInv

\* A session is opened by a request that ends: by a link that is used up and
\* that nobody else redeems, or by Clerk.
LEMMA SignInStep ==
  ASSUME AccessInv, AccessTypes', NEW h \in Handlers, NEW s \in Cookies,
         NEW origin \in Tokens \cup {"clerk"},
         CreateSession(s, origin), UNCHANGED <<old, disables, shared>>,
         handler'[h] = NoRequest, \A g \in Handlers \ {h} : handler'[g] = handler[g],
         origin \in Tokens => Redeems(h, origin) /\ token'[origin] = "used",
         \A t \in Tokens : token[t] = "used" => token'[t] = "used",
         access' = "DISABLED" => access = "DISABLED"
  PROVE  AccessInv'
<1>1. AccessTypes
  BY DEF AccessInv
<1>2. /\ session[s] = "none"
      /\ via'[s] = origin /\ \A r \in Cookies \ {s} : via'[r] = via[r]
      /\ \A r \in Cookies \ {s} : session'[r] = session[r]
  BY <1>1 DEF CreateSession, AccessTypes
<1>3. LinksAreSpent'
  BY <1>1, <1>2 DEF AccessInv, AccessTypes, LinksAreSpent
<1>4. OldAreOver'
  BY <1>1, <1>2 DEF AccessInv, AccessTypes, OldAreOver
<1>5. \A g \in Handlers, t \in Tokens : Redeems(g, t)' => Redeems(g, t) /\ g # h
  BY DEF Redeems, NoRequest
<1>6. LinksAreTheirs'
  <2> SUFFICES ASSUME NEW t \in Tokens \ shared'
               PROVE  /\ \A f, g \in Handlers : Redeems(f, t)' /\ Redeems(g, t)' => f = g
                      /\ \A g \in Handlers, r \in Cookies : Redeems(g, t)' => via'[r] # t
                      /\ \A q, r \in Cookies : via'[q] = t /\ via'[r] = t => q = r
    BY DEF LinksAreTheirs, Redeems
  <2>1. /\ \A f, g \in Handlers : Redeems(f, t) /\ Redeems(g, t) => f = g
        /\ \A g \in Handlers, r \in Cookies : Redeems(g, t) => via[r] # t
        /\ \A q, r \in Cookies : via[q] = t /\ via[r] = t => q = r
    BY DEF AccessInv, LinksAreTheirs
  <2>2. CASE origin = t
    BY <1>2, <1>5, <2>1, <2>2
  <2>3. CASE origin # t
    BY <1>2, <1>5, <2>1, <2>3
  <2> QED
    BY <2>2, <2>3
<1>7. ReadsAreDated'
  BY <1>1, <1>5 DEF AccessInv, ReadsAreDated, NoRequest
<1> QED
  BY <1>3, <1>4, <1>6, <1>7 DEF AccessInv

-----------------------------------------------------------------------------
\* Where each handler that writes access_status may leave it.
LEMMA InviteWrites ==
  ASSUME AccessInv, NEW h \in Handlers, NEW t \in Tokens, Invite(h, t)
  PROVE  /\ AccessTypes' /\ (access' = "DISABLED" => access = "DISABLED")
         /\ access = "DISABLED" => handler[h].when < disables
<1>1. AccessTypes /\ ReadsAreDated
  BY DEF AccessInv
<1>2. /\ handler[h].does = "invite"
      /\ handler' \in [Handlers -> Request \cup {NoRequest}]
  BY <1>1, CommitEnds DEF Invite
<1>3. access' \in {access, "INVITED"} /\ access' \in AccessStatuses
  BY <1>1, WriteStays DEF Invite, AccessStatuses
<1>4. AccessTypes'
  BY <1>1, <1>2, <1>3 DEF AccessTypes, Invite, CreateToken
<1> QED
  BY <1>1, <1>2, <1>3, <1>4 DEF ReadsAreDated

LEMMA EnableWrites ==
  ASSUME AccessInv, NEW h \in Handlers, Enable(h)
  PROVE  AccessTypes' /\ (access' = "DISABLED" => access = "DISABLED")
<1>1. AccessTypes /\ ReadsAreDated
  BY DEF AccessInv
<1>2. /\ handler[h].does = "enable"
      /\ handler' \in [Handlers -> Request \cup {NoRequest}]
  BY <1>1, CommitEnds DEF Enable
<1>3. handler[h].saw \in AccessStatuses
  BY <1>1, <1>2, RequestFields
<1>4. access' \in AccessStatuses /\ (access' = "DISABLED" => access = "DISABLED")
  BY <1>1, <1>3 DEF Enable, Write, AccessTypes, AccessStatuses
<1>5. AccessTypes'
  BY <1>1, <1>2, <1>4 DEF AccessTypes, Enable
<1> QED
  BY <1>4, <1>5

LEMMA RedeemWrites ==
  ASSUME AccessInv, NEW h \in Handlers, NEW s \in Cookies, Redeem(h, s)
  PROVE  /\ AccessTypes' /\ (access' = "DISABLED" => access = "DISABLED")
         /\ access = "DISABLED" => handler[h].when < disables
         /\ Redeems(h, handler[h].token) /\ handler[h].token \in Tokens
<1>1. AccessTypes /\ ReadsAreDated
  BY DEF AccessInv
<1>2. /\ handler[h].does = "redeem"
      /\ handler' \in [Handlers -> Request \cup {NoRequest}]
  BY <1>1, CommitEnds DEF Redeem
<1>3. handler[h].saw \in AccessStatuses /\ handler[h].saw # "DISABLED"
      /\ handler[h].token \in Tokens
  BY <1>1, <1>2, RequestFields DEF ReadsAreDated
<1>4. access' \in AccessStatuses /\ (access' = "DISABLED" => access = "DISABLED")
  BY <1>1, <1>3 DEF Redeem, Write, AccessTypes, AccessStatuses
<1>5. /\ token' \in [Tokens -> {"none", "fresh", "used", "expired"}]
      /\ session' \in [Cookies -> {"none", "valid", "revoked", "expired"}]
      /\ via' \in [Cookies -> Tokens \cup {"none", "clerk"}]
  BY <1>1, <1>3 DEF AccessTypes, Redeem, CreateSession
<1>6. AccessTypes'
  BY <1>1, <1>2, <1>4, <1>5 DEF AccessTypes, Redeem
<1> QED
  BY <1>1, <1>2, <1>3, <1>4, <1>6 DEF ReadsAreDated, Redeems

-----------------------------------------------------------------------------
LEMMA AccessInitial == AccessInit => AccessInv
<1> SUFFICES ASSUME AccessInit PROVE AccessInv
  OBVIOUS
<1>1. AccessTypes
  BY DEF AccessInit, AccessTypes, AccessStatuses
<1>2. \A h \in Handlers : handler[h].does = "nothing"
  BY DEF AccessInit, NoRequest
<1>3. \A s \in Cookies : via[s] \notin Tokens
  BY AccessAssumption DEF AccessInit
<1>4. LinksAreSpent /\ LinksAreTheirs /\ OldAreOver /\ ReadsAreDated
  BY <1>2, <1>3 DEF AccessInit, LinksAreSpent, LinksAreTheirs, OldAreOver, ReadsAreDated, Redeems
<1> QED
  BY <1>1, <1>4 DEF AccessInv

LEMMA AccessStep == AccessInv /\ [AccessNext]_accessVars => AccessInv'
<1> SUFFICES ASSUME AccessInv, [AccessNext]_accessVars PROVE AccessInv'
  OBVIOUS
<1>0. AccessTypes
  BY DEF AccessInv
<1>1. CASE ClerkEvent
  <2>1. AccessTypes'
    BY <1>0, <1>1 DEF ClerkEvent, AccessTypes
  <2> QED
    BY <1>1, <2>1, QuietStep DEF ClerkEvent
<1>2. CASE Expire
  <2>1. AccessTypes'
    BY <1>0, <1>2 DEF Expire, AccessTypes
  <2>2. \A t \in Tokens : token[t] = "used" => token'[t] = "used"
    BY <1>0, <1>2 DEF Expire, AccessTypes
  <2>3. \A s \in Cookies : session[s] \in {"revoked", "expired"} => session'[s] \in {"revoked", "expired"}
    BY <1>0, <1>2 DEF Expire, AccessTypes
  <2> QED
    BY <1>2, <2>1, <2>2, <2>3, QuietStep DEF Expire
<1>3. ASSUME NEW h \in Handlers,
             ReadInvite(h) \/ ReadDisable(h) \/ ReadEnable(h) \/ ReadLogin(h) \/ ReadClerk(h) \/ ReadLogout(h)
      PROVE  AccessInv'
  <2>1. shared' = shared /\ shared \in SUBSET Tokens
    BY <1>0, <1>3 DEF AccessTypes, ReadInvite, ReadDisable, ReadEnable, ReadLogin, ReadClerk, ReadLogout
  <2>2. PICK does \in Doings :
          /\ Read(h, does, "none") /\ does # "redeem"
          /\ does \in {"invite", "login", "clerk", "redeem"} => access # "DISABLED"
    BY <1>3 DEF Doings, ReadInvite, ReadDisable, ReadEnable, ReadLogin, ReadClerk, ReadLogout
  <2>3. handler[h] = NoRequest
    BY <2>2 DEF Read
  <2> QED
    BY <2>1, <2>2, <2>3, ReadStep
<1>4. ASSUME NEW h \in Handlers, NEW t \in Tokens, ReadToken(h, t)
      PROVE  AccessInv'
  <2>1. Read(h, "redeem", t) /\ handler[h] = NoRequest /\ access # "DISABLED"
    BY <1>4 DEF ReadToken, Read
  <2>2. shared' \in SUBSET Tokens /\ shared \subseteq shared'
    BY <1>0, <1>4 DEF ReadToken, AccessTypes
  <2>3. t \in Tokens \ shared' => token[t] = "fresh" /\ \A g \in Handlers : ~Redeems(g, t)
    BY <1>4 DEF ReadToken, Redeems
  <2>4. "redeem" \in Doings
    BY DEF Doings
  <2> QED
    BY <2>1, <2>2, <2>3, <2>4, ReadStep
<1>5. ASSUME NEW h \in Handlers, Disable(h) PROVE AccessInv'
  BY <1>5, DisableStep
<1>6. ASSUME NEW h \in Handlers, Enable(h) PROVE AccessInv'
  <2>1. \A g \in Handlers : handler'[g] \in {handler[g], NoRequest}
    BY <1>0, <1>6, CommitEnds DEF Enable
  <2> QED
    BY <1>6, <2>1, EnableWrites, QuietStep DEF Enable
<1>7. ASSUME NEW h \in Handlers, Logout(h) PROVE AccessInv'
  <2>1. /\ \A g \in Handlers : handler'[g] \in {handler[g], NoRequest}
        /\ handler' \in [Handlers -> Request \cup {NoRequest}]
    BY <1>0, <1>7, CommitEnds DEF Logout
  <2>2. AccessTypes'
    BY <1>0, <1>7, <2>1 DEF AccessTypes, Logout, RevokeFound
  <2>3. \A s \in Cookies : session[s] \in {"revoked", "expired"} => session'[s] \in {"revoked", "expired"}
    BY <1>0, <1>7 DEF AccessTypes, Logout, RevokeFound
  <2> QED
    BY <1>7, <2>1, <2>2, <2>3, QuietStep DEF Logout
<1>8. ASSUME NEW h \in Handlers, NEW t \in Tokens, Invite(h, t) PROVE AccessInv'
  <2>1. \A g \in Handlers : handler'[g] \in {handler[g], NoRequest}
    BY <1>0, <1>8, CommitEnds DEF Invite
  <2>2. \A u \in Tokens : token[u] = "used" => token'[u] = "used"
    BY <1>0, <1>8 DEF Invite, CreateToken, AccessTypes
  <2> QED
    BY <1>8, <2>1, <2>2, InviteWrites, QuietStep DEF Invite
<1>9. ASSUME NEW h \in Handlers, NEW t \in Tokens, RequestLogin(h, t) PROVE AccessInv'
  <2>1. /\ \A g \in Handlers : handler'[g] \in {handler[g], NoRequest}
        /\ handler' \in [Handlers -> Request \cup {NoRequest}]
    BY <1>0, <1>9, CommitEnds DEF RequestLogin
  <2>2. \A u \in Tokens : token[u] = "used" => token'[u] = "used"
    BY <1>0, <1>9 DEF RequestLogin, CreateToken, AccessTypes
  <2>3. AccessTypes'
    BY <1>0, <1>9, <2>1 DEF AccessTypes, RequestLogin, CreateToken
  <2> QED
    BY <1>9, <2>1, <2>2, <2>3, QuietStep DEF RequestLogin
<1>10. ASSUME NEW h \in Handlers, NEW s \in Cookies, Redeem(h, s) PROVE AccessInv'
  <2> DEFINE t == handler[h].token
  <2>1. /\ AccessTypes' /\ (access' = "DISABLED" => access = "DISABLED")
        /\ Redeems(h, t) /\ t \in Tokens
    BY <1>10, RedeemWrites
  <2>2. handler'[h] = NoRequest /\ \A g \in Handlers \ {h} : handler'[g] = handler[g]
    BY <1>0, <1>10, CommitEnds DEF Redeem
  <2>3. token'[t] = "used" /\ \A u \in Tokens : token[u] = "used" => token'[u] = "used"
    BY <1>0, <1>10, <2>1 DEF Redeem, AccessTypes
  <2>4. CreateSession(s, t) /\ UNCHANGED <<old, disables, shared>>
    BY <1>10 DEF Redeem
  <2> HIDE DEF t
  <2> QED
    BY <2>1, <2>2, <2>3, <2>4, SignInStep
<1>11. ASSUME NEW h \in Handlers, NEW s \in Cookies, ClerkSession(h, s) PROVE AccessInv'
  <2>1. /\ handler'[h] = NoRequest /\ \A g \in Handlers \ {h} : handler'[g] = handler[g]
        /\ handler' \in [Handlers -> Request \cup {NoRequest}]
    BY <1>0, <1>11, CommitEnds DEF ClerkSession
  <2>2. AccessTypes'
    BY <1>0, <1>11, <2>1 DEF AccessTypes, ClerkSession, CreateSession
  <2>3. "clerk" \notin Tokens
    BY AccessAssumption
  <2>4. CreateSession(s, "clerk") /\ UNCHANGED <<access, token, old, disables, shared>>
    BY <1>11 DEF ClerkSession
  <2> QED
    BY <2>1, <2>2, <2>3, <2>4, SignInStep
<1>13. ASSUME NEW h \in Handlers,
              FindSessions(h, "disable", "disabling") \/ FindSessions(h, "logout", "leaving")
       PROVE  AccessInv'
  <2>1. PICK does \in {"disable", "logout"}, found \in {"disabling", "leaving"} : FindSessions(h, does, found)
    BY <1>13
  <2> QED
    BY <2>1, FindStep
<1>12. CASE UNCHANGED accessVars
  BY <1>12 DEF accessVars, AccessInv, AccessTypes, LinksAreSpent, LinksAreTheirs, OldAreOver,
               ReadsAreDated, Redeems
<1> QED
  BY <1>1, <1>2, <1>3, <1>4, <1>5, <1>6, <1>7, <1>8, <1>9, <1>10, <1>11, <1>12, <1>13 DEF AccessNext

\* The invariant the two others rest on: reachable states are typed, links that
\* opened a session are used, and what handlers have read is dated.
THEOREM AccessInvariant == AccessSpec => []AccessInv
BY AccessInitial, AccessStep, PTL DEF AccessSpec

-----------------------------------------------------------------------------
\* Two elements of the set would be the same.
LEMMA OneSession ==
  ASSUME AccessInv PROVE SingleUse
<1> SUFFICES ASSUME NEW t \in Tokens \ shared
             PROVE  Cardinality({s \in Cookies : via[s] = t}) <= 1
  BY DEF SingleUse
<1> DEFINE opened == {s \in Cookies : via[s] = t}
<1>1. \A r, s \in opened : r = s
  BY DEF AccessInv, LinksAreTheirs
<1>2. CASE opened = {}
  BY <1>2, FS_EmptySet
<1>3. CASE opened # {}
  <2>1. PICK s : s \in opened
    BY <1>3
  <2>2. opened = {s}
    BY <1>1, <2>1
  <2> HIDE DEF opened
  <2>3. Cardinality(opened) = 1
    BY <2>2, FS_Singleton
  <2> QED
    BY <2>3 DEF opened
<1> QED
  BY <1>2, <1>3

\* A step that readmits the lead is an enable, or was begun before the disable.
LEMMA Readmission ==
  ASSUME AccessInv, AccessNext, access = "DISABLED", access' # "DISABLED"
  PROVE  \E h \in Handlers : /\ handler[h].does # "nothing" /\ handler'[h] = NoRequest
                             /\ handler[h].does = "enable" \/ handler[h].when < disables
<1>0. AccessTypes
  BY DEF AccessInv
<1>1. \A h \in Handlers, does \in Doings : Commits(h, does) =>
        handler[h].does # "nothing" /\ handler[h].does = does /\ handler'[h] = NoRequest
  BY <1>0, CommitEnds DEF Doings
<1>2. \A h \in Handlers : ~Disable(h)
  BY DEF Disable, Write
<1>3. ASSUME NEW h \in Handlers, Enable(h)
      PROVE  handler[h].does = "enable" /\ handler'[h] = NoRequest
  BY <1>1, <1>3 DEF Enable, Doings
<1>4. ASSUME NEW h \in Handlers, NEW t \in Tokens, Invite(h, t)
      PROVE  handler[h].does # "nothing" /\ handler'[h] = NoRequest /\ handler[h].when < disables
  BY <1>1, <1>4, InviteWrites DEF Invite, Doings
<1>5. ASSUME NEW h \in Handlers, NEW s \in Cookies, Redeem(h, s)
      PROVE  handler[h].does # "nothing" /\ handler'[h] = NoRequest /\ handler[h].when < disables
  BY <1>1, <1>5, RedeemWrites DEF Redeem, Doings
<1>6. ASSUME NEW h \in Handlers, NEW does, NEW found, FindSessions(h, does, found)
      PROVE  FALSE
  BY <1>6 DEF FindSessions
<1> QED
  BY <1>2, <1>3, <1>4, <1>5, <1>6
     DEF AccessNext, ClerkEvent, Expire, ReadInvite, ReadDisable, ReadEnable, ReadLogin, ReadClerk,
         ReadLogout, ReadToken, Read, Logout, RequestLogin, ClerkSession

\* A link and a cookie give what they were issued for: the second of two clicks
\* on a link opens nothing, the sessions a disable had found stay dead,
\* and only enable brings the lead back, whatever else is under way
\* (services/auth.py, and the access endpoints of main.py).
THEOREM AccessHolds == AccessSpec => AccessIsGranted
<1>1. AccessInv => SingleUse
  BY OneSession
<1>2. AccessInv => OldSessionsStayOut
  BY DEF AccessInv, OldAreOver, OldSessionsStayOut, SignedIn
<1>3. AccessInv /\ [AccessNext]_accessVars => [ByEnable]_accessVars
  BY Readmission DEF ByEnable
<1> QED
  BY <1>1, <1>2, <1>3, AccessInvariant, PTL DEF AccessSpec, AccessIsGranted, OnlyEnableReadmits

-----------------------------------------------------------------------------
(* The limiter at the door. *)

LEMMA LeastNumber ==
  ASSUME NEW S \in SUBSET Nat, S # {}
  PROVE  \E x \in S : \A y \in S : x <= y
<1> DEFINE R == OpToRel(<, Nat)
<1>1. IsWellFoundedOn(R, Nat)
  BY NatLessThanWellFounded
<1>2. \A x, y \in Nat : <<y, x>> \in R <=> y < x
  BY DEF OpToRel
<1> HIDE DEF R
<1>3. PICK x \in S : \A y \in S : ~(<<y, x>> \in R)
  BY <1>1, WFMin, Zenon
<1>4. ASSUME NEW y \in S PROVE x <= y
  <2>1. x \in Nat /\ y \in Nat /\ ~(<<y, x>> \in R)
    BY <1>3
  <2> QED
    BY <2>1, <1>2
<1> QED
  BY <1>4

Trims == {"measure", "trim_sweep", "trim_clean", "trim", "evict"}
PastGet == {"check", "append"} \cup Trims
Holding == {"move"} \cup PastGet
CallSteps == {"idle", "sweep", "clean", "get", "insert"} \cup Holding
Call == [at : CallSteps, key : Clients \cup {0}, now : Nat, bucket : Nat,
         left : SUBSET Clients, stale : SUBSET Clients]

LEMMA StepsApart ==
  /\ Trims \subseteq PastGet /\ PastGet \subseteq Holding /\ Holding \subseteq CallSteps
  /\ "idle" \notin Holding /\ "insert" \notin Holding /\ "append" \notin Trims /\ "check" \notin Trims
  /\ "append" \in PastGet /\ "check" \in PastGet /\ "move" \notin PastGet /\ "move" \in Holding
  /\ "idle" \in CallSteps /\ "insert" \in CallSteps
  BY DEF CallSteps, Holding, PastGet, Trims

LEMMA RateNumbers ==
  /\ HitLimit \in Nat \ {0} /\ WindowLen \in Nat \ {0} /\ MaxKeys \in Nat
  /\ IsFiniteSet(Threads) /\ IsFiniteSet(Clients)
  BY RateAssumption

LEMMA AtMost == \A x, y, z \in Nat : x <= y /\ y <= z => x <= z
  OBVIOUS

RateTypes ==
  /\ clock \in Nat /\ hits \in Seq(Seq(Nat))
  /\ bucketOf \in [Clients -> 0..Len(hits)]
  /\ thread \in [Threads -> Call]
  /\ accepted \in [Clients -> Seq(Nat)]
  /\ untrimmed \in SUBSET (1..Len(hits))
  /\ \A t \in Threads : /\ thread[t].at # "idle" => thread[t].key \in Clients /\ thread[t].now <= clock
                        /\ thread[t].at \in Holding => thread[t].bucket \in 1..Len(hits)

\* A bucket is of one client.
BucketsApart ==
  /\ \A c, d \in Clients : bucketOf[c] = bucketOf[d] /\ bucketOf[c] # 0 => c = d
  /\ \A t \in Threads, c \in Clients :
       thread[t].at \in Holding /\ bucketOf[c] = thread[t].bucket => thread[t].key = c
  /\ \A t, u \in Threads :
       thread[t].at \in Holding /\ thread[u].at \in Holding /\ thread[t].bucket = thread[u].bucket
         => thread[t].key = thread[u].key

\* Of the buckets there were when the dictionary was last seen within its capacity
\* there are no more than that; a later one with a hit is being trimmed for or has
\* been given up, and one without is about to get a hit.
RoomSince(s) ==
  /\ Cardinality({c \in Tracked : bucketOf[c] <= s}) <= MaxKeys
  /\ \A b \in 1..Len(hits) : b > s /\ hits[b] # <<>> =>
       b \in untrimmed \/ \E t \in Threads : thread[t].at \in Trims /\ thread[t].bucket = b
  /\ \A c \in Tracked : bucketOf[c] > s =>
       \/ hits[bucketOf[c]] # <<>> \/ bucketOf[c] \in untrimmed
       \/ \E t \in Threads : thread[t].at \in PastGet /\ thread[t].bucket = bucketOf[c]

Roomy == \E s \in 0..Len(hits) : RoomSince(s)

CallOf(t, c) == thread[t].at # "idle" /\ thread[t].key = c

\* What is in bucket b are the last accepted calls of c.
IsTail(b, c) ==
  /\ Len(hits[b]) <= Len(accepted[c])
  /\ \A i \in 1..Len(hits[b]) : hits[b][i] = accepted[c][Len(accepted[c]) - Len(hits[b]) + i]

\* A client whose calls did not race.
OneByOne(c) ==
  /\ \A t, u \in Threads : CallOf(t, c) /\ CallOf(u, c) => t = u
  /\ \A i, j \in DOMAIN accepted[c] : i <= j => accepted[c][i] <= accepted[c][j]
  /\ \A i \in DOMAIN accepted[c] : accepted[c][i] <= clock
  /\ bucketOf[c] # 0 => IsTail(bucketOf[c], c)

CallFits(t, c) ==
  LET b == thread[t].bucket IN
  /\ \A i \in DOMAIN accepted[c] : accepted[c][i] <= thread[t].now
  /\ thread[t].at \in Holding => IsTail(b, c) /\ (bucketOf[c] = 0 \/ bucketOf[c] = b)
  /\ thread[t].at = "insert" => bucketOf[c] = 0
  /\ thread[t].at = "append" => Len(hits[b]) < HitLimit
  /\ thread[t].at \in Trims => hits[b] # <<>> /\ hits[b][Len(hits[b])] = thread[t].now

Lost(i, c) == bucketOf[c] = 0 \/ i <= Len(accepted[c]) - Len(hits[bucketOf[c]])

\* Nor was it evicted: what its bucket has lost is expired.
Remembered(c) ==
  /\ \A t \in Threads : CallOf(t, c) /\ thread[t].at \in PastGet => bucketOf[c] = thread[t].bucket
  /\ \A i \in DOMAIN accepted[c] : Lost(i, c) =>
       /\ accepted[c][i] + WindowLen <= clock
       /\ \A t \in Threads : CallOf(t, c) => accepted[c][i] + WindowLen <= thread[t].now
  /\ \A i \in DOMAIN accepted[c] : i + HitLimit \in DOMAIN accepted[c] =>
       accepted[c][i] + WindowLen <= accepted[c][i + HitLimit]

FairTo(c) ==
  /\ c \notin raced => OneByOne(c) /\ \A t \in Threads : CallOf(t, c) => CallFits(t, c)
  /\ c \notin raced \cup evicted => Remembered(c)

RateInv ==
  /\ RateTypes /\ BucketsApart /\ Roomy /\ ~unjust
  /\ \A c \in Clients : FairTo(c)

-----------------------------------------------------------------------------
(* What it promises. *)

LEMMA CapacityKept == RateInv => CapacityHolds
<1> SUFFICES ASSUME RateInv PROVE CapacityHolds
  OBVIOUS
<1> DEFINE busy == {t \in Threads : thread[t].at # "idle"}
           held == {b \in 1..Len(hits) : \E t \in busy : thread[t].bucket = b}
<1>0. RateTypes /\ BucketsApart /\ Len(hits) \in Nat
  BY DEF RateInv, RateTypes
<1>1. PICK s \in 0..Len(hits) : RoomSince(s)
  BY DEF RateInv, Roomy
<1> DEFINE older == {c \in Tracked : bucketOf[c] <= s}
           newer == {c \in Tracked : bucketOf[c] > s}
<1>2. /\ Tracked \in SUBSET Clients /\ older \in SUBSET Clients /\ newer \in SUBSET Clients
      /\ Tracked = older \cup newer
  BY <1>0 DEF Tracked, RateTypes
<1>3. /\ IsFiniteSet(older) /\ IsFiniteSet(newer) /\ IsFiniteSet(Tracked)
      /\ Cardinality(older) \in Nat /\ Cardinality(newer) \in Nat
  BY <1>2, RateNumbers, FS_Subset, FS_CardinalityType
<1>4. Cardinality(Tracked) <= Cardinality(older) + Cardinality(newer)
  <2> HIDE DEF older, newer
  <2>1. Cardinality(older \cup newer) = Cardinality(older) + Cardinality(newer) - Cardinality(older \cap newer)
    BY <1>3, FS_Union
  <2>2. Cardinality(older \cap newer) \in Nat
    BY <1>3, FS_Intersection, FS_CardinalityType
  <2> QED
    BY <1>2, <1>3, <2>1, <2>2
<1>5. /\ IsFiniteSet(busy) /\ Cardinality(busy) \in Nat
  BY RateNumbers, FS_Subset, FS_CardinalityType
<1>6. IsFiniteSet(untrimmed) /\ Cardinality(untrimmed) \in Nat
  <2>1. untrimmed \in SUBSET (1..Len(hits)) /\ IsFiniteSet(1..Len(hits))
    BY <1>0, FS_Interval DEF RateTypes
  <2> QED
    BY <2>1, FS_Subset, FS_CardinalityType
<1>7. IsFiniteSet(held) /\ Cardinality(held) <= Cardinality(busy) /\ Cardinality(held) \in Nat
  <2> DEFINE some == {t \in busy : thread[t].bucket \in 1..Len(hits)}
             f == [t \in some |-> thread[t].bucket]
  <2>1. some \in SUBSET busy
    OBVIOUS
  <2>2. IsFiniteSet(some) /\ Cardinality(some) <= Cardinality(busy)
    BY <1>5, <2>1, FS_Subset
  <2>3. f \in [some -> held] /\ \A b \in held : \E t \in some : f[t] = b
    OBVIOUS
  <2>4. f \in Surjection(some, held)
    <3> HIDE DEF f, some, held
    <3> QED
      BY <2>3 DEF Surjection
  <2> HIDE DEF f, some, held, busy
  <2>5. IsFiniteSet(held) /\ Cardinality(held) <= Cardinality(some)
    BY <2>2, <2>4, FS_Surjection
  <2>6. Cardinality(held) \in Nat /\ Cardinality(some) \in Nat
    BY <2>2, <2>5, FS_CardinalityType
  <2> QED
    BY <1>5, <2>2, <2>5, <2>6
<1>8. \A c \in newer : bucketOf[c] \in held \cup untrimmed
  <2> TAKE c \in newer
  <2>1. bucketOf[c] \in 1..Len(hits) /\ bucketOf[c] > s /\ c \in Tracked
    BY <1>0 DEF Tracked, RateTypes
  <2>2. \/ hits[bucketOf[c]] # <<>> \/ bucketOf[c] \in untrimmed
        \/ \E t \in Threads : thread[t].at \in PastGet /\ thread[t].bucket = bucketOf[c]
    BY <1>1, <2>1 DEF RoomSince
  <2>3. hits[bucketOf[c]] # <<>> => bucketOf[c] \in untrimmed
          \/ \E t \in Threads : thread[t].at \in Trims /\ thread[t].bucket = bucketOf[c]
    BY <1>1, <2>1 DEF RoomSince
  <2>4. \A t \in Threads : thread[t].at \in Trims \cup PastGet => t \in busy
    BY DEF PastGet, Trims
  <2> QED
    BY <2>1, <2>2, <2>3, <2>4
<1>9. Cardinality(newer) <= Cardinality(held \cup untrimmed) /\ IsFiniteSet(held \cup untrimmed)
  <2> DEFINE f == [c \in newer |-> bucketOf[c]]
             U == held \cup untrimmed
  <2>1. IsFiniteSet(U)
    <3> HIDE DEF held
    <3> QED
      BY <1>6, <1>7, FS_Union
  <2>2. f \in [newer -> U] /\ \A c, d \in newer : f[c] = f[d] => c = d
    <3>1. f \in [newer -> U]
      BY <1>8
    <3>2. \A c, d \in newer : bucketOf[c] = bucketOf[d] => c = d
      BY <1>0, <1>2 DEF BucketsApart, Tracked
    <3> QED
      BY <3>1, <3>2
  <2>3. f \in Injection(newer, U)
    <3> HIDE DEF f, U, newer
    <3> QED
      BY <2>2 DEF Injection, IsInjective
  <2> HIDE DEF f, U, newer
  <2>4. Cardinality(newer) <= Cardinality(U)
    BY <2>1, <2>3, FS_Injection
  <2> QED
    BY <2>1, <2>4 DEF U
<1>10. Cardinality(held \cup untrimmed) <= Cardinality(held) + Cardinality(untrimmed)
       /\ Cardinality(held \cup untrimmed) \in Nat
  <2> HIDE DEF held
  <2>1. Cardinality(held \cup untrimmed) = Cardinality(held) + Cardinality(untrimmed) - Cardinality(held \cap untrimmed)
    BY <1>6, <1>7, FS_Union
  <2>2. Cardinality(held \cap untrimmed) \in Nat
    BY <1>7, FS_Intersection, FS_CardinalityType
  <2> QED
    BY <1>6, <1>7, <1>9, <2>1, <2>2, FS_CardinalityType
<1>11. Cardinality(older) <= MaxKeys /\ MaxKeys \in Nat
  BY <1>1, RateNumbers DEF RoomSince
<1>12. Cardinality(Tracked) \in Nat
  BY <1>3, FS_CardinalityType
<1> HIDE DEF older, newer, held, busy
<1>13. Cardinality(Tracked) <= MaxKeys + Cardinality(busy) + Cardinality(untrimmed)
  <2>1. \A x, o, w, z, k, u, y, m \in Nat :
          x <= o + w /\ w <= y /\ y <= z + u /\ z <= k /\ o <= m => x <= m + k + u
    OBVIOUS
  <2> QED
    BY <1>3, <1>4, <1>5, <1>6, <1>7, <1>9, <1>10, <1>11, <1>12, <2>1, Zenon
<1> QED
  BY <1>13 DEF CapacityHolds, busy

LEMMA BudgetRange ==
  ASSUME NEW m \in Nat
  PROVE  IsFiniteSet(m..m + HitLimit - 1) /\ Cardinality(m..m + HitLimit - 1) = HitLimit
<1>1. HitLimit \in Nat /\ HitLimit > 0
  BY RateNumbers
<1> DEFINE n == m + HitLimit - 1
<1>2. m \in Int /\ n \in Int /\ m <= n /\ n - m + 1 = HitLimit
  BY <1>1
<1> HIDE DEF n
<1>3. IsFiniteSet(m..n) /\ Cardinality(m..n) = n - m + 1
  BY <1>2, FS_Interval
<1> QED
  BY <1>2, <1>3 DEF n

LEMMA BudgetKept == RateInv => BudgetHolds
<1> SUFFICES ASSUME RateInv, NEW c \in Clients \ (evicted \cup raced), NEW x \in WindowLen..MaxClock
             PROVE  Cardinality({i \in DOMAIN accepted[c] :
                       x - WindowLen < accepted[c][i] /\ accepted[c][i] <= x}) <= HitLimit
  BY DEF BudgetHolds
<1> USE RateNumbers
<1> DEFINE acc == accepted[c]
           S == {i \in DOMAIN acc : x - WindowLen < acc[i] /\ acc[i] <= x}
<1>1. acc \in Seq(Nat) /\ DOMAIN acc = 1..Len(acc) /\ Len(acc) \in Nat
  BY DEF RateInv, RateTypes
<1>2. /\ \A i, j \in DOMAIN acc : i <= j => acc[i] <= acc[j]
      /\ \A i \in DOMAIN acc : i + HitLimit \in DOMAIN acc => acc[i] + WindowLen <= acc[i + HitLimit]
  BY DEF RateInv, FairTo, OneByOne, Remembered
<1>3. x \in Int /\ \A i \in DOMAIN acc : acc[i] \in Nat
  BY <1>1
<1>4. CASE S = {}
  <2>1. Cardinality({}) = 0
    BY FS_EmptySet
  <2> QED
    BY <1>4, <2>1
<1>5. CASE S # {}
  <2>1. S \in SUBSET Nat
    BY <1>1
  <2>2. PICK m \in S : \A y \in S : m <= y
    <3> HIDE DEF S
    <3> QED
      BY <1>5, <2>1, LeastNumber
  <2>3. S \in SUBSET (m..m + HitLimit - 1)
    <3>0. m \in Nat /\ HitLimit \in Nat /\ \A y \in S : y \in Nat /\ m <= y
      BY <2>1, <2>2
    <3> SUFFICES ASSUME NEW y \in S, y >= m + HitLimit PROVE FALSE
      <4> HIDE DEF S
      <4> QED
        BY <3>0
    <3>1. m \in 1..Len(acc) /\ y \in 1..Len(acc) /\ m + HitLimit \in 1..Len(acc)
      <4>1. m \in 1..Len(acc) /\ y \in 1..Len(acc)
        BY <1>1
      <4> HIDE DEF acc, S
      <4> QED
        BY <1>1, <3>0, <4>1
    <3>2. acc[m] + WindowLen <= acc[m + HitLimit] /\ acc[m + HitLimit] <= acc[y]
      BY <1>1, <1>2, <3>1
    <3>3. x - WindowLen < acc[m] /\ acc[y] <= x
      BY <2>2
    <3>4. acc[m] \in Nat /\ acc[y] \in Nat /\ acc[m + HitLimit] \in Nat
      BY <1>1, <1>3, <3>1
    <3> HIDE DEF acc, S
    <3> QED
      BY <1>3, <3>2, <3>3, <3>4
  <2>4. IsFiniteSet(m..m + HitLimit - 1) /\ Cardinality(m..m + HitLimit - 1) = HitLimit
    <3>1. m \in Nat
      BY <2>1, <2>2
    <3> HIDE DEF S
    <3> QED
      BY <3>1, BudgetRange
  <2> HIDE DEF S
  <2>5. Cardinality(S) <= HitLimit
    BY <2>3, <2>4, FS_Subset
  <2> QED
    BY <2>5 DEF S
<1> QED
  BY <1>4, <1>5

-----------------------------------------------------------------------------
(* Steps. *)

LEMMA RateInitial == RateInit => RateInv
<1> SUFFICES ASSUME RateInit PROVE RateInv
  OBVIOUS
<1> USE RateNumbers
<1>1. /\ clock = WindowLen /\ hits = <<>> /\ bucketOf = [c \in Clients |-> 0]
      /\ thread = [t \in Threads |-> NoCall] /\ accepted = [c \in Clients |-> <<>>]
      /\ untrimmed = {} /\ unjust = FALSE
  BY DEF RateInit
<1>2. \A t \in Threads : thread[t] \in Call /\ thread[t].at = "idle"
  BY <1>1, StepsApart DEF NoCall, Call
<1>3. RateTypes
  BY <1>1, <1>2, StepsApart DEF RateTypes
<1>4. BucketsApart
  BY <1>1, <1>2, StepsApart DEF BucketsApart
<1>5. Roomy
  <2>1. Tracked = {} /\ Len(hits) = 0
    BY <1>1 DEF Tracked
  <2>2. {c \in Tracked : bucketOf[c] <= 0} = {}
    BY <2>1
  <2>3. Cardinality({c \in Tracked : bucketOf[c] <= 0}) <= MaxKeys
    BY <2>2, FS_EmptySet
  <2>4. RoomSince(0)
    BY <2>1, <2>3 DEF RoomSince
  <2> QED
    BY <2>1, <2>4 DEF Roomy
<1>6. ASSUME NEW c \in Clients PROVE FairTo(c)
  <2>1. accepted[c] = <<>> /\ bucketOf[c] = 0 /\ \A t \in Threads : ~CallOf(t, c)
    BY <1>1, <1>2 DEF CallOf
  <2> QED
    BY <2>1 DEF FairTo, OneByOne, Remembered
<1> QED
  BY <1>1, <1>3, <1>4, <1>5, <1>6 DEF RateInv

\* A step that does nothing to the calls, hits and bucket of c, but to end a call
\* or take it where less is asked of it.
LEMMA Untouched ==
  ASSUME NEW c \in Clients, RateTypes, BucketsApart, FairTo(c),
         clock' \in Nat, clock' >= clock, accepted'[c] = accepted[c],
         raced \subseteq raced', evicted \subseteq evicted',
         bucketOf'[c] = bucketOf[c],
         bucketOf[c] # 0 => hits'[bucketOf[c]] = hits[bucketOf[c]],
         \A u \in Threads : thread'[u].at # "idle" /\ thread'[u].key = c =>
           /\ thread[u].at # "idle" /\ thread[u].key = c /\ thread'[u].now = thread[u].now
           /\ thread'[u].at \in Holding =>
                /\ thread[u].at \in Holding /\ thread'[u].bucket = thread[u].bucket
                /\ hits'[thread[u].bucket] = hits[thread[u].bucket]
           /\ thread'[u].at \in PastGet => thread[u].at \in PastGet
           /\ thread'[u].at = "insert" => thread[u].at = "insert"
           /\ thread'[u].at = "append" =>
                thread[u].at = "append" \/ Len(hits[thread[u].bucket]) < HitLimit
           /\ thread'[u].at \in Trims => thread[u].at \in Trims
  PROVE  FairTo(c)'
<1>0. /\ accepted[c] \in Seq(Nat) /\ clock \in Nat /\ DOMAIN accepted[c] = 1..Len(accepted[c])
      /\ \A i \in DOMAIN accepted[c] : accepted[c][i] \in Nat
  BY DEF RateTypes
<1>1. \A u \in Threads : CallOf(u, c)' => CallOf(u, c) /\ thread'[u].now = thread[u].now
  BY DEF CallOf
<1>2. ASSUME c \notin raced' PROVE OneByOne(c)'
  <2>1. OneByOne(c)
    BY <1>2 DEF FairTo
  <2>2. bucketOf'[c] # 0 => /\ Len(hits'[bucketOf'[c]]) <= Len(accepted'[c])
                            /\ \A i \in 1..Len(hits'[bucketOf'[c]]) :
                                 hits'[bucketOf'[c]][i] = accepted'[c][Len(accepted'[c]) - Len(hits'[bucketOf'[c]]) + i]
    BY <2>1 DEF OneByOne, IsTail
  <2>3. \A i \in DOMAIN accepted[c] : accepted[c][i] <= clock'
    BY <1>0, <2>1 DEF OneByOne
  <2>4. \A t, u \in Threads : CallOf(t, c)' /\ CallOf(u, c)' => t = u
    BY <1>1, <2>1 DEF OneByOne
  <2>5. \A i, j \in DOMAIN accepted[c] : i <= j => accepted[c][i] <= accepted[c][j]
    BY <2>1 DEF OneByOne
  <2> QED
    BY <2>2, <2>3, <2>4, <2>5 DEF OneByOne, IsTail
<1>3. ASSUME c \notin raced', NEW t \in Threads, CallOf(t, c)' PROVE CallFits(t, c)'
  <2>1. CallFits(t, c) /\ thread'[t].now = thread[t].now
    BY <1>1, <1>3 DEF FairTo
  <2>2. thread'[t].at \in Trims => thread'[t].at \in Holding
    BY StepsApart
  <2>3. thread'[t].at = "append" => thread'[t].at \in Holding
    BY StepsApart
  <2>4. /\ thread'[t].at \in Holding =>
             /\ thread[t].at \in Holding /\ thread'[t].bucket = thread[t].bucket
             /\ hits'[thread[t].bucket] = hits[thread[t].bucket]
        /\ thread'[t].at = "insert" => thread[t].at = "insert"
        /\ thread'[t].at = "append" =>
             thread[t].at = "append" \/ Len(hits[thread[t].bucket]) < HitLimit
        /\ thread'[t].at \in Trims => thread[t].at \in Trims
    BY <1>3 DEF CallOf
  <2> QED
    BY <2>1, <2>2, <2>3, <2>4 DEF CallFits, IsTail
<1>4. ASSUME c \notin raced' \cup evicted' PROVE Remembered(c)'
  <2>1. Remembered(c)
    BY <1>4 DEF FairTo
  <2>2. \A t \in Threads : CallOf(t, c)' /\ thread'[t].at \in PastGet => bucketOf'[c] = thread'[t].bucket
    BY <1>1, <2>1, StepsApart DEF Remembered, CallOf
  <2>3. \A i \in DOMAIN accepted[c] : Lost(i, c)' => Lost(i, c)
    BY DEF Lost
  <2>4. \A i \in DOMAIN accepted[c] : Lost(i, c)' =>
          /\ accepted[c][i] + WindowLen <= clock'
          /\ \A t \in Threads : CallOf(t, c)' => accepted[c][i] + WindowLen <= thread'[t].now
    <3> TAKE i \in DOMAIN accepted[c]
    <3> HAVE Lost(i, c)'
    <3>1. accepted[c][i] + WindowLen <= clock
          /\ \A t \in Threads : CallOf(t, c) => accepted[c][i] + WindowLen <= thread[t].now
      BY <2>1, <2>3 DEF Remembered
    <3>2. accepted[c][i] + WindowLen \in Nat
      BY <1>0, RateNumbers
    <3>3. accepted[c][i] + WindowLen <= clock'
      BY <1>0, <3>1, <3>2
    <3> QED
      BY <1>1, <3>1, <3>3
  <2>5. \A i \in DOMAIN accepted[c] : i + HitLimit \in DOMAIN accepted[c] =>
          accepted[c][i] + WindowLen <= accepted[c][i + HitLimit]
    BY <2>1 DEF Remembered
  <2> QED
    BY <2>2, <2>4, <2>5 DEF Remembered
<1> QED
  BY <1>2, <1>3, <1>4 DEF FairTo

LEMMA RoomKept ==
  ASSUME RateTypes, Roomy, hits' \in Seq(Seq(Nat)), Len(hits') >= Len(hits),
         untrimmed \subseteq untrimmed', bucketOf' \in [Clients -> Nat],
         \A c \in Clients : bucketOf'[c] \notin {0, bucketOf[c]} =>
           bucketOf'[c] > Len(hits)
             /\ \E t \in Threads : thread'[t].at \in PastGet /\ thread'[t].bucket = bucketOf'[c],
         \A b \in 1..Len(hits') : hits'[b] # <<>> =>
           \/ b <= Len(hits) /\ hits[b] # <<>>
           \/ \E t \in Threads : thread'[t].at \in Trims /\ thread'[t].bucket = b,
         \A b \in 1..Len(hits) : hits[b] # <<>> =>
           hits'[b] # <<>> \/ \E t \in Threads : thread'[t].at \in PastGet /\ thread'[t].bucket = b,
         \A t \in Threads : thread[t].at \in Trims =>
           \/ thread'[t].at \in Trims /\ thread'[t].bucket = thread[t].bucket
           \/ thread[t].bucket \in untrimmed',
         \A t \in Threads : thread[t].at \in PastGet =>
           \/ thread'[t].at \in PastGet /\ thread'[t].bucket = thread[t].bucket
           \/ thread[t].bucket \in untrimmed' \/ hits'[thread[t].bucket] # <<>>
  PROVE  Roomy'
<1>0. /\ Len(hits) \in Nat /\ Len(hits') \in Nat /\ bucketOf \in [Clients -> 0..Len(hits)]
  BY DEF RateTypes
<1>1. PICK s \in 0..Len(hits) : RoomSince(s)
  BY DEF Roomy
<1> DEFINE before == {c \in Tracked : bucketOf[c] <= s}
           after == {c \in Tracked' : bucketOf'[c] <= s}
<1>2. Cardinality(after) <= MaxKeys
  <2>1. after \in SUBSET before
    <3> SUFFICES ASSUME NEW c \in Clients, bucketOf'[c] # 0, bucketOf'[c] <= s
                 PROVE  bucketOf[c] # 0 /\ bucketOf[c] <= s
      BY DEF Tracked
    <3>1. bucketOf'[c] > Len(hits) \/ bucketOf'[c] = bucketOf[c]
      OBVIOUS
    <3> QED
      BY <1>0, <3>1
  <2>2. before \in SUBSET Clients
    BY DEF Tracked
  <2>3. Cardinality(before) <= MaxKeys
    BY <1>1 DEF RoomSince
  <2> HIDE DEF before, after
  <2>4. IsFiniteSet(before)
    BY <2>2, RateNumbers, FS_Subset
  <2>5. Cardinality(after) <= Cardinality(before) /\ IsFiniteSet(after)
    BY <2>1, <2>4, FS_Subset
  <2>6. Cardinality(after) \in Nat /\ Cardinality(before) \in Nat
    BY <2>4, <2>5, FS_CardinalityType
  <2> QED
    BY <2>3, <2>5, <2>6, RateNumbers
<1>3. ASSUME NEW b \in 1..Len(hits'), b > s, hits'[b] # <<>>
      PROVE  b \in untrimmed' \/ \E t \in Threads : thread'[t].at \in Trims /\ thread'[t].bucket = b
  <2>1. CASE b <= Len(hits) /\ hits[b] # <<>>
    <3>1. b \in untrimmed \/ \E t \in Threads : thread[t].at \in Trims /\ thread[t].bucket = b
      BY <1>0, <1>1, <1>3, <2>1 DEF RoomSince
    <3> QED
      BY <3>1
  <2> QED
    BY <1>3, <2>1
<1>4. ASSUME NEW c \in Tracked', bucketOf'[c] > s
      PROVE  \/ hits'[bucketOf'[c]] # <<>> \/ bucketOf'[c] \in untrimmed'
             \/ \E t \in Threads : thread'[t].at \in PastGet /\ thread'[t].bucket = bucketOf'[c]
  <2>1. c \in Clients /\ bucketOf'[c] # 0
    BY DEF Tracked
  <2>2. CASE bucketOf'[c] = bucketOf[c]
    <3>1. c \in Tracked /\ bucketOf[c] > s /\ bucketOf[c] \in 1..Len(hits)
      BY <1>0, <1>4, <2>1, <2>2 DEF Tracked
    <3>2. \/ hits[bucketOf[c]] # <<>> \/ bucketOf[c] \in untrimmed
          \/ \E t \in Threads : thread[t].at \in PastGet /\ thread[t].bucket = bucketOf[c]
      BY <1>1, <3>1 DEF RoomSince
    <3>3. CASE hits[bucketOf[c]] # <<>>
      BY <2>2, <3>1, <3>3
    <3>4. CASE bucketOf[c] \in untrimmed
      BY <2>2, <3>4
    <3>5. CASE \E t \in Threads : thread[t].at \in PastGet /\ thread[t].bucket = bucketOf[c]
      BY <2>2, <3>5
    <3> QED
      BY <3>2, <3>3, <3>4, <3>5
  <2> QED
    BY <2>1, <2>2
<1>5. RoomSince(s)'
  BY <1>2, <1>3, <1>4 DEF RoomSince
<1>6. s \in 0..Len(hits')
  BY <1>0
<1> QED
  BY <1>5, <1>6 DEF Roomy

LEMMA RoomSame ==
  ASSUME RateTypes, Roomy, hits' = hits, untrimmed' = untrimmed, bucketOf' \in [Clients -> Nat],
         \A c \in Clients : bucketOf'[c] \in {0, bucketOf[c]},
         \A t \in Threads :
           /\ thread[t].at \in Trims => thread'[t].at \in Trims /\ thread'[t].bucket = thread[t].bucket
           /\ thread[t].at \in PastGet =>
                \/ thread'[t].at \in PastGet /\ thread'[t].bucket = thread[t].bucket
                \/ hits[thread[t].bucket] # <<>>
  PROVE  Roomy'
<1>1. hits' \in Seq(Seq(Nat)) /\ Len(hits') >= Len(hits) /\ untrimmed \subseteq untrimmed' /\ Len(hits') = Len(hits)
  BY DEF RateTypes
<1>2. \A c \in Clients : bucketOf'[c] \notin {0, bucketOf[c]} =>
           bucketOf'[c] > Len(hits)
             /\ \E t \in Threads : thread'[t].at \in PastGet /\ thread'[t].bucket = bucketOf'[c]
  OBVIOUS
<1>3. \A b \in 1..Len(hits') : hits'[b] # <<>> =>
           \/ b <= Len(hits) /\ hits[b] # <<>>
           \/ \E t \in Threads : thread'[t].at \in Trims /\ thread'[t].bucket = b
  BY <1>1 DEF RateTypes
<1>4. \A b \in 1..Len(hits) : hits[b] # <<>> =>
           hits'[b] # <<>> \/ \E t \in Threads : thread'[t].at \in PastGet /\ thread'[t].bucket = b
  OBVIOUS
<1>5. \A t \in Threads : thread[t].at \in Trims =>
           \/ thread'[t].at \in Trims /\ thread'[t].bucket = thread[t].bucket
           \/ thread[t].bucket \in untrimmed'
  OBVIOUS
<1>6. \A t \in Threads : thread[t].at \in PastGet =>
           \/ thread'[t].at \in PastGet /\ thread'[t].bucket = thread[t].bucket
           \/ thread[t].bucket \in untrimmed' \/ hits'[thread[t].bucket] # <<>>
  OBVIOUS
<1> QED
  BY <1>1, <1>2, <1>3, <1>4, <1>5, <1>6, RoomKept

\* The dictionary is seen within its capacity.
LEMMA RoomAgain ==
  ASSUME RateTypes', (Cardinality(Tracked) <= MaxKeys)'
  PROVE  Roomy'
<1>1. Len(hits') \in Nat /\ \A c \in Clients : bucketOf'[c] \in 0..Len(hits')
  BY DEF RateTypes
<1>2. {c \in Tracked' : bucketOf'[c] <= Len(hits')} = Tracked'
  BY <1>1 DEF Tracked
<1>3. RoomSince(Len(hits))'
  <2>1. Cardinality({c \in Tracked' : bucketOf'[c] <= Len(hits')}) <= MaxKeys
    BY <1>2
  <2>2. \A c \in Tracked' : ~(bucketOf'[c] > Len(hits'))
    BY <1>1 DEF Tracked
  <2>3. \A b \in 1..Len(hits') : ~(b > Len(hits'))
    BY <1>1
  <2> QED
    BY <2>1, <2>2, <2>3 DEF RoomSince
<1> QED
  BY <1>1, <1>3 DEF Roomy

LEMMA ApartKept ==
  ASSUME BucketsApart, \A c \in Clients : bucketOf'[c] \in {0, bucketOf[c]},
         \A t \in Threads : thread'[t].at \in Holding =>
           /\ thread[t].at \in Holding /\ thread'[t].bucket = thread[t].bucket
           /\ thread'[t].key = thread[t].key /\ thread'[t].bucket # 0
  PROVE  BucketsApart'
BY DEF BucketsApart

LEMMA TailIs ==
  ASSUME NEW b \in Seq(Nat), b # <<>>
  PROVE  /\ Tail(b) \in Seq(Nat) /\ Len(Tail(b)) = Len(b) - 1 /\ Len(b) \in Nat /\ Len(b) > 0
         /\ \A i \in 1..Len(b) - 1 : Tail(b)[i] = b[i + 1]
         /\ Head(b) = b[1] /\ b[1] \in Nat
<1>1. Len(b) \in Nat /\ Len(b) > 0
  OBVIOUS
<1>2. Tail(b) \in Seq(Nat) /\ Len(Tail(b)) = Len(b) - 1
  BY <1>1
<1>3. \A i \in 1..Len(b) - 1 : Tail(b)[i] = b[i + 1]
  BY <1>1
<1> QED
  BY <1>1, <1>2, <1>3

LEMMA RateTick == RateInv /\ Tick => RateInv'
<1> SUFFICES ASSUME RateInv, Tick PROVE RateInv'
  OBVIOUS
<1>0. /\ RateTypes /\ BucketsApart /\ Roomy /\ \A c \in Clients : FairTo(c)
      /\ clock' = clock + 1 /\ clock \in Nat
      /\ UNCHANGED <<hits, bucketOf, lru, ops, thread, torn, accepted, evicted, raced, untrimmed, unjust>>
  BY DEF RateInv, Tick, RateTypes
<1>1. RateTypes'
  <2>1. \A t \in Threads : thread[t].now \in Nat
    BY <1>0 DEF RateTypes, Call
  <2> QED
    BY <1>0, <2>1 DEF RateTypes
<1>2. BucketsApart'
  BY <1>0 DEF BucketsApart
<1>3. Roomy'
  BY <1>0 DEF Roomy, RoomSince, Tracked
<1>4. ASSUME NEW c \in Clients PROVE FairTo(c)'
  BY <1>0, Untouched
<1> QED
  BY <1>0, <1>1, <1>2, <1>3, <1>4 DEF RateInv

\* Steps of one call that change no bucket.
LEMMA RateWalk ==
  ASSUME RateInv, NEW t \in Threads, NEW call2 \in Call,
         thread' = [thread EXCEPT ![t] = call2],
         call2.key = thread[t].key, call2.now = thread[t].now, call2.bucket = thread[t].bucket,
         thread[t].at # "idle", call2.at # "idle", call2.at # "insert",
         call2.at \in Trims <=> thread[t].at \in Trims, call2.at \in PastGet <=> thread[t].at \in PastGet,
         call2.at \in Holding <=> thread[t].at \in Holding,
         call2.at = "append" => Len(hits[thread[t].bucket]) < HitLimit,
         UNCHANGED <<clock, hits, bucketOf, accepted, evicted, raced, untrimmed, unjust>>
  PROVE  RateInv'
<1>0. RateTypes /\ BucketsApart /\ Roomy /\ \A c \in Clients : FairTo(c)
  BY DEF RateInv
<1>1. thread \in [Threads -> Call]
  BY <1>0 DEF RateTypes
<1>2. /\ thread'[t] = call2 /\ thread' \in [Threads -> Call]
      /\ \A u \in Threads : u # t => thread'[u] = thread[u]
  BY <1>1
<1>3. \A u \in Threads : /\ thread'[u].at \in Trims <=> thread[u].at \in Trims
                         /\ thread'[u].at \in PastGet <=> thread[u].at \in PastGet
                         /\ thread'[u].at \in Holding <=> thread[u].at \in Holding
                         /\ thread'[u].at = "insert" => thread[u].at = "insert"
                         /\ thread'[u].at = "append" =>
                              thread[u].at = "append" \/ Len(hits[thread[u].bucket]) < HitLimit
                         /\ thread'[u].at # "idle" <=> thread[u].at # "idle"
                         /\ thread'[u].bucket = thread[u].bucket /\ thread'[u].key = thread[u].key
                         /\ thread'[u].now = thread[u].now
  <2> TAKE u \in Threads
  <2>1. CASE u = t
    BY <1>2, <2>1
  <2>2. CASE u # t
    <3>1. thread'[u] = thread[u]
      BY <1>2, <2>2
    <3> QED
      BY <3>1
  <2> QED
    BY <2>1, <2>2
<1>4. RateTypes'
  <2>1. \A u \in Threads : /\ thread'[u].at # "idle" => thread'[u].key \in Clients /\ thread'[u].now <= clock
                           /\ thread'[u].at \in Holding => thread'[u].bucket \in 1..Len(hits)
    BY <1>0, <1>3 DEF RateTypes
  <2> QED
    BY <1>0, <1>2, <2>1 DEF RateTypes
<1>5. BucketsApart'
  <2>1. \A u \in Threads : thread[u].at \in Holding => thread[u].bucket # 0
    BY <1>0 DEF RateTypes
  <2> QED
    BY <1>0, <1>3, <2>1, ApartKept
<1>6. Roomy'
  <2>1. Len(hits) \in Nat /\ hits \in Seq(Seq(Nat)) /\ bucketOf \in [Clients -> Nat]
    BY <1>0 DEF RateTypes
  <2> QED
    BY <1>0, <1>3, <2>1, RoomSame
<1>7. ASSUME NEW c \in Clients PROVE FairTo(c)'
  <2>1. clock' \in Nat /\ clock' >= clock
    BY <1>0 DEF RateTypes
  <2> QED
    BY <1>0, <1>3, <2>1, Untouched
<1> QED
  BY <1>0, <1>4, <1>5, <1>6, <1>7 DEF RateInv

\* The end of a call that changes no bucket: a rejection, or an exception.
LEMMA RateEnds ==
  ASSUME RateInv, NEW t \in Threads,
         thread' = [thread EXCEPT ![t] = NoCall],
         thread[t].at \in Trims => thread[t].at \in {"trim_clean", "evict"},
         thread[t].at \in PastGet \ Trims => hits[thread[t].bucket] # <<>>,
         untrimmed' = IF thread[t].at \in {"trim_clean", "evict"} THEN untrimmed \cup {thread[t].bucket}
                      ELSE untrimmed,
         raced \subseteq raced', ~unjust',
         UNCHANGED <<clock, hits, bucketOf, accepted, evicted>>
  PROVE  RateInv'
<1>0. RateTypes /\ BucketsApart /\ Roomy /\ \A c \in Clients : FairTo(c)
  BY DEF RateInv
<1>1. /\ thread \in [Threads -> Call] /\ clock \in Nat /\ hits \in Seq(Seq(Nat)) /\ Len(hits) \in Nat
      /\ bucketOf \in [Clients -> 0..Len(hits)] /\ bucketOf \in [Clients -> Nat]
      /\ untrimmed \in SUBSET (1..Len(hits))
  BY <1>0 DEF RateTypes
<1>2. /\ thread'[t].at = "idle" /\ thread' \in [Threads -> Call]
      /\ \A u \in Threads : u # t => thread'[u] = thread[u]
  BY <1>1, StepsApart DEF NoCall, Call
<1>3. /\ thread[t].at \in {"trim_clean", "evict"} => thread[t].bucket \in 1..Len(hits)
      /\ \A u \in Threads : thread'[u].at # "idle" => thread'[u] = thread[u]
  BY <1>0, <1>2 DEF RateTypes, Holding, PastGet, Trims
<1>4. RateTypes'
  <2>1. \A u \in Threads : /\ thread'[u].at # "idle" => thread'[u].key \in Clients /\ thread'[u].now <= clock
                           /\ thread'[u].at \in Holding => thread'[u].bucket \in 1..Len(hits)
    BY <1>0, <1>3, StepsApart DEF RateTypes
  <2>2. untrimmed' \in SUBSET (1..Len(hits))
    BY <1>1, <1>3
  <2> QED
    BY <1>0, <1>2, <2>1, <2>2 DEF RateTypes
<1>5. BucketsApart'
  <2>1. \A u \in Threads : thread'[u].at \in Holding => thread'[u] = thread[u]
    BY <1>3, StepsApart
  <2> QED
    BY <1>0, <2>1 DEF BucketsApart
<1>6. Roomy'
  <2>1. /\ hits' \in Seq(Seq(Nat)) /\ Len(hits') >= Len(hits) /\ untrimmed \subseteq untrimmed'
        /\ bucketOf' \in [Clients -> Nat] /\ hits' = hits
    BY <1>1
  <2>2. \A b \in 1..Len(hits') : hits'[b] # <<>> =>
           \/ b <= Len(hits) /\ hits[b] # <<>>
           \/ \E u \in Threads : thread'[u].at \in Trims /\ thread'[u].bucket = b
    BY <1>1, <2>1
  <2>3. \A u \in Threads : thread[u].at \in Trims =>
           \/ thread'[u].at \in Trims /\ thread'[u].bucket = thread[u].bucket
           \/ thread[u].bucket \in untrimmed'
    <3> TAKE u \in Threads
    <3>1. CASE u = t
      BY <3>1
    <3>2. CASE u # t
      BY <1>2, <3>2
    <3> QED
      BY <3>1, <3>2
  <2>4. \A u \in Threads : thread[u].at \in PastGet =>
           \/ thread'[u].at \in PastGet /\ thread'[u].bucket = thread[u].bucket
           \/ thread[u].bucket \in untrimmed' \/ hits'[thread[u].bucket] # <<>>
    <3> TAKE u \in Threads
    <3>1. CASE u = t
      BY <3>1
    <3>2. CASE u # t
      BY <1>2, <3>2
    <3> QED
      BY <3>1, <3>2
  <2> QED
    BY <1>0, <2>1, <2>2, <2>3, <2>4, RoomKept
<1>7. ASSUME NEW c \in Clients PROVE FairTo(c)'
  <2>1. clock' \in Nat /\ clock' >= clock /\ evicted \subseteq evicted'
    BY <1>1
  <2>2. \A u \in Threads : thread'[u].at # "idle" /\ thread'[u].key = c =>
          thread'[u] = thread[u] /\ thread[u].at # "idle"
    BY <1>3
  <2> QED
    BY <1>0, <2>1, <2>2, Untouched
<1> QED
  BY <1>4, <1>5, <1>6, <1>7 DEF RateInv

LEMMA RateSweep ==
  ASSUME RateInv, NEW t \in Threads, Sweep(t) PROVE RateInv'
<1>1. /\ thread[t].at \in {"sweep", "trim_sweep"} /\ thread[t] \in Call
      /\ UNCHANGED <<clock, hits, bucketOf, accepted, evicted, raced, untrimmed, unjust>>
  BY DEF Sweep, RateInv, RateTypes
<1>2. PICK call2 \in Call :
        /\ thread' = [thread EXCEPT ![t] = call2]
        /\ call2.key = thread[t].key /\ call2.now = thread[t].now /\ call2.bucket = thread[t].bucket
        /\ call2.at = IF thread[t].at = "sweep" THEN "clean" ELSE "trim_clean"
  <2> DEFINE call2 == [thread[t] EXCEPT !.left = Tracked, !.stale = {},
                                        !.at = IF thread[t].at = "sweep" THEN "clean" ELSE "trim_clean"]
  <2>1. thread' = [thread EXCEPT ![t] = call2]
    BY DEF Sweep, RateInv, RateTypes
  <2>2. Tracked \in SUBSET Clients /\ {"clean", "trim_clean"} \subseteq CallSteps
    BY DEF Tracked, CallSteps, Holding, PastGet, Trims
  <2>3. /\ call2 \in Call /\ call2.key = thread[t].key /\ call2.now = thread[t].now
        /\ call2.bucket = thread[t].bucket
        /\ call2.at = IF thread[t].at = "sweep" THEN "clean" ELSE "trim_clean"
    BY <1>1, <2>2 DEF Call
  <2> QED
    BY <2>1, <2>3
<1>3. /\ thread[t].at # "idle" /\ call2.at \notin {"idle", "insert", "append"}
      /\ call2.at \in Trims <=> thread[t].at \in Trims
      /\ call2.at \in PastGet <=> thread[t].at \in PastGet
      /\ call2.at \in Holding <=> thread[t].at \in Holding
  BY <1>1, <1>2 DEF Holding, PastGet, Trims
<1> QED
  BY <1>1, <1>2, <1>3, RateWalk

LEMMA RateVisit ==
  ASSUME RateInv, NEW t \in Threads, NEW d \in Clients, Visit(t, d) PROVE RateInv'
<1>1. /\ d \in thread[t].left /\ thread[t] \in Call /\ ~unjust
      /\ thread[t].at \in {"clean", "trim_clean"}
      /\ UNCHANGED <<clock, hits, bucketOf, accepted, evicted, raced, unjust>>
  BY DEF Visit, RateInv, RateTypes
<1>2. CASE t \in torn
  <2>1. /\ thread' = [thread EXCEPT ![t] = NoCall]
        /\ untrimmed' = IF thread[t].at \in {"trim_clean", "evict"} THEN untrimmed \cup {thread[t].bucket}
                        ELSE untrimmed
    BY <1>2 DEF Visit, Raise
  <2>2. /\ thread[t].at \in Trims => thread[t].at \in {"trim_clean", "evict"}
        /\ thread[t].at \notin PastGet \ Trims
    BY <1>1 DEF PastGet, Trims
  <2>3. ~unjust' /\ raced \subseteq raced'
    BY <1>1
  <2> QED
    BY <1>1, <2>1, <2>2, <2>3, RateEnds, Zenon
<1>3. CASE t \notin torn
  <2>1. PICK call2 \in Call :
          /\ thread' = [thread EXCEPT ![t] = call2]
          /\ call2.key = thread[t].key /\ call2.now = thread[t].now /\ call2.bucket = thread[t].bucket
          /\ call2.at = thread[t].at
    <3> DEFINE found == thread[t].stale \cup ({d} \cap Stale(thread[t].now))
               call2 == [thread[t] EXCEPT !.left = thread[t].left \ {d}, !.stale = found]
    <3>1. thread' = [thread EXCEPT ![t] = call2]
      BY <1>3 DEF Visit, RateInv, RateTypes
    <3>2. found \in SUBSET Clients
      BY <1>1 DEF Call
    <3> HIDE DEF found
    <3>3. /\ call2 \in Call /\ call2.key = thread[t].key /\ call2.now = thread[t].now
          /\ call2.bucket = thread[t].bucket /\ call2.at = thread[t].at
      BY <1>1, <3>2 DEF Call
    <3> QED
      BY <3>1, <3>3
  <2>2. untrimmed' = untrimmed
    BY <1>3 DEF Visit
  <2>3. call2.at \notin {"idle", "insert", "append"}
    BY <1>1, <2>1
  <2> QED
    BY <1>1, <2>1, <2>2, <2>3, RateWalk
<1> QED
  BY <1>2, <1>3

LEMMA RateSwept ==
  ASSUME RateInv, NEW t \in Threads, Swept(t) PROVE RateInv'
<1>1. /\ thread[t].at \in {"clean", "trim_clean"} /\ thread[t] \in Call
      /\ UNCHANGED <<clock, hits, bucketOf, accepted, evicted, raced, untrimmed, unjust>>
  BY DEF Swept, RateInv, RateTypes
<1>2. PICK call2 \in Call :
        /\ thread' = [thread EXCEPT ![t] = call2]
        /\ call2.key = thread[t].key /\ call2.now = thread[t].now /\ call2.bucket = thread[t].bucket
        /\ call2.at = IF thread[t].at = "clean" THEN "get" ELSE "trim"
  <2> DEFINE call2 == [thread[t] EXCEPT !.at = IF thread[t].at = "clean" THEN "get" ELSE "trim"]
  <2>1. thread' = [thread EXCEPT ![t] = call2]
    BY DEF Swept, RateInv, RateTypes
  <2>2. {"get", "trim"} \subseteq CallSteps
    BY DEF CallSteps, Holding, PastGet, Trims
  <2>3. /\ call2 \in Call /\ call2.key = thread[t].key /\ call2.now = thread[t].now
        /\ call2.bucket = thread[t].bucket
        /\ call2.at = IF thread[t].at = "clean" THEN "get" ELSE "trim"
    BY <1>1, <2>2 DEF Call
  <2> QED
    BY <2>1, <2>3
<1>3. /\ thread[t].at # "idle" /\ call2.at \notin {"idle", "insert", "append"}
      /\ call2.at \in Trims <=> thread[t].at \in Trims
      /\ call2.at \in PastGet <=> thread[t].at \in PastGet
      /\ call2.at \in Holding <=> thread[t].at \in Holding
  BY <1>1, <1>2 DEF Holding, PastGet, Trims
<1> QED
  BY <1>1, <1>2, <1>3, RateWalk

LEMMA RateStart ==
  ASSUME RateInv, NEW t \in Threads, NEW d \in Clients, StartHit(t, d) PROVE RateInv'
<1>0. RateTypes /\ BucketsApart /\ Roomy /\ \A c \in Clients : FairTo(c)
  BY DEF RateInv
<1>1. /\ thread \in [Threads -> Call] /\ clock \in Nat /\ hits \in Seq(Seq(Nat)) /\ Len(hits) \in Nat
      /\ bucketOf \in [Clients -> Nat]
  BY <1>0 DEF RateTypes
<1>2. PICK a \in {"sweep", "get"} : thread' = [thread EXCEPT ![t] =
        [at |-> a, key |-> d, now |-> clock, bucket |-> 0, left |-> {}, stale |-> {}]]
  BY DEF StartHit
<1>3. /\ thread'[t].at = a /\ thread'[t].key = d /\ thread'[t].now = clock
      /\ thread'[t] \in Call
      /\ \A u \in Threads : u # t => thread'[u] = thread[u]
  <2>1. a \in CallSteps /\ a \notin Holding /\ a # "insert"
    BY DEF CallSteps, Holding, PastGet, Trims
  <2> QED
    BY <1>1, <1>2, <2>1 DEF Call
<1>4. /\ thread[t].at = "idle" /\ thread'[t].at \notin PastGet /\ thread[t].at \notin PastGet
      /\ thread'[t].at # "idle" /\ thread'[t].at \notin Trims /\ thread[t].at \notin Trims
      /\ thread'[t].at # "append" /\ thread'[t].at # "insert"
      /\ thread'[t].at \notin Holding /\ thread[t].at \notin Holding
      /\ UNCHANGED <<clock, hits, bucketOf, lru, accepted, evicted, untrimmed, unjust>>
      /\ raced' = IF Calling(t, d) THEN raced \cup {d} ELSE raced
  BY <1>3 DEF StartHit, Holding, PastGet, Trims
<1>5. RateTypes'
  <2>1. thread' \in [Threads -> Call]
    BY <1>1, <1>2, <1>3
  <2>2. \A u \in Threads : /\ thread'[u].at # "idle" => thread'[u].key \in Clients /\ thread'[u].now <= clock
                           /\ thread'[u].at \in Holding => thread'[u].bucket \in 1..Len(hits)
    <3> TAKE u \in Threads
    <3>1. CASE u = t
      BY <1>1, <1>3, <1>4, <3>1
    <3>2. CASE u # t
      <4>1. thread'[u] = thread[u]
        BY <1>3, <3>2
      <4> QED
        BY <1>0, <4>1 DEF RateTypes
    <3> QED
      BY <3>1, <3>2
  <2> QED
    BY <1>0, <1>4, <2>1, <2>2 DEF RateTypes
<1>6. BucketsApart'
  <2>1. \A u \in Threads : thread'[u].at \in Holding =>
          /\ thread[u].at \in Holding /\ thread'[u].bucket = thread[u].bucket
          /\ thread'[u].key = thread[u].key /\ thread'[u].bucket # 0
    <3> SUFFICES ASSUME NEW u \in Threads, thread'[u].at \in Holding
                 PROVE  thread'[u] = thread[u] /\ thread'[u].bucket # 0
      OBVIOUS
    <3>1. thread'[u] = thread[u]
      BY <1>3, <1>4
    <3>2. thread[u].bucket \in 1..Len(hits)
      BY <1>0, <3>1 DEF RateTypes
    <3> QED
      BY <3>1, <3>2
  <2> QED
    BY <1>0, <1>4, <2>1, ApartKept
<1>7. Roomy'
  <2>1. \A u \in Threads : /\ thread'[u].at \in Trims <=> thread[u].at \in Trims
                           /\ thread'[u].at \in PastGet <=> thread[u].at \in PastGet
                           /\ thread'[u].at \in PastGet \cup Trims => thread'[u].bucket = thread[u].bucket
    BY <1>3, <1>4
  <2> QED
    BY <1>0, <1>1, <1>4, <2>1, RoomSame
<1>8. ASSUME NEW c \in Clients, c # d PROVE FairTo(c)'
  <2>1. \A u \in Threads : thread'[u].at # "idle" /\ thread'[u].key = c => thread'[u] = thread[u]
    BY <1>3, <1>8
  <2> QED
    BY <1>0, <1>1, <1>4, <2>1, Untouched
<1>9. FairTo(d)'
  <2>1. FairTo(d) /\ \A i \in DOMAIN accepted[d] : accepted[d][i] \in Nat
    BY <1>0 DEF RateTypes
  <2>2. ASSUME d \notin raced' PROVE OneByOne(d)' /\ \A u \in Threads : CallOf(u, d)' => u = t
    <3>1. OneByOne(d) /\ ~Calling(t, d)
      BY <1>4, <2>1, <2>2 DEF FairTo
    <3>2. \A u \in Threads : CallOf(u, d)' => u = t
      BY <1>3, <3>1 DEF Calling, CallOf
    <3> QED
      BY <1>4, <3>1, <3>2 DEF OneByOne, IsTail
  <2>3. ASSUME d \notin raced' PROVE CallFits(t, d)'
    <3>1. OneByOne(d)
      BY <1>4, <2>1, <2>3 DEF FairTo
    <3> QED
      BY <1>3, <1>4, <3>1 DEF OneByOne, CallFits
  <2>4. ASSUME d \notin raced' \cup evicted' PROVE Remembered(d)'
    <3>1. Remembered(d)
      BY <1>4, <2>1, <2>4 DEF FairTo
    <3>2. \A u \in Threads : CallOf(u, d)' => u = t
      BY <2>2, <2>4
    <3>3. \A i \in DOMAIN accepted[d] : Lost(i, d)' => Lost(i, d)
      BY <1>4 DEF Lost
    <3> QED
      BY <1>3, <1>4, <3>1, <3>2, <3>3 DEF Remembered
  <2> QED
    BY <2>2, <2>3, <2>4 DEF FairTo
<1> QED
  BY <1>4, <1>5, <1>6, <1>7, <1>8, <1>9 DEF RateInv, RateInv

LEMMA RateDelete ==
  ASSUME RateInv, NEW t \in Threads, NEW d \in Clients, Delete(t, d) PROVE RateInv'
<1>0. RateTypes /\ BucketsApart /\ Roomy /\ \A c \in Clients : FairTo(c)
  BY DEF RateInv
<1>1. /\ thread \in [Threads -> Call] /\ clock \in Nat /\ hits \in Seq(Seq(Nat)) /\ Len(hits) \in Nat
      /\ bucketOf \in [Clients -> 0..Len(hits)] /\ bucketOf \in [Clients -> Nat]
      /\ accepted \in [Clients -> Seq(Nat)]
      /\ untrimmed \in SUBSET (1..Len(hits))
  BY <1>0 DEF RateTypes
<1>2. /\ thread[t].at \in {"clean", "trim_clean"} /\ thread[t] \in Call /\ d \in thread[t].stale
      /\ UNCHANGED <<clock, hits, ops, accepted, evicted, unjust>>
      /\ raced' = IF Calling(t, d) \/ d \notin Stale(thread[t].now) THEN raced \cup {d} ELSE raced
  BY <1>1 DEF Delete
<1>3. CASE d \in Tracked
  <2>1. /\ thread' = [thread EXCEPT ![t] = [thread[t] EXCEPT !.stale = thread[t].stale \ {d}]]
        /\ bucketOf' = [bucketOf EXCEPT ![d] = 0]
        /\ untrimmed' = untrimmed
    BY <1>1, <1>3 DEF Delete, Drop
  <2>2. /\ thread'[t].at = thread[t].at /\ thread'[t].key = thread[t].key /\ thread'[t].now = thread[t].now
        /\ thread'[t].bucket = thread[t].bucket /\ thread' \in [Threads -> Call]
        /\ \A u \in Threads : u # t => thread'[u] = thread[u]
    BY <1>1, <1>2, <2>1 DEF Call
  <2>3. \A u \in Threads : /\ thread'[u].at = thread[u].at /\ thread'[u].key = thread[u].key
                           /\ thread'[u].now = thread[u].now /\ thread'[u].bucket = thread[u].bucket
    BY <2>2
  <2>4. /\ bucketOf' \in [Clients -> 0..Len(hits)] /\ bucketOf' \in [Clients -> Nat]
        /\ \A c \in Clients : bucketOf'[c] = IF c = d THEN 0 ELSE bucketOf[c]
    BY <1>1, <2>1
  <2>5. RateTypes'
    <3>1. \A u \in Threads : /\ thread'[u].at # "idle" => thread'[u].key \in Clients /\ thread'[u].now <= clock
                             /\ thread'[u].at \in Holding => thread'[u].bucket \in 1..Len(hits)
      BY <1>0, <2>3 DEF RateTypes
    <3> QED
      BY <1>1, <1>2, <2>1, <2>2, <2>4, <3>1 DEF RateTypes
  <2>6. BucketsApart'
    <3>1. \A u \in Threads : thread[u].at \in Holding => thread[u].bucket # 0
      BY <1>0, <1>1 DEF RateTypes
    <3> QED
      BY <1>0, <2>3, <2>4, <3>1, ApartKept
  <2>7. Roomy'
    BY <1>0, <1>2, <2>1, <2>3, <2>4, RoomSame
  <2>8. ASSUME NEW c \in Clients, c # d PROVE FairTo(c)'
    <3>1. bucketOf'[c] = bucketOf[c] /\ raced \subseteq raced' /\ evicted \subseteq evicted' /\ clock' \in Nat /\ clock' >= clock
      BY <1>1, <1>2, <2>4, <2>8
    <3> QED
      BY <1>0, <1>2, <2>3, <3>1, Untouched
  <2>9. FairTo(d)'
    <3>1. FairTo(d) /\ bucketOf'[d] = 0 /\ bucketOf[d] \in 1..Len(hits)
      BY <1>0, <1>1, <1>3, <2>4 DEF Tracked
    <3>2. ASSUME d \notin raced' PROVE OneByOne(d)' /\ \A u \in Threads : CallOf(u, d)' => CallFits(u, d)'
      <4>1. OneByOne(d) /\ \A u \in Threads : CallOf(u, d) => CallFits(u, d)
        BY <1>2, <3>1, <3>2 DEF FairTo
      <4>2. \A u \in Threads : CallOf(u, d)' <=> CallOf(u, d)
        BY <2>3 DEF CallOf
      <4>3. OneByOne(d)'
        BY <1>2, <3>1, <4>1, <4>2 DEF OneByOne
      <4>4. \A u \in Threads : CallOf(u, d)' => CallFits(u, d)'
        <5> SUFFICES ASSUME NEW u \in Threads, CallOf(u, d) PROVE CallFits(u, d)'
          BY <4>2
        <5>1. CallFits(u, d)
          BY <4>1
        <5>2. /\ thread'[u].at = thread[u].at /\ thread'[u].now = thread[u].now
              /\ thread'[u].bucket = thread[u].bucket
          BY <2>3
        <5> QED
          BY <1>2, <3>1, <5>1, <5>2 DEF CallFits, IsTail
      <4> QED
        BY <4>3, <4>4
    <3>3. ASSUME d \notin raced' \cup evicted' PROVE Remembered(d)'
      <4> DEFINE b == bucketOf[d]
                 h == hits[b]
                 acc == accepted[d]
      <4>1. /\ Remembered(d) /\ OneByOne(d) /\ \A u \in Threads : CallOf(u, d) => CallFits(u, d)
            /\ ~Calling(t, d) /\ d \in Stale(thread[t].now)
        BY <1>2, <3>1, <3>3 DEF FairTo
      <4>2. \A u \in Threads : CallOf(u, d)' <=> CallOf(u, d)
        BY <2>3 DEF CallOf
      <4>3. /\ h \in Seq(Nat) /\ acc \in Seq(Nat) /\ Len(h) \in Nat /\ Len(acc) \in Nat
            /\ DOMAIN acc = 1..Len(acc) /\ thread[t].now \in Nat /\ thread[t].now <= clock
            /\ WindowLen \in Nat /\ WindowLen > 0
        <5>1. h \in Seq(Nat) /\ acc \in Seq(Nat)
          BY <1>1, <3>1
        <5>2. thread[t].now \in Nat /\ thread[t].at # "idle"
          BY <1>2 DEF Call
        <5>3. thread[t].now <= clock
          BY <1>0, <5>2 DEF RateTypes
        <5> HIDE DEF h, acc, b
        <5> QED
          BY <5>1, <5>2, <5>3, RateNumbers
      <4>3a. \A j \in 1..Len(acc) : acc[j] \in Nat
        <5> HIDE DEF acc
        <5> QED
          BY <4>3
      <4>4. h = <<>> \/ h[Len(h)] <= thread[t].now - WindowLen
        BY <4>1 DEF Stale, Last
      <4>5. \A u \in Threads : CallOf(u, d) => u = t
        BY <4>1 DEF Calling, CallOf
      <4>6. CallOf(t, d) => thread[t].at \notin PastGet
        <5> SUFFICES ASSUME CallOf(t, d), thread[t].at \in PastGet PROVE FALSE
          OBVIOUS
        <5>1. CallFits(t, d) /\ thread[t].at \in Trims /\ thread[t].bucket = b
          BY <1>2, <4>1 DEF Remembered, PastGet, Trims
        <5>2. h # <<>> /\ h[Len(h)] = thread[t].now
          BY <5>1 DEF CallFits
        <5> HIDE DEF h, b, acc
        <5> QED
          BY <4>3, <4>4, <5>2
      <4>7. ASSUME NEW i \in DOMAIN acc PROVE acc[i] + WindowLen <= thread[t].now \/ Lost(i, d)
        <5> SUFFICES ASSUME ~Lost(i, d) PROVE acc[i] + WindowLen <= thread[t].now
          OBVIOUS
        <5>1. i > Len(acc) - Len(h) /\ i \in 1..Len(acc)
          <6>1. ~(i <= Len(acc) - Len(h))
            BY DEF Lost
          <6> HIDE DEF acc, h, b
          <6> QED
            BY <4>3, <4>7, <6>1
        <5>2. /\ Len(h) <= Len(acc)
              /\ \A j \in 1..Len(h) : h[j] = acc[Len(acc) - Len(h) + j]
          <6>1. bucketOf[d] # 0 /\ OneByOne(d)
            BY <1>3, <4>1 DEF Tracked
          <6>2. IsTail(bucketOf[d], d)
            BY <6>1 DEF OneByOne
          <6> QED
            BY <6>2 DEF IsTail
        <5>3. Len(h) \in 1..Len(h) /\ h # <<>>
          <6> HIDE DEF acc, h, b
          <6> QED
            BY <4>3, <5>1
        <5>4. h[Len(h)] = acc[Len(acc) - Len(h) + Len(h)]
          BY <5>2, <5>3
        <5>5. Len(acc) - Len(h) + Len(h) = Len(acc)
          BY <4>3
        <5>6. acc[i] <= acc[Len(acc)]
          <6>1. \A m, n \in DOMAIN acc : m <= n => acc[m] <= acc[n]
            BY <4>1 DEF OneByOne
          <6>2. i \in DOMAIN acc /\ Len(acc) \in DOMAIN acc /\ i <= Len(acc)
            <7> HIDE DEF acc, h, b
            <7> QED
              BY <4>3, <5>1
          <6> QED
            BY <6>1, <6>2
        <5>7. acc[i] \in Nat /\ acc[Len(acc)] \in Nat
          <6>1. i \in 1..Len(acc) /\ Len(acc) \in 1..Len(acc)
            <7> HIDE DEF acc, h, b
            <7> QED
              BY <4>3, <5>1
          <6> QED
            BY <4>3a, <6>1
        <5>8. acc[Len(acc)] <= thread[t].now - WindowLen
          <6> HIDE DEF acc, h, b
          <6> QED
            BY <4>4, <5>3, <5>4, <5>5
        <5>9. \A x, y, n, w \in Nat : x <= y /\ y <= n - w => x + w <= n
          OBVIOUS
        <5> HIDE DEF acc, h, b
        <5> QED
          BY <4>3, <5>6, <5>7, <5>8, <5>9, Zenon
      <4>8. ASSUME NEW i \in DOMAIN acc
            PROVE  /\ acc[i] + WindowLen <= clock
                   /\ \A u \in Threads : CallOf(u, d) => acc[i] + WindowLen <= thread[u].now
        <5>1. CASE Lost(i, d)
          BY <4>1, <5>1 DEF Remembered
        <5>2. CASE acc[i] + WindowLen <= thread[t].now
          <6>1. acc[i] + WindowLen \in Nat
            <7>1. acc[i] \in Nat
              BY <4>3, <4>3a, <4>8
            <7> HIDE DEF acc
            <7> QED
              BY <4>3, <7>1
          <6>2. acc[i] + WindowLen <= clock
            <7>1. clock \in Nat /\ thread[t].now \in Nat /\ thread[t].now <= clock
              BY <1>1, <4>3
            <7> HIDE DEF acc
            <7> QED
              BY <5>2, <6>1, <7>1
          <6> HIDE DEF acc
          <6> QED
            BY <4>5, <5>2, <6>2
        <5> QED
          BY <4>7, <5>1, <5>2
      <4>9. \A u \in Threads : ~(CallOf(u, d) /\ thread[u].at \in PastGet)
        BY <4>5, <4>6
      <4> QED
        BY <1>2, <2>3, <4>1, <4>2, <4>8, <4>9 DEF Remembered
    <3> QED
      BY <3>2, <3>3 DEF FairTo
  <2> QED
    BY <1>2, <2>5, <2>6, <2>7, <2>8, <2>9 DEF RateInv
<1>4. CASE d \notin Tracked
  <2>1. /\ thread' = [thread EXCEPT ![t] = NoCall] /\ bucketOf' = bucketOf
        /\ untrimmed' = IF thread[t].at \in {"trim_clean", "evict"} THEN untrimmed \cup {thread[t].bucket}
                        ELSE untrimmed
    BY <1>4 DEF Delete, Raise
  <2>2. /\ thread[t].at \in Trims => thread[t].at \in {"trim_clean", "evict"}
        /\ thread[t].at \notin PastGet \ Trims /\ raced \subseteq raced' /\ ~unjust'
    BY <1>2 DEF PastGet, Trims, RateInv
  <2> QED
    BY <1>2, <2>1, <2>2, RateEnds
<1> QED
  BY <1>3, <1>4

LEMMA RateGet ==
  ASSUME RateInv, NEW t \in Threads, Get(t) PROVE RateInv'
<1>0. RateTypes /\ BucketsApart /\ Roomy /\ \A e \in Clients : FairTo(e)
  BY DEF RateInv
<1>c. PICK c \in Clients : c = thread[t].key
  BY <1>0 DEF Get, RateTypes
<1>1. /\ thread \in [Threads -> Call] /\ clock \in Nat /\ hits \in Seq(Seq(Nat)) /\ Len(hits) \in Nat
      /\ bucketOf \in [Clients -> 0..Len(hits)] /\ bucketOf \in [Clients -> Nat]
  BY <1>0 DEF RateTypes
<1>b. PICK b \in 0..Len(hits) : b = bucketOf[c]
  BY <1>1
<1>2. /\ thread[t].at = "get" /\ thread[t] \in Call /\ thread[t].now <= clock
      /\ UNCHANGED <<clock, hits, bucketOf, accepted, evicted, raced, untrimmed, unjust>>
  BY <1>0, <1>1 DEF Get, RateTypes
<1>3. /\ thread'[t].at = (IF b = 0 THEN "insert" ELSE "move") /\ thread'[t].key = c
      /\ thread'[t].now = thread[t].now /\ thread'[t].bucket = b /\ thread' \in [Threads -> Call]
      /\ \A u \in Threads : u # t => thread'[u] = thread[u]
  <2> DEFINE call2 == [thread[t] EXCEPT !.bucket = b, !.at = IF b = 0 THEN "insert" ELSE "move"]
  <2>1. thread' = [thread EXCEPT ![t] = call2]
    BY <1>1, <1>b, <1>c DEF Get
  <2>2. /\ call2 \in Call /\ call2.key = c /\ call2.now = thread[t].now /\ call2.bucket = b
        /\ call2.at = IF b = 0 THEN "insert" ELSE "move"
    <3>1. b \in Nat /\ {"insert", "move"} \subseteq CallSteps
      BY <1>1, StepsApart
    <3> QED
      BY <1>2, <1>c, <3>1 DEF Call
  <2> HIDE DEF call2
  <2> QED
    BY <1>1, <2>1, <2>2
<1>4. /\ thread'[t].at \notin PastGet /\ thread[t].at \notin Holding /\ thread'[t].at \in {"insert", "move"}
      /\ thread'[t].at \notin {"idle", "append"} /\ thread'[t].at \notin Trims
      /\ thread'[t].at \in Holding => b \in 1..Len(hits)
      /\ thread[t].at \notin PastGet /\ thread[t].at \notin Trims
  <2>1. /\ {"insert", "move"} \cap (PastGet \cup Trims) = {} /\ "get" \notin Holding
        /\ "insert" \notin Holding
    BY DEF Holding, PastGet, Trims
  <2>2. b # 0 => b \in 1..Len(hits)
    BY <1>1
  <2> QED
    BY <1>2, <1>3, <2>1, <2>2, StepsApart
<1>5. RateTypes'
  <2>1. \A u \in Threads : /\ thread'[u].at # "idle" => thread'[u].key \in Clients /\ thread'[u].now <= clock
                           /\ thread'[u].at \in Holding => thread'[u].bucket \in 1..Len(hits)
    <3> TAKE u \in Threads
    <3>1. CASE u = t
      BY <1>2, <1>3, <1>4, <3>1
    <3>2. CASE u # t
      BY <1>0, <1>3, <3>2 DEF RateTypes
    <3> QED
      BY <3>1, <3>2
  <2> QED
    BY <1>0, <1>2, <1>3, <2>1 DEF RateTypes
<1>6. BucketsApart'
  <2>1. \A u \in Threads, e \in Clients :
          thread'[u].at \in Holding /\ bucketOf[e] = thread'[u].bucket => thread'[u].key = e
    <3> SUFFICES ASSUME NEW u \in Threads, NEW e \in Clients, thread'[u].at \in Holding,
                        bucketOf[e] = thread'[u].bucket
                 PROVE  thread'[u].key = e
      OBVIOUS
    <3>1. CASE u = t
      <4>1. b # 0 /\ bucketOf[e] = bucketOf[c]
        BY <1>1, <1>b, <1>3, <1>4, <3>1
      <4> QED
        BY <1>0, <1>b, <1>3, <3>1, <4>1 DEF BucketsApart
    <3>2. CASE u # t
      <4>1. thread'[u] = thread[u]
        BY <1>3, <3>2
      <4> QED
        BY <1>0, <4>1 DEF BucketsApart
    <3> QED
      BY <3>1, <3>2
  <2>2. \A u \in Threads : thread[u].at \in Holding /\ thread[u].bucket = b => thread[u].key = c
    BY <1>0, <1>b DEF BucketsApart
  <2>3. \A u, v \in Threads :
          thread'[u].at \in Holding /\ thread'[v].at \in Holding /\ thread'[u].bucket = thread'[v].bucket
            => thread'[u].key = thread'[v].key
    <3> SUFFICES ASSUME NEW u \in Threads, NEW v \in Threads, thread'[u].at \in Holding,
                        thread'[v].at \in Holding, thread'[u].bucket = thread'[v].bucket
                 PROVE  thread'[u].key = thread'[v].key
      OBVIOUS
    <3>1. CASE u = t \/ v = t
      BY <1>3, <2>2, <3>1
    <3>2. CASE u # t /\ v # t
      <4>1. thread'[u] = thread[u] /\ thread'[v] = thread[v]
        BY <1>3, <3>2
      <4> QED
        BY <1>0, <4>1 DEF BucketsApart
    <3> QED
      BY <3>1, <3>2
  <2>4. \A e, f \in Clients : bucketOf'[e] = bucketOf'[f] /\ bucketOf'[e] # 0 => e = f
    BY <1>0, <1>2 DEF BucketsApart
  <2> QED
    BY <1>2, <2>1, <2>3, <2>4 DEF BucketsApart
<1>7. Roomy'
  <2>1. \A u \in Threads : /\ thread[u].at \in Trims => thread'[u] = thread[u]
                           /\ thread[u].at \in PastGet => thread'[u] = thread[u]
    BY <1>3, <1>4
  <2> QED
    BY <1>0, <1>1, <1>2, <2>1, RoomSame
<1>8. ASSUME NEW e \in Clients, e # c PROVE FairTo(e)'
  <2>1. \A u \in Threads : thread'[u].at # "idle" /\ thread'[u].key = e => thread'[u] = thread[u]
    BY <1>3, <1>8
  <2>2. clock' \in Nat /\ clock' >= clock
    BY <1>1, <1>2
  <2> QED
    BY <1>0, <1>2, <2>1, <2>2, Untouched
<1>9. FairTo(c)'
  <2>0. FairTo(c) /\ CallOf(t, c)
    BY <1>c, <1>0, <1>2 DEF CallOf
  <2>1. \A u \in Threads : /\ CallOf(u, c)' <=> CallOf(u, c)
                           /\ thread'[u].now = thread[u].now
    BY <1>2, <1>3, <1>4, <2>0 DEF CallOf
  <2>2. ASSUME c \notin raced
        PROVE  /\ OneByOne(c)' /\ CallFits(t, c)'
               /\ \A u \in Threads : CallOf(u, c) => u = t
    <3>1. OneByOne(c) /\ CallFits(t, c)
      BY <2>0, <2>2 DEF FairTo
    <3>2. \A u \in Threads : CallOf(u, c) => u = t
      BY <2>0, <3>1 DEF OneByOne
    <3>3. OneByOne(c)'
      BY <1>2, <2>1, <3>1 DEF OneByOne, IsTail
    <3>4. b # 0 => IsTail(b, c)
      BY <1>b, <3>1 DEF OneByOne
    <3>5. thread'[t].at \in Holding => b # 0
      BY <1>3, StepsApart
    <3>6. thread'[t].at = "insert" => b = 0
      BY <1>3
    <3>7. CallFits(t, c)'
      BY <1>b, <1>2, <1>3, <1>4, <3>1, <3>4, <3>5, <3>6 DEF CallFits, IsTail
    <3> QED
      BY <3>2, <3>3, <3>7
  <2>3. ASSUME c \notin raced \cup evicted PROVE Remembered(c)'
    <3>1. Remembered(c)
      BY <2>0, <2>3 DEF FairTo
    <3>2. \A i \in DOMAIN accepted[c] : Lost(i, c)' => Lost(i, c)
      BY <1>2 DEF Lost
    <3>3. \A u \in Threads : CallOf(u, c)' /\ thread'[u].at \in PastGet => bucketOf'[c] = thread'[u].bucket
      BY <1>4, <2>1, <2>2, <2>3
    <3> QED
      BY <1>2, <2>1, <3>1, <3>2, <3>3 DEF Remembered
  <2> QED
    BY <1>2, <2>1, <2>2, <2>3 DEF FairTo
<1> QED
  BY <1>0, <1>2, <1>5, <1>6, <1>7, <1>8, <1>9 DEF RateInv

LEMMA RateInsert ==
  ASSUME RateInv, NEW t \in Threads, Insert(t) PROVE RateInv'
<1>0. RateTypes /\ BucketsApart /\ Roomy /\ \A e \in Clients : FairTo(e)
  BY DEF RateInv
<1>c. PICK c \in Clients : c = thread[t].key
  BY <1>0 DEF Insert, RateTypes
<1>1. /\ thread \in [Threads -> Call] /\ clock \in Nat /\ hits \in Seq(Seq(Nat)) /\ Len(hits) \in Nat
      /\ bucketOf \in [Clients -> 0..Len(hits)] /\ bucketOf \in [Clients -> Nat]
      /\ accepted \in [Clients -> Seq(Nat)] /\ untrimmed \in SUBSET (1..Len(hits))
  BY <1>0 DEF RateTypes
<1>2. /\ thread[t].at = "insert" /\ c \in Clients /\ thread[t] \in Call /\ thread[t].now <= clock
      /\ UNCHANGED <<clock, ops, accepted, evicted, raced, untrimmed, unjust>>
  BY <1>0, <1>1 DEF Insert, RateTypes
<1>3. /\ hits' = Append(hits, <<>>) /\ bucketOf' = [bucketOf EXCEPT ![c] = Len(hits')]
      /\ thread' = [thread EXCEPT ![t] = [thread[t] EXCEPT !.bucket = Len(hits'), !.at = "check"]]
  BY <1>1, <1>c DEF Insert
<1>4. /\ hits' \in Seq(Seq(Nat)) /\ Len(hits') \in Nat /\ Len(hits') >= Len(hits)
      /\ \A b \in 1..Len(hits) : hits'[b] = hits[b]
      /\ bucketOf' \in [Clients -> 0..Len(hits')] /\ bucketOf' \in [Clients -> Nat]
      /\ bucketOf'[c] \in 1..Len(hits')
      /\ \A e \in Clients : e # c => bucketOf'[e] = bucketOf[e]
  <2>1. /\ hits' \in Seq(Seq(Nat)) /\ Len(hits') = Len(hits) + 1
        /\ \A b \in 1..Len(hits) : hits'[b] = hits[b]
    <3>1. <<>> \in Seq(Nat) /\ hits' = Append(hits, <<>>)
      BY <1>3
    <3>2. Len(hits') = Len(hits) + 1 /\ \A b \in 1..Len(hits) : hits'[b] = hits[b]
      BY <1>1, <3>1
    <3>3. hits' \in Seq(Seq(Nat))
      BY <1>1, <3>1
    <3> QED
      BY <3>2, <3>3
  <2>2. bucketOf' = [bucketOf EXCEPT ![c] = Len(hits) + 1]
    BY <1>3, <2>1
  <2>3. bucketOf' \in [Clients -> 0..Len(hits) + 1]
    BY <1>1, <1>2, <2>2
  <2>4. bucketOf'[c] = Len(hits) + 1 /\ \A e \in Clients : e # c => bucketOf'[e] = bucketOf[e]
    BY <1>1, <1>2, <2>2
  <2>5. bucketOf' \in [Clients -> Nat]
    BY <1>1, <1>2, <2>2
  <2> QED
    BY <1>1, <2>1, <2>3, <2>4, <2>5
<1>5. /\ bucketOf'[c] = Len(hits) + 1 /\ Len(hits') = Len(hits) + 1
      /\ hits'[Len(hits) + 1] = <<>>
  BY <1>1, <1>2, <1>3
<1>6. /\ thread'[t].at = "check" /\ thread'[t].key = c /\ thread'[t].now = thread[t].now
      /\ thread'[t].bucket = bucketOf'[c] /\ thread' \in [Threads -> Call]
      /\ \A u \in Threads : u # t => thread'[u] = thread[u]
  <2> DEFINE call2 == [thread[t] EXCEPT !.bucket = Len(hits'), !.at = "check"]
  <2>1. "check" \in CallSteps /\ Len(hits') \in Nat /\ Len(hits') = bucketOf'[c]
    BY <1>4, <1>5, StepsApart
  <2>2. /\ call2 \in Call /\ call2.at = "check" /\ call2.key = c /\ call2.now = thread[t].now
        /\ call2.bucket = bucketOf'[c]
    BY <1>c, <1>2, <2>1 DEF Call
  <2>3. thread' = [thread EXCEPT ![t] = call2]
    BY <1>3
  <2> HIDE DEF call2
  <2> QED
    BY <1>1, <2>2, <2>3
<1>7. /\ "check" \in PastGet /\ "check" \notin Trims /\ "check" # "append" /\ "check" # "idle"
      /\ thread[t].at \notin PastGet /\ thread[t].at \notin Trims
      /\ Trims \subseteq PastGet /\ PastGet \subseteq Holding /\ "idle" \notin Holding
      /\ "check" \in Holding /\ "check" # "insert" /\ thread[t].at \notin Holding
  BY <1>2, StepsApart
<1>8. \A u \in Threads : thread[u].at \in Holding => thread[u].bucket \in 1..Len(hits) /\ thread'[u] = thread[u]
  BY <1>0, <1>6, <1>7 DEF RateTypes
<1>9. RateTypes'
  <2>1. \A u \in Threads : /\ thread'[u].at # "idle" => thread'[u].key \in Clients /\ thread'[u].now <= clock
                           /\ thread'[u].at \in Holding => thread'[u].bucket \in 1..Len(hits')
    <3> TAKE u \in Threads
    <3>1. CASE u = t
      BY <1>2, <1>4, <1>6, <3>1
    <3>2. CASE u # t
      <4>1. thread'[u] = thread[u]
        BY <1>6, <3>2
      <4> QED
        BY <1>0, <1>1, <1>4, <4>1 DEF RateTypes
    <3> QED
      BY <3>1, <3>2
  <2>2. untrimmed' \in SUBSET (1..Len(hits'))
    BY <1>1, <1>2, <1>4
  <2> QED
    BY <1>1, <1>2, <1>4, <1>6, <2>1, <2>2 DEF RateTypes
<1>10. BucketsApart'
  <2>1. \A e \in Clients : bucketOf'[e] = bucketOf'[c] => e = c
    <3> SUFFICES ASSUME NEW e \in Clients, e # c, bucketOf'[e] = bucketOf'[c] PROVE FALSE
      OBVIOUS
    <3>1. bucketOf[e] = bucketOf'[c] /\ bucketOf[e] \in 0..Len(hits)
      BY <1>1, <1>4
    <3> QED
      BY <1>1, <1>5, <3>1
  <2>2. \A e, f \in Clients : bucketOf'[e] = bucketOf'[f] /\ bucketOf'[e] # 0 => e = f
    <3> SUFFICES ASSUME NEW e \in Clients, NEW f \in Clients, bucketOf'[e] = bucketOf'[f],
                        bucketOf'[e] # 0, e # c, f # c
                 PROVE  e = f
      BY <2>1
    <3>1. bucketOf'[e] = bucketOf[e] /\ bucketOf'[f] = bucketOf[f]
      BY <1>4
    <3> QED
      BY <1>0, <3>1 DEF BucketsApart
  <2>3. \A u \in Threads : thread'[u].at \in Holding /\ thread'[u].bucket = bucketOf'[c] => thread'[u].key = c
    <3> SUFFICES ASSUME NEW u \in Threads, u # t, thread'[u].at \in Holding, thread'[u].bucket = bucketOf'[c]
                 PROVE  thread'[u].key = c
      BY <1>6
    <3>1. thread'[u] = thread[u] /\ thread[u].bucket \in 1..Len(hits) /\ thread[u].at \in Holding
      BY <1>6, <1>8
    <3> QED
      BY <1>1, <1>5, <3>1
  <2>4. \A u \in Threads, e \in Clients :
          thread'[u].at \in Holding /\ bucketOf'[e] = thread'[u].bucket => thread'[u].key = e
    <3> SUFFICES ASSUME NEW u \in Threads, NEW e \in Clients, thread'[u].at \in Holding,
                        bucketOf'[e] = thread'[u].bucket
                 PROVE  thread'[u].key = e
      OBVIOUS
    <3>1. CASE u = t
      BY <1>6, <2>1, <3>1
    <3>2. CASE e = c
      BY <2>3, <3>2
    <3>3. CASE u # t /\ e # c
      <4>1. thread'[u] = thread[u] /\ bucketOf'[e] = bucketOf[e]
        BY <1>4, <1>6, <3>3
      <4> QED
        BY <1>0, <4>1 DEF BucketsApart
    <3> QED
      BY <3>1, <3>2, <3>3
  <2>5. \A u, v \in Threads :
          thread'[u].at \in Holding /\ thread'[v].at \in Holding /\ thread'[u].bucket = thread'[v].bucket
            => thread'[u].key = thread'[v].key
    <3> SUFFICES ASSUME NEW u \in Threads, NEW v \in Threads, thread'[u].at \in Holding,
                        thread'[v].at \in Holding, thread'[u].bucket = thread'[v].bucket
                 PROVE  thread'[u].key = thread'[v].key
      OBVIOUS
    <3>1. CASE u = t \/ v = t
      BY <1>6, <2>3, <3>1
    <3>2. CASE u # t /\ v # t
      <4>1. thread'[u] = thread[u] /\ thread'[v] = thread[v]
        BY <1>6, <3>2
      <4> QED
        BY <1>0, <4>1 DEF BucketsApart
    <3> QED
      BY <3>1, <3>2
  <2> QED
    BY <2>2, <2>4, <2>5 DEF BucketsApart
<1>11. Roomy'
  <2>1. \A e \in Clients : bucketOf'[e] \notin {0, bucketOf[e]} =>
          bucketOf'[e] > Len(hits)
            /\ \E u \in Threads : thread'[u].at \in PastGet /\ thread'[u].bucket = bucketOf'[e]
    <3> SUFFICES ASSUME NEW e \in Clients, bucketOf'[e] \notin {0, bucketOf[e]}
                 PROVE  bucketOf'[e] > Len(hits) /\ bucketOf'[e] = thread'[t].bucket /\ thread'[t].at \in PastGet
      OBVIOUS
    <3>1. e = c
      BY <1>4
    <3> QED
      BY <1>1, <1>5, <1>6, <1>7, <3>1
  <2>2. \A b \in 1..Len(hits') : hits'[b] # <<>> =>
           \/ b <= Len(hits) /\ hits[b] # <<>>
           \/ \E u \in Threads : thread'[u].at \in Trims /\ thread'[u].bucket = b
    <3> SUFFICES ASSUME NEW b \in 1..Len(hits'), hits'[b] # <<>> PROVE b <= Len(hits)
      <4>1. \A b \in 1..Len(hits') : b <= Len(hits) => b \in 1..Len(hits)
        BY <1>1, <1>4
      <4> QED
        BY <1>4, <4>1
    <3> QED
      BY <1>1, <1>5
  <2>3. \A b \in 1..Len(hits) : hits[b] # <<>> =>
           hits'[b] # <<>> \/ \E u \in Threads : thread'[u].at \in PastGet /\ thread'[u].bucket = b
    BY <1>4
  <2>4. /\ \A u \in Threads : thread[u].at \in Trims =>
              \/ thread'[u].at \in Trims /\ thread'[u].bucket = thread[u].bucket
              \/ thread[u].bucket \in untrimmed'
        /\ \A u \in Threads : thread[u].at \in PastGet =>
              \/ thread'[u].at \in PastGet /\ thread'[u].bucket = thread[u].bucket
              \/ thread[u].bucket \in untrimmed' \/ hits'[thread[u].bucket] # <<>>
    BY <1>7, <1>8
  <2>5. untrimmed \subseteq untrimmed'
    BY <1>2
  <2> QED
    BY <1>0, <1>4, <2>1, <2>2, <2>3, <2>4, <2>5, RoomKept
<1>12. ASSUME NEW e \in Clients, e # c PROVE FairTo(e)'
  <2>1. bucketOf'[e] = bucketOf[e] /\ (bucketOf[e] # 0 => hits'[bucketOf[e]] = hits[bucketOf[e]])
    <3>1. bucketOf[e] # 0 => bucketOf[e] \in 1..Len(hits)
      BY <1>1
    <3> QED
      BY <1>4, <1>12, <3>1
  <2>2. \A u \in Threads : thread'[u].at # "idle" /\ thread'[u].key = e => thread'[u] = thread[u]
    BY <1>6, <1>12
  <2>3. \A u \in Threads : thread[u].at \in Holding => hits'[thread[u].bucket] = hits[thread[u].bucket]
    BY <1>4, <1>8
  <2>4. /\ clock' \in Nat /\ clock' >= clock /\ accepted'[e] = accepted[e]
        /\ raced \subseteq raced' /\ evicted \subseteq evicted'
    BY <1>1, <1>2
  <2> QED
    BY <1>0, <2>1, <2>2, <2>3, <2>4, Untouched
<1>13. FairTo(c)'
  <2> DEFINE b == bucketOf'[c]
  <2>0. FairTo(c) /\ CallOf(t, c) /\ accepted' = accepted /\ raced' = raced /\ evicted' = evicted
    BY <1>c, <1>0, <1>2 DEF CallOf
  <2>1. \A u \in Threads : /\ CallOf(u, c)' <=> CallOf(u, c)
                           /\ thread'[u].now = thread[u].now
    BY <1>2, <1>6, <2>0 DEF CallOf
  <2>2. ASSUME c \notin raced
        PROVE  /\ OneByOne(c)' /\ CallFits(t, c)'
               /\ \A u \in Threads : CallOf(u, c) => u = t
    <3>1. OneByOne(c) /\ CallFits(t, c)
      BY <2>0, <2>2 DEF FairTo
    <3>2. /\ Len(hits'[b]) <= Len(accepted[c])
          /\ \A i \in 1..Len(hits'[b]) : hits'[b][i] = accepted[c][Len(accepted[c]) - Len(hits'[b]) + i]
      <4>1. Len(accepted[c]) \in Nat /\ hits'[b] = <<>>
        BY <1>1, <1>2, <1>5
      <4> QED
        BY <4>1
    <3>3. \A u \in Threads : CallOf(u, c) => u = t
      BY <2>0, <3>1 DEF OneByOne
    <3>4. OneByOne(c)'
      BY <1>2, <2>0, <2>1, <3>1, <3>2 DEF OneByOne, IsTail
    <3>5. CallFits(t, c)'
      BY <1>6, <1>7, <2>0, <3>1, <3>2 DEF CallFits, IsTail
    <3> QED
      BY <3>3, <3>4, <3>5
  <2>3. ASSUME c \notin raced \cup evicted PROVE Remembered(c)'
    <3>1. Remembered(c)
      BY <2>0, <2>3 DEF FairTo
    <3>2. \A i \in DOMAIN accepted[c] : Lost(i, c)
      <4>1. CallFits(t, c)
        BY <2>0, <2>3 DEF FairTo
      <4> QED
        BY <1>2, <4>1 DEF CallFits, Lost
    <3>3. \A u \in Threads : CallOf(u, c)' /\ thread'[u].at \in PastGet => bucketOf'[c] = thread'[u].bucket
      BY <1>6, <2>1, <2>2, <2>3
    <3> QED
      BY <1>2, <2>0, <2>1, <3>1, <3>2, <3>3 DEF Remembered
  <2> QED
    BY <2>0, <2>1, <2>2, <2>3 DEF FairTo
<1> QED
  BY <1>2, <1>9, <1>10, <1>11, <1>12, <1>13 DEF RateInv

LEMMA RateMove ==
  ASSUME RateInv, NEW t \in Threads, Move(t) PROVE RateInv'
<1>0. RateTypes /\ BucketsApart /\ Roomy /\ ~unjust /\ \A e \in Clients : FairTo(e)
  BY DEF RateInv
<1>c. PICK c \in Clients : c = thread[t].key
  BY <1>0 DEF Move, RateTypes
<1>1. /\ thread \in [Threads -> Call] /\ clock \in Nat /\ bucketOf \in [Clients -> Nat]
      /\ hits \in Seq(Seq(Nat))
  BY <1>0 DEF RateTypes
<1>2. /\ thread[t].at = "move" /\ thread[t] \in Call
      /\ UNCHANGED <<clock, hits, bucketOf, accepted, evicted, raced, unjust>>
      /\ "move" \notin PastGet /\ "move" \notin Trims /\ "move" \in Holding
  BY <1>0, <1>1, StepsApart DEF Move
<1>3. CASE c \notin Tracked
  <2>1. /\ thread' = [thread EXCEPT ![t] = NoCall]
        /\ untrimmed' = IF thread[t].at \in {"trim_clean", "evict"} THEN untrimmed \cup {thread[t].bucket}
                        ELSE untrimmed
    BY <1>c, <1>3 DEF Move, Raise
  <2> QED
    BY <1>0, <1>2, <2>1, RateEnds
<1>4. CASE c \in Tracked
  <2>1. thread' = [thread EXCEPT ![t] = [thread[t] EXCEPT !.at = "check"]] /\ untrimmed' = untrimmed
    BY <1>c, <1>1, <1>4 DEF Move
  <2>2. /\ thread'[t].at = "check" /\ thread'[t].key = c /\ thread'[t].now = thread[t].now
        /\ thread'[t].bucket = thread[t].bucket /\ thread' \in [Threads -> Call]
        /\ \A u \in Threads : u # t => thread'[u] = thread[u]
    <3> DEFINE call2 == [thread[t] EXCEPT !.at = "check"]
    <3>1. /\ call2 \in Call /\ call2.at = "check" /\ call2.key = c /\ call2.now = thread[t].now
          /\ call2.bucket = thread[t].bucket
      <4>1. "check" \in CallSteps
        BY StepsApart
      <4> QED
        BY <1>c, <1>2, <4>1 DEF Call
    <3>2. thread' = [thread EXCEPT ![t] = call2]
      BY <2>1
    <3> HIDE DEF call2
    <3> QED
      BY <1>1, <3>1, <3>2
  <2>3. \A u \in Threads : /\ thread'[u].at # "idle" <=> thread[u].at # "idle"
                           /\ thread'[u].key = thread[u].key /\ thread'[u].now = thread[u].now
                           /\ thread'[u].bucket = thread[u].bucket
                           /\ thread'[u].at \in Holding <=> thread[u].at \in Holding
                           /\ thread[u].at \in PastGet => thread'[u].at \in PastGet
                           /\ thread[u].at \in Trims => thread'[u].at \in Trims
    <3> TAKE u \in Threads
    <3>1. CASE u = t
      BY <1>c, <1>2, <2>2, <3>1, StepsApart
    <3>2. CASE u # t
      BY <2>2, <3>2
    <3> QED
      BY <3>1, <3>2
  <2>4. RateTypes'
    <3>1. \A u \in Threads : /\ thread'[u].at # "idle" => thread'[u].key \in Clients /\ thread'[u].now <= clock
                             /\ thread'[u].at \in Holding => thread'[u].bucket \in 1..Len(hits)
      BY <1>0, <2>3 DEF RateTypes
    <3> QED
      BY <1>0, <1>2, <2>1, <2>2, <3>1 DEF RateTypes
  <2>5. BucketsApart'
    <3>1. \A u \in Threads : thread[u].at \in Holding => thread[u].bucket # 0
      BY <1>0 DEF RateTypes
    <3> QED
      BY <1>0, <1>2, <2>3, <3>1, ApartKept
  <2>6. Roomy'
    BY <1>0, <1>1, <1>2, <2>1, <2>3, RoomSame
  <2>7. ASSUME NEW e \in Clients, e # c PROVE FairTo(e)'
    <3>1. \A u \in Threads : thread'[u].at # "idle" /\ thread'[u].key = e => thread'[u] = thread[u]
      BY <2>2, <2>7
    <3>2. clock' \in Nat /\ clock' >= clock
      BY <1>1, <1>2
    <3> QED
      BY <1>0, <1>2, <3>1, <3>2, Untouched
  <2>8. FairTo(c)'
    <3>0. FairTo(c) /\ CallOf(t, c) /\ bucketOf[c] # 0
      BY <1>c, <1>0, <1>2, <1>4 DEF CallOf, Tracked
    <3>1. \A u \in Threads : CallOf(u, c)' <=> CallOf(u, c)
      BY <2>3 DEF CallOf
    <3>2. ASSUME c \notin raced
          PROVE  /\ OneByOne(c)' /\ CallFits(t, c)' /\ bucketOf[c] = thread[t].bucket
                 /\ \A u \in Threads : CallOf(u, c) => u = t
      <4>1. OneByOne(c) /\ CallFits(t, c)
        BY <3>0, <3>2 DEF FairTo
      <4>2. \A u \in Threads : CallOf(u, c) => u = t
        BY <3>0, <4>1 DEF OneByOne
      <4>3. OneByOne(c)'
        BY <1>2, <3>1, <4>1 DEF OneByOne, IsTail
      <4>4. IsTail(thread[t].bucket, c) /\ bucketOf[c] = thread[t].bucket
        BY <1>2, <3>0, <4>1 DEF CallFits
      <4>5. CallFits(t, c)'
        BY <1>2, <2>2, <4>1, <4>4, StepsApart DEF CallFits, IsTail
      <4> QED
        BY <4>2, <4>3, <4>4, <4>5
    <3>3. ASSUME c \notin raced \cup evicted PROVE Remembered(c)'
      <4>1. Remembered(c)
        BY <3>0, <3>3 DEF FairTo
      <4>2. \A i \in DOMAIN accepted[c] : Lost(i, c)' => Lost(i, c)
        BY <1>2 DEF Lost
      <4>3. \A u \in Threads : CallOf(u, c)' => bucketOf'[c] = thread'[u].bucket
        BY <1>2, <2>3, <3>1, <3>2, <3>3
      <4> QED
        BY <1>2, <2>3, <3>1, <4>1, <4>2, <4>3 DEF Remembered
    <3> QED
      BY <1>2, <3>1, <3>2, <3>3 DEF FairTo
  <2> QED
    BY <1>0, <1>2, <2>4, <2>5, <2>6, <2>7, <2>8 DEF RateInv
<1> QED
  BY <1>3, <1>4

\* A call that finds its bucket full has found HitLimit accepted calls in its window.
LEMMA FullIsFull ==
  ASSUME NEW acc \in Seq(Nat), NEW h \in Seq(Nat), NEW now \in Nat, Len(h) <= Len(acc),
         \A i \in 1..Len(h) : h[i] = acc[Len(acc) - Len(h) + i],
         \A i, j \in DOMAIN acc : i <= j => acc[i] <= acc[j],
         h # <<>>, h[1] > now - WindowLen
  PROVE  Len(h) <= Within(acc, now - WindowLen)
<1> DEFINE m == Len(acc) - Len(h) + 1
           late == {i \in DOMAIN acc : acc[i] > now - WindowLen}
<1>1. /\ Len(acc) \in Nat /\ Len(h) \in Nat /\ Len(h) > 0 /\ m \in 1..Len(acc) /\ DOMAIN acc = 1..Len(acc)
      /\ WindowLen \in Nat /\ \A i \in DOMAIN acc : acc[i] \in Nat
  BY RateNumbers
<1>2. acc[m] > now - WindowLen
  <2>1. 1 \in 1..Len(h) /\ Len(acc) - Len(h) + 1 = m
    BY <1>1
  <2>2. h[1] = acc[m]
    BY <2>1
  <2> QED
    BY <2>2
<1>3. m..Len(acc) \in SUBSET late
  <2> SUFFICES ASSUME NEW i \in m..Len(acc) PROVE i \in 1..Len(acc) /\ acc[i] > now - WindowLen
    BY <1>1
  <2>1. i \in 1..Len(acc) /\ m <= i
    BY <1>1
  <2>2. acc[m] <= acc[i] /\ acc[i] \in Nat /\ acc[m] \in Nat
    BY <1>1, <2>1
  <2> HIDE DEF m
  <2> QED
    BY <1>1, <1>2, <2>1, <2>2
<1>4. IsFiniteSet(late) /\ Cardinality(m..Len(acc)) = Len(h)
  <2>1. IsFiniteSet(1..Len(acc)) /\ late \in SUBSET (1..Len(acc))
    BY <1>1, FS_Interval
  <2>2. IsFiniteSet(late)
    <3> HIDE DEF late
    <3> QED
      BY <2>1, FS_Subset
  <2>3. m \in Int /\ Len(acc) \in Int /\ m <= Len(acc) /\ Len(acc) - m + 1 = Len(h)
    BY <1>1
  <2>4. Cardinality(m..Len(acc)) = Len(acc) - m + 1
    <3> HIDE DEF m
    <3> QED
      BY <2>3, FS_Interval
  <2> QED
    BY <2>2, <2>3, <2>4
<1> DEFINE range == m..Len(acc)
<1>5. range \in SUBSET late /\ Cardinality(range) = Len(h)
  BY <1>3, <1>4
<1> HIDE DEF late, range
<1>6. Cardinality(range) <= Cardinality(late)
  BY <1>4, <1>5, FS_Subset
<1> QED
  BY <1>5, <1>6 DEF Within, late

LEMMA RatePop ==
  ASSUME RateInv, NEW t \in Threads, Pop(t) PROVE RateInv'
<1>0. RateTypes /\ BucketsApart /\ Roomy /\ ~unjust /\ \A e \in Clients : FairTo(e)
  BY DEF RateInv
<1>1. /\ thread \in [Threads -> Call] /\ clock \in Nat /\ hits \in Seq(Seq(Nat)) /\ Len(hits) \in Nat
      /\ bucketOf \in [Clients -> 0..Len(hits)] /\ bucketOf \in [Clients -> Nat]
      /\ accepted \in [Clients -> Seq(Nat)]
  BY <1>0 DEF RateTypes
<1>2. /\ thread[t].at = "check" /\ thread[t] \in Call
      /\ "check" \in PastGet /\ "check" \in Holding /\ "check" \notin Trims
      /\ UNCHANGED <<clock, bucketOf, thread, accepted, evicted, raced, untrimmed, unjust>>
  BY <1>1, StepsApart DEF Pop
<1>c. PICK c \in Clients : c = thread[t].key
  BY <1>0, <1>2 DEF RateTypes
<1>b. PICK b \in 1..Len(hits) : b = thread[t].bucket
  BY <1>0, <1>2 DEF RateTypes
<1>n. PICK now \in Nat : now = thread[t].now
  BY <1>2 DEF Call
<1>h. PICK h \in Seq(Nat) : h = hits[b]
  BY <1>1
<1>a. PICK acc \in Seq(Nat) : acc = accepted[c]
  BY <1>1
<1>3. h # <<>> /\ Head(h) <= now - WindowLen /\ hits' = [hits EXCEPT ![b] = Tail(h)]
  BY <1>1, <1>b, <1>h, <1>n DEF Pop, Expired
<1>k. PICK kept \in Seq(Nat) : kept = Tail(h)
  BY <1>3, TailIs
<1>4. /\ hits' \in Seq(Seq(Nat)) /\ Len(hits') = Len(hits) /\ hits'[b] = kept
      /\ \A x \in 1..Len(hits) : x # b => hits'[x] = hits[x]
  BY <1>1, <1>3, <1>k
<1>5. /\ Len(kept) = Len(h) - 1 /\ Len(h) \in Nat /\ Len(h) > 0 /\ Len(acc) \in Nat /\ Len(kept) \in Nat
      /\ \A i \in 1..Len(h) - 1 : kept[i] = h[i + 1]
      /\ h[1] <= now - WindowLen
  BY <1>3, <1>k, TailIs
<1>6. \A u \in Threads : thread[u].at \in Holding => thread[u].bucket \in 1..Len(hits)
  BY <1>0 DEF RateTypes
<1>7. RateTypes'
  BY <1>0, <1>2, <1>4 DEF RateTypes
<1>8. BucketsApart'
  BY <1>0, <1>2 DEF BucketsApart
<1>9. Roomy'
  <2>1. \A x \in 1..Len(hits') : hits'[x] # <<>> =>
           \/ x <= Len(hits) /\ hits[x] # <<>>
           \/ \E u \in Threads : thread'[u].at \in Trims /\ thread'[u].bucket = x
    <3> SUFFICES ASSUME NEW x \in 1..Len(hits') PROVE x <= Len(hits) /\ (hits'[x] # <<>> => hits[x] # <<>>)
      OBVIOUS
    <3>1. x \in 1..Len(hits) /\ x <= Len(hits)
      BY <1>1, <1>4
    <3> QED
      BY <1>3, <1>4, <1>h, <3>1
  <2>2. \A x \in 1..Len(hits) : hits[x] # <<>> =>
           hits'[x] # <<>> \/ \E u \in Threads : thread'[u].at \in PastGet /\ thread'[u].bucket = x
    <3> TAKE x \in 1..Len(hits)
    <3>1. CASE x = b
      BY <1>2, <1>b, <3>1
    <3>2. CASE x # b
      BY <1>4, <3>2
    <3> QED
      BY <3>1, <3>2
  <2>3. /\ untrimmed \subseteq untrimmed' /\ Len(hits') >= Len(hits) /\ bucketOf' \in [Clients -> Nat]
        /\ bucketOf' = bucketOf /\ thread' = thread
    BY <1>1, <1>2, <1>4
  <2> QED
    BY <1>0, <1>4, <2>1, <2>2, <2>3, RoomKept
<1>10. ASSUME NEW e \in Clients, e # c PROVE FairTo(e)'
  <2>1. bucketOf[e] # 0 => hits'[bucketOf[e]] = hits[bucketOf[e]]
    <3>1. bucketOf[e] # b
      BY <1>0, <1>2, <1>b, <1>c, <1>10 DEF BucketsApart
    <3>2. bucketOf[e] # 0 => bucketOf[e] \in 1..Len(hits)
      BY <1>1
    <3> QED
      BY <1>4, <3>1, <3>2
  <2>2. \A u \in Threads : thread[u].key = e /\ thread[u].at \in Holding =>
          hits'[thread[u].bucket] = hits[thread[u].bucket]
    <3> SUFFICES ASSUME NEW u \in Threads, thread[u].key = e, thread[u].at \in Holding
                 PROVE  hits'[thread[u].bucket] = hits[thread[u].bucket]
      OBVIOUS
    <3>1. thread[u].bucket # b
      BY <1>0, <1>2, <1>b, <1>c, <1>10 DEF BucketsApart
    <3> QED
      BY <1>4, <1>6, <3>1
  <2>3. clock' \in Nat /\ clock' >= clock
    BY <1>1, <1>2
  <2> QED
    BY <1>0, <1>2, <2>1, <2>2, <2>3, Untouched
<1>11. FairTo(c)'
  <2>0. FairTo(c) /\ CallOf(t, c) /\ now <= clock
    BY <1>0, <1>2, <1>c, <1>n, StepsApart DEF CallOf, RateTypes
  <2>1. \A u \in Threads : CallOf(u, c)' <=> CallOf(u, c)
    BY <1>2 DEF CallOf
  <2>2. ASSUME c \notin raced
        PROVE  /\ OneByOne(c) /\ CallFits(t, c) /\ bucketOf[c] \in {0, b} /\ Len(h) <= Len(acc)
               /\ \A i \in 1..Len(h) : h[i] = acc[Len(acc) - Len(h) + i]
               /\ IsTail(b, c)'
               /\ \A u \in Threads : CallOf(u, c) => u = t
    <3>1. OneByOne(c) /\ CallFits(t, c)
      BY <2>0, <2>2 DEF FairTo
    <3>2. IsTail(b, c) /\ bucketOf[c] \in {0, b}
      BY <1>2, <1>b, <3>1 DEF CallFits
    <3>3. Len(h) <= Len(acc) /\ \A i \in 1..Len(h) : h[i] = acc[Len(acc) - Len(h) + i]
      BY <1>h, <1>a, <3>2 DEF IsTail
    <3>4. Len(kept) <= Len(acc)
      BY <1>5, <3>3
    <3>5. \A i \in 1..Len(kept) : kept[i] = acc[Len(acc) - Len(kept) + i]
      <4> TAKE i \in 1..Len(kept)
      <4>1. i \in 1..Len(h) - 1 /\ i + 1 \in 1..Len(h)
        BY <1>5
      <4>2. kept[i] = acc[Len(acc) - Len(h) + (i + 1)]
        BY <1>5, <3>3, <4>1
      <4>3. Len(acc) - Len(h) + (i + 1) = Len(acc) - Len(kept) + i
        BY <1>5
      <4> QED
        BY <4>2, <4>3
    <3>6. IsTail(b, c)'
      BY <1>2, <1>4, <1>a, <3>4, <3>5 DEF IsTail
    <3>7. \A u \in Threads : CallOf(u, c) => u = t
      BY <2>0, <3>1 DEF OneByOne
    <3> QED
      BY <3>1, <3>2, <3>3, <3>6, <3>7
  <2>3. ASSUME c \notin raced PROVE OneByOne(c)'
    <3>1. bucketOf'[c] # 0 => bucketOf'[c] = b
      BY <1>2, <2>2, <2>3
    <3> QED
      BY <1>2, <2>1, <2>2, <2>3, <3>1 DEF OneByOne
  <2>4. ASSUME c \notin raced PROVE CallFits(t, c)'
    <3>1. thread'[t].at = "check" /\ thread'[t].bucket = b /\ bucketOf' = bucketOf /\ accepted' = accepted
          /\ thread'[t].now = thread[t].now
      BY <1>2, <1>b
    <3>2. \A i \in DOMAIN accepted[c] : accepted[c][i] <= thread[t].now
      BY <2>2, <2>4 DEF CallFits
    <3> QED
      BY <1>2, <2>2, <2>4, <3>1, <3>2 DEF CallFits
  <2>5. ASSUME c \notin raced \cup evicted PROVE Remembered(c)'
    <3>1. Remembered(c)
      BY <2>0, <2>5 DEF FairTo
    <3>2. bucketOf[c] = b
      BY <1>2, <1>b, <2>0, <3>1 DEF Remembered
    <3>3. ASSUME NEW i \in DOMAIN acc, Lost(i, c)' PROVE acc[i] + WindowLen <= now
      <4>0. i \in 1..Len(acc) /\ acc[i] \in Nat /\ WindowLen \in Nat
        BY RateNumbers
      <4>1. i <= Len(acc) - Len(kept)
        <5>1. b # 0 /\ bucketOf'[c] = b /\ accepted'[c] = acc
          BY <1>1, <1>2, <1>a, <3>2
        <5> QED
          BY <1>4, <3>3, <5>1 DEF Lost
      <4>2. CASE i <= Len(acc) - Len(h)
        <5>1. Lost(i, c)
          BY <1>a, <1>h, <3>2, <4>2 DEF Lost
        <5> QED
          BY <1>a, <1>n, <2>0, <3>1, <5>1 DEF Remembered
      <4>3. CASE i = Len(acc) - Len(h) + 1
        <5>1. h[1] = acc[Len(acc) - Len(h) + 1]
          BY <1>5, <2>2, <2>5
        <5>2. acc[i] <= now - WindowLen
          BY <1>5, <4>3, <5>1
        <5> QED
          BY <4>0, <5>2
      <4>4. \A a, l, k, j \in Nat : k = l - 1 /\ j <= a - k => j <= a - l \/ j = a - l + 1
        OBVIOUS
      <4>5. i \in Nat /\ Len(kept) = Len(h) - 1 /\ Len(h) \in Nat /\ Len(acc) \in Nat /\ Len(kept) \in Nat
        BY <1>5, <4>0
      <4>6. i <= Len(acc) - Len(h) \/ i = Len(acc) - Len(h) + 1
        BY <4>1, <4>4, <4>5, Zenon
      <4> QED
        BY <4>2, <4>3, <4>6, Zenon
    <3>4. ASSUME NEW i \in DOMAIN acc, Lost(i, c)'
          PROVE  /\ acc[i] + WindowLen <= clock
                 /\ \A u \in Threads : CallOf(u, c)' => acc[i] + WindowLen <= thread'[u].now
      <4>1. acc[i] + WindowLen <= now /\ acc[i] + WindowLen \in Nat
        BY <3>3, <3>4, RateNumbers
      <4>2. \A u \in Threads : CallOf(u, c)' => thread'[u].now = now
        BY <1>2, <1>n, <2>1, <2>2, <2>5
      <4>3. acc[i] + WindowLen <= clock
        BY <1>1, <2>0, <4>1
      <4> QED
        BY <4>1, <4>2, <4>3
    <3>5. \A u \in Threads : CallOf(u, c)' => bucketOf'[c] = thread'[u].bucket
      BY <1>2, <1>b, <2>1, <2>2, <2>5, <3>2
    <3>6. \A i \in DOMAIN acc : i + HitLimit \in DOMAIN acc => acc[i] + WindowLen <= acc[i + HitLimit]
      BY <1>a, <3>1 DEF Remembered
    <3> QED
      BY <1>2, <1>a, <3>4, <3>5, <3>6 DEF Remembered
  <2> QED
    BY <1>2, <2>1, <2>2, <2>3, <2>4, <2>5 DEF FairTo
<1> QED
  BY <1>0, <1>2, <1>7, <1>8, <1>9, <1>10, <1>11 DEF RateInv

LEMMA RateDecide ==
  ASSUME RateInv, NEW t \in Threads, Decide(t) PROVE RateInv'
<1>0. RateTypes /\ BucketsApart /\ Roomy /\ ~unjust /\ \A e \in Clients : FairTo(e)
  BY DEF RateInv
<1>1. /\ thread \in [Threads -> Call] /\ hits \in Seq(Seq(Nat)) /\ accepted \in [Clients -> Seq(Nat)]
  BY <1>0 DEF RateTypes
<1>2. /\ thread[t].at = "check" /\ thread[t] \in Call
      /\ "check" \in PastGet /\ "check" \in Holding /\ "check" \notin Trims
      /\ "append" \in PastGet /\ "append" \in Holding /\ "append" \notin Trims /\ "append" \in CallSteps
      /\ UNCHANGED <<clock, hits, bucketOf, accepted, evicted, raced, untrimmed>>
  BY <1>1, StepsApart DEF Decide
<1>c. PICK c \in Clients : c = thread[t].key
  BY <1>0, <1>2 DEF RateTypes
<1>b. PICK b \in 1..Len(hits) : b = thread[t].bucket
  BY <1>0, <1>2 DEF RateTypes
<1>n. PICK now \in Nat : now = thread[t].now
  BY <1>2 DEF Call
<1>h. PICK h \in Seq(Nat) : h = hits[b]
  BY <1>1
<1>a. PICK acc \in Seq(Nat) : acc = accepted[c]
  BY <1>1
<1>3. Len(h) \in Nat /\ (h # <<>> => Head(h) = h[1] /\ h[1] \in Nat) /\ WindowLen \in Nat
      /\ HitLimit \in Nat /\ HitLimit > 0
  BY TailIs, RateNumbers
<1>4. ~(h # <<>> /\ Head(h) <= now - WindowLen)
  BY <1>b, <1>h, <1>n DEF Decide, Expired
<1>5. h # <<>> => h[1] > now - WindowLen
  BY <1>3, <1>4
<1>6. CASE Len(h) >= HitLimit
  <2>1. /\ thread' = [thread EXCEPT ![t] = NoCall]
        /\ unjust' = (unjust \/ (c \notin raced /\ Within(acc, now - WindowLen) < HitLimit))
    BY <1>6, <1>c, <1>b, <1>n, <1>h, <1>a DEF Decide
  <2>2. h # <<>>
    BY <1>3, <1>6
  <2>3. ASSUME c \notin raced PROVE ~(Within(acc, now - WindowLen) < HitLimit)
    <3>1. CallOf(t, c) /\ FairTo(c)
      BY <1>0, <1>2, <1>c DEF CallOf
    <3>2. OneByOne(c) /\ CallFits(t, c)
      BY <2>3, <3>1 DEF FairTo
    <3>3. IsTail(b, c)
      BY <1>2, <1>b, <3>2 DEF CallFits
    <3>4. Len(h) <= Len(acc) /\ \A i \in 1..Len(h) : h[i] = acc[Len(acc) - Len(h) + i]
      BY <1>h, <1>a, <3>3 DEF IsTail
    <3>5. \A i, j \in DOMAIN acc : i <= j => acc[i] <= acc[j]
      BY <1>a, <3>2 DEF OneByOne
    <3>6. Len(h) <= Within(acc, now - WindowLen)
      BY <1>5, <2>2, <3>4, <3>5, FullIsFull
    <3>7. Within(acc, now - WindowLen) \in Nat
      <4> DEFINE late == {i \in DOMAIN acc : acc[i] > now - WindowLen}
      <4>1. IsFiniteSet(1..Len(acc)) /\ late \in SUBSET (1..Len(acc))
        BY FS_Interval
      <4> HIDE DEF late
      <4>2. IsFiniteSet(late)
        BY <4>1, FS_Subset
      <4>3. Cardinality(late) \in Nat
        BY <4>2, FS_CardinalityType
      <4> QED
        BY <4>3 DEF Within, late
    <3> QED
      BY <1>3, <1>6, <3>6, <3>7
  <2>4. ~unjust'
    BY <1>0, <2>1, <2>3
  <2>5. /\ thread[t].at \in PastGet \ Trims => hits[thread[t].bucket] # <<>>
        /\ thread[t].at \notin Trims /\ thread[t].at \notin {"trim_clean", "evict"}
    BY <1>2, <1>b, <1>h, <2>2
  <2> QED
    BY <1>2, <2>1, <2>4, <2>5, RateEnds
<1>7. CASE ~(Len(h) >= HitLimit)
  <2>1. thread' = [thread EXCEPT ![t] = [thread[t] EXCEPT !.at = "append"]] /\ unjust' = unjust
    BY <1>7, <1>1, <1>b, <1>h DEF Decide
  <2>2. PICK call2 \in Call :
          /\ thread' = [thread EXCEPT ![t] = call2]
          /\ call2.key = thread[t].key /\ call2.now = thread[t].now /\ call2.bucket = thread[t].bucket
          /\ call2.at = "append"
    <3> DEFINE call2 == [thread[t] EXCEPT !.at = "append"]
    <3>1. /\ call2 \in Call /\ call2.at = "append" /\ call2.key = thread[t].key
          /\ call2.now = thread[t].now /\ call2.bucket = thread[t].bucket
      BY <1>2 DEF Call
    <3> QED
      BY <2>1, <3>1
  <2>3. Len(hits[thread[t].bucket]) < HitLimit
    BY <1>3, <1>7, <1>b, <1>h
  <2> QED
    BY <1>2, <2>1, <2>2, <2>3, RateWalk
<1> QED
  BY <1>6, <1>7

LEMMA RateAppend ==
  ASSUME RateInv, NEW t \in Threads, AppendHit(t) PROVE RateInv'
<1>0. RateTypes /\ BucketsApart /\ Roomy /\ \A e \in Clients : FairTo(e)
  BY DEF RateInv
<1>1. /\ thread \in [Threads -> Call] /\ clock \in Nat /\ hits \in Seq(Seq(Nat)) /\ Len(hits) \in Nat
      /\ bucketOf \in [Clients -> 0..Len(hits)] /\ bucketOf \in [Clients -> Nat]
      /\ accepted \in [Clients -> Seq(Nat)] /\ untrimmed \in SUBSET (1..Len(hits))
  BY <1>0 DEF RateTypes
<1>2. /\ thread[t].at = "append" /\ thread[t] \in Call
      /\ "append" \in PastGet /\ "append" \in Holding /\ "measure" \in Trims /\ "append" \notin Trims
      /\ "idle" \notin Holding /\ Trims \subseteq PastGet /\ PastGet \subseteq Holding /\ "measure" \in CallSteps
      /\ UNCHANGED <<clock, bucketOf, evicted, raced, untrimmed, unjust>>
  BY <1>1 DEF AppendHit, Holding, PastGet, Trims, CallSteps
<1>c. PICK c \in Clients : c = thread[t].key
  BY <1>0, <1>2 DEF RateTypes
<1>b. PICK b \in 1..Len(hits) : b = thread[t].bucket
  BY <1>0, <1>2 DEF RateTypes
<1>n. PICK now \in Nat : now = thread[t].now
  BY <1>2 DEF Call
<1>h. PICK h \in Seq(Nat) : h = hits[b]
  BY <1>1
<1>a. PICK acc \in Seq(Nat) : acc = accepted[c]
  BY <1>1
<1>3. /\ hits' = [hits EXCEPT ![b] = Append(@, now)] /\ accepted' = [accepted EXCEPT ![c] = Append(@, now)]
      /\ thread' = [thread EXCEPT ![t] = [thread[t] EXCEPT !.at = "measure"]]
  BY <1>1, <1>c, <1>b, <1>n DEF AppendHit
<1>4. PICK h2 \in Seq(Nat) : h2 = Append(h, now)
  <2>1. Append(h, now) \in Seq(Nat)
    OBVIOUS
  <2> QED
    BY <2>1
<1>5. PICK acc2 \in Seq(Nat) : acc2 = Append(acc, now)
  <2>1. Append(acc, now) \in Seq(Nat)
    OBVIOUS
  <2> QED
    BY <2>1
<1>6. /\ Len(h2) = Len(h) + 1 /\ h2[Len(h2)] = now /\ \A i \in 1..Len(h) : h2[i] = h[i]
      /\ Len(acc2) = Len(acc) + 1 /\ acc2[Len(acc2)] = now /\ \A i \in 1..Len(acc) : acc2[i] = acc[i]
      /\ Len(h) \in Nat /\ Len(acc) \in Nat /\ h2 # <<>>
      /\ DOMAIN acc = 1..Len(acc) /\ DOMAIN acc2 = 1..Len(acc) + 1
  <2>1. /\ Len(h2) = Len(h) + 1 /\ h2[Len(h2)] = now /\ \A i \in 1..Len(h) : h2[i] = h[i]
        /\ Len(h) \in Nat /\ h2 # <<>>
    <3>1. Len(h) \in Nat /\ Len(h2) = Len(h) + 1
      BY <1>4
    <3>2. h2[Len(h) + 1] = now /\ \A i \in 1..Len(h) : h2[i] = h[i]
      BY <1>4
    <3>3. h2 # <<>>
      BY <3>1
    <3> QED
      BY <3>1, <3>2, <3>3
  <2>2. /\ Len(acc2) = Len(acc) + 1 /\ acc2[Len(acc2)] = now /\ \A i \in 1..Len(acc) : acc2[i] = acc[i]
        /\ Len(acc) \in Nat /\ DOMAIN acc = 1..Len(acc) /\ DOMAIN acc2 = 1..Len(acc2)
    BY <1>5
  <2> QED
    BY <2>1, <2>2
<1>7. /\ hits' \in Seq(Seq(Nat)) /\ Len(hits') = Len(hits) /\ hits'[b] = h2
      /\ \A x \in 1..Len(hits) : x # b => hits'[x] = hits[x]
      /\ accepted' \in [Clients -> Seq(Nat)] /\ accepted'[c] = acc2
      /\ \A e \in Clients : e # c => accepted'[e] = accepted[e]
  <2>1. hits' = [hits EXCEPT ![b] = h2] /\ accepted' = [accepted EXCEPT ![c] = acc2]
    BY <1>1, <1>3, <1>4, <1>5, <1>h, <1>a
  <2> QED
    BY <1>1, <2>1
<1>8. /\ thread' \in [Threads -> Call]
      /\ \A u \in Threads : u # t => thread'[u] = thread[u]
      /\ thread'[t].at = "measure" /\ thread'[t].key = c /\ thread'[t].now = now /\ thread'[t].bucket = b
  <2> DEFINE call2 == [thread[t] EXCEPT !.at = "measure"]
  <2>1. /\ call2 \in Call /\ call2.at = "measure" /\ call2.key = c /\ call2.now = now /\ call2.bucket = b
    BY <1>2, <1>c, <1>b, <1>n DEF Call
  <2>2. thread' = [thread EXCEPT ![t] = call2]
    BY <1>3
  <2> HIDE DEF call2
  <2> QED
    BY <1>1, <2>1, <2>2
<1>9. \A u \in Threads : /\ thread[u].at \in Holding => thread[u].bucket \in 1..Len(hits)
                         /\ thread'[u].at # "idle" => /\ thread[u].at # "idle" /\ thread'[u].key = thread[u].key
                                                      /\ thread'[u].now = thread[u].now
                                                      /\ thread'[u].bucket = thread[u].bucket
                         /\ thread'[u].at \in Holding => thread[u].at \in Holding
                         /\ thread'[u].at \in PastGet => thread[u].at \in PastGet
  <2> TAKE u \in Threads
  <2>1. thread[u].at \in Holding => thread[u].bucket \in 1..Len(hits)
    BY <1>0 DEF RateTypes
  <2>2. CASE u = t
    BY <1>2, <1>8, <1>c, <1>b, <1>n, <2>1, <2>2
  <2>3. CASE u # t
    <3>1. thread'[u] = thread[u]
      BY <1>8, <2>3
    <3> QED
      BY <2>1, <3>1
  <2> QED
    BY <2>2, <2>3
<1>10. RateTypes'
  <2>1. \A u \in Threads : /\ thread'[u].at # "idle" => thread'[u].key \in Clients /\ thread'[u].now <= clock
                           /\ thread'[u].at \in Holding => thread'[u].bucket \in 1..Len(hits)
    BY <1>0, <1>2, <1>9 DEF RateTypes
  <2>2. untrimmed' \in SUBSET (1..Len(hits))
    BY <1>1, <1>2
  <2> QED
    BY <1>1, <1>2, <1>7, <1>8, <2>1, <2>2 DEF RateTypes
<1>11. BucketsApart'
  <2>1. \A u \in Threads : thread'[u].at \in Holding =>
          /\ thread[u].at \in Holding /\ thread'[u].bucket = thread[u].bucket
          /\ thread'[u].key = thread[u].key /\ thread'[u].bucket # 0
    <3> SUFFICES ASSUME NEW u \in Threads, thread'[u].at \in Holding
                 PROVE  /\ thread[u].at \in Holding /\ thread'[u].bucket = thread[u].bucket
                        /\ thread'[u].key = thread[u].key /\ thread'[u].bucket # 0
      OBVIOUS
    <3>1. thread'[u].at # "idle"
      BY <1>2
    <3> QED
      BY <1>1, <1>9, <3>1
  <2> QED
    BY <1>0, <1>2, <2>1, ApartKept
<1>12. Roomy'
  <2>0. /\ thread'[t].at \in Trims /\ thread'[t].at \in PastGet /\ thread'[t].bucket = b
        /\ untrimmed' = untrimmed
    BY <1>2, <1>8
  <2>1. \A x \in 1..Len(hits') : hits'[x] # <<>> =>
           \/ x <= Len(hits) /\ hits[x] # <<>>
           \/ \E u \in Threads : thread'[u].at \in Trims /\ thread'[u].bucket = x
    <3> TAKE x \in 1..Len(hits')
    <3>1. x \in 1..Len(hits) /\ x <= Len(hits)
      BY <1>1, <1>7
    <3>2. CASE x = b
      BY <2>0, <3>2
    <3>3. CASE x # b
      BY <1>7, <3>1, <3>3
    <3> QED
      BY <3>2, <3>3
  <2>2. \A x \in 1..Len(hits) : hits[x] # <<>> =>
           hits'[x] # <<>> \/ \E u \in Threads : thread'[u].at \in PastGet /\ thread'[u].bucket = x
    BY <1>6, <1>7
  <2>3. \A u \in Threads :
          /\ thread[u].at \in Trims => thread'[u].at \in Trims /\ thread'[u].bucket = thread[u].bucket
          /\ thread[u].at \in PastGet => thread'[u].at \in PastGet /\ thread'[u].bucket = thread[u].bucket
    <3> TAKE u \in Threads
    <3>1. CASE u = t
      BY <1>b, <2>0, <3>1
    <3>2. CASE u # t
      BY <1>8, <3>2
    <3> QED
      BY <3>1, <3>2
  <2>4. /\ untrimmed \subseteq untrimmed' /\ Len(hits') >= Len(hits) /\ bucketOf' \in [Clients -> Nat]
        /\ \A e \in Clients : bucketOf'[e] \notin {0, bucketOf[e]} =>
             bucketOf'[e] > Len(hits)
               /\ \E u \in Threads : thread'[u].at \in PastGet /\ thread'[u].bucket = bucketOf'[e]
    BY <1>1, <1>2, <1>7, <2>0
  <2> QED
    BY <1>0, <1>7, <2>1, <2>2, <2>3, <2>4, RoomKept
<1>13. ASSUME NEW e \in Clients, e # c PROVE FairTo(e)'
  <2>1. bucketOf'[e] = bucketOf[e] /\ (bucketOf[e] # 0 => hits'[bucketOf[e]] = hits[bucketOf[e]])
    <3>1. bucketOf[e] # b
      BY <1>0, <1>2, <1>b, <1>c, <1>13 DEF BucketsApart
    <3>2. bucketOf[e] # 0 => bucketOf[e] \in 1..Len(hits)
      BY <1>1
    <3> QED
      BY <1>2, <1>7, <3>1, <3>2
  <2>2. \A u \in Threads : thread'[u].at # "idle" /\ thread'[u].key = e =>
          /\ thread'[u] = thread[u]
          /\ thread[u].at \in Holding => hits'[thread[u].bucket] = hits[thread[u].bucket]
    <3> SUFFICES ASSUME NEW u \in Threads, thread'[u].at # "idle", thread'[u].key = e
                 PROVE  /\ thread'[u] = thread[u]
                        /\ thread[u].at \in Holding => hits'[thread[u].bucket] = hits[thread[u].bucket]
      OBVIOUS
    <3>1. u # t
      BY <1>8, <1>13
    <3>2. thread'[u] = thread[u]
      BY <1>8, <3>1
    <3>3. thread[u].at \in Holding => thread[u].bucket # b
      BY <1>0, <1>2, <1>b, <1>c, <1>13, <3>2 DEF BucketsApart
    <3> QED
      BY <1>7, <1>9, <3>2, <3>3
  <2>3. /\ clock' \in Nat /\ clock' >= clock /\ accepted'[e] = accepted[e]
        /\ raced \subseteq raced' /\ evicted \subseteq evicted'
    BY <1>1, <1>2, <1>7, <1>13
  <2> QED
    BY <1>0, <2>1, <2>2, <2>3, Untouched
<1>14. ASSUME c \notin raced
       PROVE  /\ bucketOf[c] \in {0, b} /\ Len(h) < HitLimit
              /\ \A i \in DOMAIN acc : acc[i] <= now
              /\ Len(h2) <= Len(acc2)
              /\ \A i \in 1..Len(h2) : h2[i] = acc2[Len(acc2) - Len(h2) + i]
              /\ \A i, j \in DOMAIN acc2 : i <= j => acc2[i] <= acc2[j]
              /\ \A i \in DOMAIN acc2 : acc2[i] <= now
              /\ \A u \in Threads : CallOf(u, c) => u = t
              /\ Len(h) <= Len(acc)
  <2>1. CallOf(t, c) /\ FairTo(c)
    BY <1>0, <1>2, <1>c DEF CallOf
  <2>2. OneByOne(c) /\ CallFits(t, c)
    BY <1>14, <2>1 DEF FairTo
  <2>3. IsTail(b, c) /\ bucketOf[c] \in {0, b} /\ Len(h) < HitLimit
    BY <1>2, <1>b, <1>h, <2>2 DEF CallFits
  <2>4. Len(h) <= Len(acc) /\ \A i \in 1..Len(h) : h[i] = acc[Len(acc) - Len(h) + i]
    BY <1>h, <1>a, <2>3 DEF IsTail
  <2>5. \A i, j \in DOMAIN acc : i <= j => acc[i] <= acc[j]
    BY <1>a, <2>2 DEF OneByOne
  <2>6. \A i \in DOMAIN acc : acc[i] <= now
    BY <1>a, <1>n, <2>2 DEF CallFits
  <2>7. \A u \in Threads : CallOf(u, c) => u = t
    BY <2>1, <2>2 DEF OneByOne
  <2>8. Len(h2) <= Len(acc2)
    BY <1>6, <2>4
  <2>9. \A i \in 1..Len(h2) : h2[i] = acc2[Len(acc2) - Len(h2) + i]
    <3> TAKE i \in 1..Len(h2)
    <3>1. CASE i \in 1..Len(h)
      <4>1. Len(acc2) - Len(h2) + i = Len(acc) - Len(h) + i /\ Len(acc) - Len(h) + i \in 1..Len(acc)
        BY <1>6, <2>4, <3>1
      <4>2. h2[i] = h[i] /\ h[i] = acc[Len(acc) - Len(h) + i]
        BY <1>6, <2>4, <3>1
      <4>3. acc2[Len(acc) - Len(h) + i] = acc[Len(acc) - Len(h) + i]
        BY <1>6, <4>1
      <4> QED
        BY <4>1, <4>2, <4>3
    <3>2. CASE i = Len(h2)
      <4>1. Len(acc2) - Len(h2) + i = Len(acc2)
        BY <1>6, <3>2
      <4> QED
        BY <1>6, <3>2, <4>1
    <3> QED
      BY <1>6, <3>1, <3>2
  <2>10. \A i \in DOMAIN acc2 : acc2[i] <= now
    <3> TAKE i \in DOMAIN acc2
    <3>1. i \in DOMAIN acc \/ i = Len(acc2)
      BY <1>6
    <3> QED
      BY <1>6, <2>6, <3>1
  <2>11. \A i, j \in DOMAIN acc2 : i <= j => acc2[i] <= acc2[j]
    <3>0. SUFFICES ASSUME NEW i \in DOMAIN acc2, NEW j \in DOMAIN acc2, i <= j PROVE acc2[i] <= acc2[j]
      OBVIOUS
    <3>1. (i \in DOMAIN acc /\ j \in DOMAIN acc) \/ j = Len(acc2)
      <4>1. i \in 1..Len(acc) + 1 /\ j \in 1..Len(acc) + 1 /\ Len(acc) \in Nat
        BY <1>6
      <4>2. (i \in 1..Len(acc) /\ j \in 1..Len(acc)) \/ j = Len(acc) + 1
        <5>1. PICK n \in Nat : n = Len(acc)
          BY <4>1
        <5>2. PICK k \in 1..n + 1 : k = i
          BY <4>1, <5>1
        <5>3. PICK l \in 1..n + 1 : l = j
          BY <4>1, <5>1
        <5>4. k <= l
          BY <3>0, <5>2, <5>3
        <5>5. (k \in 1..n /\ l \in 1..n) \/ l = n + 1
          BY <5>4
        <5> QED
          BY <5>1, <5>2, <5>3, <5>5
      <4> QED
        BY <1>6, <4>2
    <3>2. CASE i \in DOMAIN acc /\ j \in DOMAIN acc
      <4>1. acc2[i] = acc[i] /\ acc2[j] = acc[j] /\ acc[i] <= acc[j]
        BY <1>6, <2>5, <3>0, <3>2
      <4> QED
        BY <4>1
    <3>3. CASE j = Len(acc2)
      BY <1>6, <2>10, <3>3
    <3> QED
      BY <3>1, <3>2, <3>3
  <2> QED
    BY <2>3, <2>4, <2>6, <2>7, <2>8, <2>9, <2>10, <2>11
<1>14a. \A i \in DOMAIN acc2 : acc2[i] \in Nat
  OBVIOUS
<1>15. FairTo(c)'
  <2>0. /\ FairTo(c) /\ raced' = raced /\ evicted' = evicted /\ bucketOf' = bucketOf
        /\ clock' = clock /\ now <= clock /\ accepted'[c] = acc2
    BY <1>0, <1>2, <1>7, <1>n DEF RateTypes
  <2>1. \A u \in Threads : CallOf(u, c)' => CallOf(u, c)
    BY <1>9 DEF CallOf
  <2>2. ASSUME c \notin raced PROVE OneByOne(c)'
    <3>1. \A u, v \in Threads : CallOf(u, c)' /\ CallOf(v, c)' => u = v
      BY <1>14, <2>1, <2>2
    <3>2. bucketOf'[c] # 0 => bucketOf'[c] = b
      BY <1>14, <2>0, <2>2
    <3>3. \A i \in DOMAIN acc2 : acc2[i] <= clock
      <4> TAKE i \in DOMAIN acc2
      <4>1. acc2[i] <= now /\ acc2[i] \in Nat
        BY <1>14, <1>14a, <2>2, Zenon
      <4> QED
        BY <1>1, <2>0, <4>1, AtMost, Zenon
    <3> QED
      BY <1>7, <1>14, <2>0, <2>2, <3>1, <3>2, <3>3 DEF OneByOne, IsTail
  <2>3. ASSUME c \notin raced, NEW u \in Threads, CallOf(u, c)' PROVE CallFits(u, c)'
    <3>1. u = t /\ thread'[t].at = "measure" /\ thread'[t].now = now /\ thread'[t].bucket = b
      <4>1. u = t
        BY <1>14, <2>1, <2>3
      <4>2. thread'[t].at # "idle"
        BY <2>3, <4>1 DEF CallOf
      <4> QED
        BY <1>8, <4>1, <4>2
    <3>2. /\ \A i \in DOMAIN accepted'[c] : accepted'[c][i] <= thread'[u].now
          /\ bucketOf'[c] = 0 \/ bucketOf'[c] = thread'[u].bucket
      BY <1>14, <2>0, <2>3, <3>1
    <3>3. IsTail(b, c)'
      BY <1>7, <1>14, <2>0, <2>3 DEF IsTail
    <3>4. hits'[thread'[u].bucket] = h2 /\ h2 # <<>> /\ h2[Len(h2)] = thread'[u].now /\ thread'[u].at # "append"
      BY <1>2, <1>6, <1>7, <3>1
    <3> QED
      BY <3>1, <3>2, <3>3, <3>4 DEF CallFits, IsTail
  <2>4. ASSUME c \notin raced \cup evicted PROVE Remembered(c)'
    <3>1. Remembered(c) /\ CallOf(t, c)
      BY <1>2, <1>c, <2>0, <2>4 DEF FairTo, CallOf
    <3>2. bucketOf[c] = b /\ b # 0
      BY <1>1, <1>2, <1>b, <3>1 DEF Remembered
    <3>3. ASSUME NEW i \in 1..Len(acc), i <= Len(acc) - Len(h)
          PROVE  acc[i] + WindowLen <= now /\ acc[i] + WindowLen \in Nat /\ acc2[i] = acc[i]
      <4>1. Lost(i, c) /\ i \in DOMAIN accepted[c]
        BY <1>6, <1>a, <1>h, <3>2, <3>3 DEF Lost
      <4>2. acc[i] + WindowLen <= now
        <5>1. CallOf(t, c) => accepted[c][i] + WindowLen <= thread[t].now
          BY <3>1, <4>1 DEF Remembered
        <5> QED
          BY <1>a, <1>n, <3>1, <5>1
      <4>3. PICK x \in Nat : x = acc[i]
        OBVIOUS
      <4>4. x + WindowLen \in Nat
        BY RateNumbers
      <4> QED
        BY <1>6, <4>2, <4>3, <4>4
    <3>4. ASSUME NEW i \in DOMAIN acc2, Lost(i, c)'
          PROVE  /\ acc2[i] + WindowLen <= clock
                 /\ \A u \in Threads : CallOf(u, c)' => acc2[i] + WindowLen <= thread'[u].now
      <4>1. i <= Len(acc2) - Len(h2)
        <5>1. bucketOf'[c] = b /\ hits'[b] = h2
          BY <1>7, <2>0, <3>2
        <5> QED
          BY <2>0, <3>2, <3>4, <5>1 DEF Lost
      <4>2. i \in 1..Len(acc) /\ i <= Len(acc) - Len(h)
        BY <1>6, <4>1
      <4>3. acc2[i] + WindowLen <= now /\ acc2[i] + WindowLen \in Nat
        BY <3>3, <4>2
      <4>4. \A u \in Threads : CallOf(u, c)' => thread'[u].now = now
        BY <1>9, <1>14, <1>n, <2>1, <2>4 DEF CallOf
      <4>5. acc2[i] + WindowLen <= clock
        BY <1>1, <2>0, <4>3, AtMost, Zenon
      <4> QED
        BY <4>3, <4>4, <4>5
    <3>5. \A u \in Threads : CallOf(u, c)' => bucketOf'[c] = thread'[u].bucket
      BY <1>9, <1>14, <1>b, <2>0, <2>1, <2>4, <3>2 DEF CallOf
    <3>6. ASSUME NEW i \in DOMAIN acc2, i + HitLimit \in DOMAIN acc2
          PROVE  acc2[i] + WindowLen <= acc2[i + HitLimit]
      <4>0. HitLimit \in Nat /\ HitLimit > 0 /\ i \in Nat /\ i > 0
        <5>1. i \in 1..Len(acc) + 1 /\ Len(acc) \in Nat
          BY <1>6
        <5>2. HitLimit \in Nat /\ HitLimit > 0
          BY RateNumbers
        <5>3. \A n \in Nat : \A j \in 1..n + 1 : j \in Nat /\ j > 0
          OBVIOUS
        <5> QED
          BY <5>1, <5>2, <5>3, Zenon
      <4>1. CASE i + HitLimit \in 1..Len(acc)
        <5>1. i \in 1..Len(acc)
          BY <1>6, <4>0, <4>1
        <5>2. acc[i] + WindowLen <= acc[i + HitLimit]
          BY <1>6, <1>a, <3>1, <4>1, <5>1 DEF Remembered
        <5> QED
          BY <1>6, <4>1, <5>1, <5>2
      <4>2. CASE i + HitLimit = Len(acc) + 1
        <5>1. Len(h) < HitLimit
          BY <1>14, <2>4
        <5>2. i \in 1..Len(acc) /\ i <= Len(acc) - Len(h)
          <6>1. PICK n \in Nat : n = Len(acc)
            BY <1>6, Zenon
          <6>2. PICK m \in Nat : m = Len(h)
            BY <1>6, Zenon
          <6>3. PICK k \in Nat : k = i
            BY <4>0
          <6>4. k > 0 /\ k + HitLimit = n + 1 /\ m < HitLimit /\ HitLimit \in Nat
            BY <4>0, <4>2, <5>1, <6>1, <6>2, <6>3
          <6>5. k \in 1..n /\ k <= n - m
            BY <6>4
          <6> QED
            BY <6>1, <6>2, <6>3, <6>5
        <5>3. acc2[i + HitLimit] = now
          BY <1>6, <4>2
        <5> QED
          BY <3>3, <5>2, <5>3
      <4> QED
        BY <1>6, <3>6, <4>1, <4>2
    <3> QED
      BY <2>0, <3>4, <3>5, <3>6 DEF Remembered
  <2> QED
    BY <2>0, <2>2, <2>3, <2>4 DEF FairTo
<1> QED
  BY <1>2, <1>10, <1>11, <1>12, <1>13, <1>15 DEF RateInv

LEMMA RateMeasure ==
  ASSUME RateInv, NEW t \in Threads, Measure(t) PROVE RateInv'
<1>0. RateTypes /\ BucketsApart /\ Roomy /\ ~unjust /\ \A e \in Clients : FairTo(e)
  BY DEF RateInv
<1>1. /\ thread \in [Threads -> Call] /\ clock \in Nat /\ hits \in Seq(Seq(Nat))
  BY <1>0 DEF RateTypes
<1>2. /\ thread[t].at \in {"measure", "trim"} /\ thread[t] \in Call
      /\ UNCHANGED <<clock, hits, bucketOf, accepted, evicted, raced, unjust>>
  BY <1>1 DEF Measure
<1>3. CASE Over
  <2>1. untrimmed' = untrimmed
    BY <1>3 DEF Measure
  <2>2. PICK call2 \in Call :
          /\ thread' = [thread EXCEPT ![t] = call2]
          /\ call2.key = thread[t].key /\ call2.now = thread[t].now /\ call2.bucket = thread[t].bucket
          /\ call2.at = IF thread[t].at = "measure" THEN "trim_sweep" ELSE "evict"
    <3> DEFINE call2 == [thread[t] EXCEPT !.at = IF thread[t].at = "measure" THEN "trim_sweep" ELSE "evict"]
    <3>1. thread' = [thread EXCEPT ![t] = call2]
      BY <1>1, <1>3 DEF Measure
    <3>2. {"trim_sweep", "evict"} \subseteq CallSteps
      BY DEF CallSteps, Holding, PastGet, Trims
    <3>3. /\ call2 \in Call /\ call2.key = thread[t].key /\ call2.now = thread[t].now
          /\ call2.bucket = thread[t].bucket
          /\ call2.at = IF thread[t].at = "measure" THEN "trim_sweep" ELSE "evict"
      BY <1>2, <3>2 DEF Call
    <3> QED
      BY <3>1, <3>3
  <2>3. /\ thread[t].at # "idle" /\ call2.at \notin {"idle", "insert", "append"}
        /\ call2.at \in Trims <=> thread[t].at \in Trims
        /\ call2.at \in PastGet <=> thread[t].at \in PastGet
        /\ call2.at \in Holding <=> thread[t].at \in Holding
    BY <1>2, <2>2 DEF Holding, PastGet, Trims
  <2> QED
    BY <1>2, <2>1, <2>2, <2>3, RateWalk
<1>4. CASE ~Over
  <2>1. thread' = [thread EXCEPT ![t] = NoCall] /\ untrimmed' = {}
    BY <1>4 DEF Measure
  <2>2. /\ thread'[t].at = "idle" /\ thread' \in [Threads -> Call]
        /\ \A u \in Threads : u # t => thread'[u] = thread[u]
    BY <1>1, <2>1, StepsApart DEF NoCall, Call
  <2>3. \A u \in Threads : /\ thread'[u].at # "idle" => thread'[u] = thread[u]
                           /\ thread'[u].at \in Holding => thread'[u] = thread[u]
    BY <2>2, StepsApart
  <2>4. RateTypes'
    <3>1. \A u \in Threads : /\ thread'[u].at # "idle" => thread'[u].key \in Clients /\ thread'[u].now <= clock
                             /\ thread'[u].at \in Holding => thread'[u].bucket \in 1..Len(hits)
      BY <1>0, <2>3 DEF RateTypes
    <3> QED
      BY <1>0, <1>2, <2>1, <2>2, <3>1 DEF RateTypes
  <2>5. BucketsApart'
    BY <1>0, <1>2, <2>3 DEF BucketsApart
  <2>6. Roomy'
    <3>1. Tracked' = Tracked
      BY <1>2 DEF Tracked
    <3>2. Cardinality(Tracked) <= MaxKeys
      <4>1. Tracked \in SUBSET Clients
        BY DEF Tracked
      <4>2. Cardinality(Tracked) \in Nat
        BY <4>1, RateNumbers, FS_Subset, FS_CardinalityType
      <4> QED
        BY <1>4, <4>2, RateNumbers DEF Over
    <3> QED
      BY <2>4, <3>1, <3>2, RoomAgain
  <2>7. ASSUME NEW e \in Clients PROVE FairTo(e)'
    <3>1. clock' \in Nat /\ clock' >= clock
      BY <1>1, <1>2
    <3>2. \A u \in Threads : thread'[u].at # "idle" /\ thread'[u].key = e =>
            thread'[u] = thread[u] /\ thread[u].at # "idle"
      BY <2>3
    <3> QED
      BY <1>0, <1>2, <3>1, <3>2, Untouched
  <2> QED
    BY <1>0, <1>2, <2>4, <2>5, <2>6, <2>7 DEF RateInv
<1> QED
  BY <1>3, <1>4

LEMMA RateEvict ==
  ASSUME RateInv, NEW t \in Threads, Evict(t) PROVE RateInv'
<1>0. RateTypes /\ BucketsApart /\ Roomy /\ ~unjust /\ \A e \in Clients : FairTo(e)
  BY DEF RateInv
<1>1. /\ thread \in [Threads -> Call] /\ clock \in Nat /\ hits \in Seq(Seq(Nat)) /\ Len(hits) \in Nat
      /\ bucketOf \in [Clients -> 0..Len(hits)] /\ bucketOf \in [Clients -> Nat]
  BY <1>0 DEF RateTypes
<1>2. /\ thread[t].at = "evict" /\ thread[t] \in Call
      /\ UNCHANGED <<clock, hits, accepted, raced, unjust>>
  BY <1>1 DEF Evict
<1>3. CASE Tracked = {}
  <2>1. /\ thread' = [thread EXCEPT ![t] = NoCall] /\ bucketOf' = bucketOf /\ evicted' = evicted
        /\ untrimmed' = IF thread[t].at \in {"trim_clean", "evict"} THEN untrimmed \cup {thread[t].bucket}
                        ELSE untrimmed
    BY <1>3 DEF Evict, Raise
  <2>2. /\ thread[t].at \in Trims => thread[t].at \in {"trim_clean", "evict"}
        /\ thread[t].at \notin PastGet \ Trims
    BY <1>2 DEF Trims
  <2> QED
    BY <1>0, <1>2, <2>1, <2>2, RateEnds
<1>4. CASE Tracked # {}
  <2>1. /\ bucketOf' = [bucketOf EXCEPT ![Head(lru)] = 0] /\ evicted' = evicted \cup {Head(lru)}
        /\ thread' = [thread EXCEPT ![t] = [thread[t] EXCEPT !.at = "trim"]] /\ untrimmed' = untrimmed
    BY <1>1, <1>4 DEF Evict, Drop
  <2>2. /\ bucketOf' \in [Clients -> 0..Len(hits)] /\ bucketOf' \in [Clients -> Nat]
        /\ \A e \in Clients : bucketOf'[e] \in {0, bucketOf[e]} /\ (e # Head(lru) => bucketOf'[e] = bucketOf[e])
    <3>1. PICK x : x = Head(lru)
      OBVIOUS
    <3>2. bucketOf' = [bucketOf EXCEPT ![x] = 0]
      BY <2>1, <3>1
    <3>3. \A e \in Clients : bucketOf'[e] = IF e = x THEN 0 ELSE bucketOf[e]
      BY <1>1, <3>2
    <3>4. \A e \in Clients : bucketOf'[e] \in 0..Len(hits) /\ bucketOf'[e] \in Nat
      <4>1. 0 \in 0..Len(hits)
        BY <1>1
      <4> QED
        BY <1>1, <3>3, <4>1
    <3>5. bucketOf' \in [Clients -> 0..Len(hits)] /\ bucketOf' \in [Clients -> Nat]
      BY <1>1, <3>2, <3>4
    <3> QED
      BY <3>1, <3>3, <3>4, <3>5
  <2>3. /\ thread'[t].at = "trim" /\ thread'[t].key = thread[t].key /\ thread'[t].now = thread[t].now
        /\ thread'[t].bucket = thread[t].bucket /\ thread' \in [Threads -> Call]
        /\ \A u \in Threads : u # t => thread'[u] = thread[u]
    <3> DEFINE call2 == [thread[t] EXCEPT !.at = "trim"]
    <3>1. /\ call2 \in Call /\ call2.at = "trim" /\ call2.key = thread[t].key /\ call2.now = thread[t].now
          /\ call2.bucket = thread[t].bucket
      <4>1. "trim" \in CallSteps
        BY DEF CallSteps, Holding, PastGet, Trims
      <4> QED
        BY <1>2, <4>1 DEF Call
    <3>2. thread' = [thread EXCEPT ![t] = call2]
      BY <2>1
    <3> HIDE DEF call2
    <3> QED
      BY <1>1, <3>1, <3>2
  <2>4. \A u \in Threads : /\ thread'[u].at # "idle" <=> thread[u].at # "idle"
                           /\ thread'[u].key = thread[u].key /\ thread'[u].now = thread[u].now
                           /\ thread'[u].bucket = thread[u].bucket
                           /\ thread'[u].at \in Holding <=> thread[u].at \in Holding
                           /\ thread'[u].at \in PastGet <=> thread[u].at \in PastGet
                           /\ thread'[u].at \in Trims <=> thread[u].at \in Trims
                           /\ thread'[u].at = "append" <=> thread[u].at = "append"
                           /\ thread'[u].at = "insert" <=> thread[u].at = "insert"
    <3> TAKE u \in Threads
    <3>0. {"trim", "evict"} \subseteq Trims
      BY DEF Trims
    <3>1. CASE u = t
      BY <1>2, <2>3, <3>0, <3>1, StepsApart
    <3>2. CASE u # t
      <4>1. thread'[u] = thread[u]
        BY <2>3, <3>2
      <4> QED
        BY <4>1
    <3> QED
      BY <3>1, <3>2
  <2>5. RateTypes'
    <3>1. \A u \in Threads : /\ thread'[u].at # "idle" => thread'[u].key \in Clients /\ thread'[u].now <= clock
                             /\ thread'[u].at \in Holding => thread'[u].bucket \in 1..Len(hits)
      BY <1>0, <2>4 DEF RateTypes
    <3> QED
      BY <1>0, <1>2, <2>1, <2>2, <2>3, <3>1 DEF RateTypes
  <2>6. BucketsApart'
    <3>1. \A u \in Threads : thread[u].at \in Holding => thread[u].bucket # 0
      BY <1>0 DEF RateTypes
    <3> QED
      BY <1>0, <2>2, <2>4, <3>1, ApartKept
  <2>7. Roomy'
    BY <1>0, <1>2, <2>1, <2>2, <2>4, RoomSame
  <2>8. ASSUME NEW e \in Clients PROVE FairTo(e)'
    <3>0. /\ clock' \in Nat /\ clock' >= clock /\ accepted'[e] = accepted[e] /\ FairTo(e)
          /\ raced \subseteq raced' /\ evicted \subseteq evicted'
      BY <1>0, <1>1, <1>2, <2>1
    <3>1. CASE bucketOf'[e] = bucketOf[e]
      BY <1>0, <1>2, <2>4, <3>0, <3>1, Untouched
    <3>2. CASE bucketOf'[e] = 0 /\ e = Head(lru)
      <4>1. e \in evicted'
        BY <2>1, <3>2
      <4>2. ASSUME e \notin raced'
            PROVE  OneByOne(e)' /\ \A u \in Threads : CallOf(u, e)' => CallFits(u, e)'
        <5>1. OneByOne(e) /\ \A u \in Threads : CallOf(u, e) => CallFits(u, e)
          BY <1>2, <3>0, <4>2 DEF FairTo
        <5>2. \A u \in Threads : CallOf(u, e)' <=> CallOf(u, e)
          BY <2>4 DEF CallOf
        <5>3. OneByOne(e)'
          BY <1>2, <3>2, <5>1, <5>2 DEF OneByOne
        <5>4. ASSUME NEW u \in Threads, CallOf(u, e) PROVE CallFits(u, e)'
          <6>1. CallFits(u, e)
            BY <5>1, <5>4
          <6>2. hits' = hits /\ accepted' = accepted
            BY <1>2
          <6> QED
            BY <2>4, <3>2, <6>1, <6>2 DEF CallFits, IsTail
        <5> QED
          BY <5>2, <5>3, <5>4
      <4> QED
        BY <4>1, <4>2 DEF FairTo
    <3> QED
      BY <2>2, <3>1, <3>2
  <2> QED
    BY <1>0, <1>2, <2>5, <2>6, <2>7, <2>8 DEF RateInv
<1> QED
  BY <1>3, <1>4

\* ratelimit.py 42-83: however its threads interleave, the limiter's dictionary
\* stays within its capacity but for the calls under way and those that died in
\* their trim, a client that does not race with itself is only turned away with
\* its window full, and one that is not evicted either never gets more than its
\* budget into any window.
THEOREM LimiterHolds == RateSpec => []LimiterIsFair
<1>1. RateInit => RateInv
  BY RateInitial
<1>2. RateInv /\ [RateNext]_rateVars => RateInv'
  <2> SUFFICES ASSUME RateInv, [RateNext]_rateVars PROVE RateInv'
    OBVIOUS
  <2>1. CASE Tick
    BY <2>1, RateTick
  <2>2. CASE \E t \in Threads : Sweep(t) \/ Swept(t) \/ \E c \in Clients : Visit(t, c)
    BY <2>2, RateSweep, RateSwept, RateVisit
  <2>3. CASE \E t \in Threads : Get(t) \/ Insert(t) \/ Move(t)
    BY <2>3, RateGet, RateInsert, RateMove
  <2>4. CASE \E t \in Threads : Pop(t) \/ Decide(t)
    BY <2>4, RatePop, RateDecide
  <2>5. CASE \E t \in Threads : AppendHit(t)
    BY <2>5, RateAppend
  <2>6. CASE \E t \in Threads : Measure(t) \/ Evict(t)
    BY <2>6, RateMeasure, RateEvict
  <2>7. CASE \E t \in Threads, c \in Clients : StartHit(t, c)
    BY <2>7, RateStart
  <2>8. CASE \E t \in Threads, c \in Clients : Delete(t, c)
    BY <2>8, RateDelete
  <2>9. CASE UNCHANGED rateVars
    <3>1. /\ RateTypes /\ BucketsApart /\ Roomy /\ ~unjust /\ \A c \in Clients : FairTo(c)
          /\ UNCHANGED <<clock, hits, bucketOf, thread, accepted, evicted, raced, untrimmed, unjust>>
      BY <2>9 DEF rateVars, RateInv
    <3>2. RateTypes'
      BY <3>1 DEF RateTypes
    <3>3. BucketsApart'
      BY <3>1 DEF BucketsApart
    <3>4. Roomy'
      BY <3>1 DEF Roomy, RoomSince, Tracked
    <3>5. clock \in Nat
      BY <3>1 DEF RateTypes
    <3>6. \A c \in Clients : FairTo(c)'
      BY <3>1, <3>5, Untouched
    <3> QED
      BY <3>1, <3>2, <3>3, <3>4, <3>6 DEF RateInv
  <2> QED
    BY <2>1, <2>2, <2>3, <2>4, <2>5, <2>6, <2>7, <2>8, <2>9 DEF RateNext
<1>3. RateInv => LimiterIsFair
  <2>1. RateInv => RejectionsAreJust
    BY DEF RateInv, RejectionsAreJust
  <2> QED
    BY <2>1, CapacityKept, BudgetKept DEF LimiterIsFair
<1> QED
  BY <1>1, <1>2, <1>3, PTL DEF RateSpec
=============================================================================

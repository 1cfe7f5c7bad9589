--------------------------- MODULE AlertQueueing ---------------------------
(***************************************************************************)
(* The worker's alert pass, alerts.send_pending: it walks the newest score *)
(* snapshots and then the IPOs with a CRITICAL red flag, and enqueues one  *)
(* alert per interested lead, all in one transaction that commits at the   *)
(* end.  email_queue.enqueue flushes each insert; when the unique          *)
(* constraint rejects one, it rolls the whole session back, which takes    *)
(* the pass's earlier inserts with it.                                     *)
(***************************************************************************)
EXTENDS Naturals, FiniteSets

CONSTANTS
  AlertLeads,          \* leads on the waitlist
  Ipos,           \* IPOs that may carry a CRITICAL red flag
  MaxSnapshots,   \* bound: score snapshots ever written
  ScoreLimit,     \* limit_scores: how many snapshots a pass looks back
  MaxCrashes      \* bound: passes that die before their commit

ASSUME AlertAssumption ==
  MaxSnapshots \in Nat /\ ScoreLimit \in Nat \ {0} /\ MaxCrashes \in Nat

VARIABLES
  published,   \* snapshots so far: 1..published, numbered by created_at
  material,    \* those that are a material change
  flagged,     \* IPOs with a CRITICAL red flag
  interested,  \* leads that consent, are not suppressed and want alerts
  rows,        \* committed email_messages, by their unique key
  phase,       \* of the pass: "idle", "scores", "flags"
  todo,        \* alerts the phase has still to enqueue
  window,      \* history: every alert the pass has set out to enqueue
  inserted,    \* rows flushed and not committed
  alertCrashes

passVars == <<phase, todo, window, inserted>>
worldVars == <<published, material, flagged, interested>>
alertVars == <<worldVars, rows, passVars, alertCrashes>>

Snapshots == 1..MaxSnapshots
ScoreAlert == [kind : {"score"}, snapshot : Snapshots, lead : AlertLeads]
FlagAlert == [kind : {"flag"}, ipo : Ipos, lead : AlertLeads]
Alert == ScoreAlert \cup FlagAlert

AlertInit ==
  /\ published = 0 /\ material = {} /\ flagged = {}
  /\ interested = AlertLeads
  /\ rows = {}
  /\ phase = "idle" /\ todo = {} /\ window = {} /\ inserted = {}
  /\ alertCrashes = 0

-----------------------------------------------------------------------------
(* What the pass looks at.                                                 *)

\* A snapshot is written by the ingestion; _material_kind compares it with
\* the snapshot before it, so its verdict never changes.
Publish ==
  /\ published < MaxSnapshots
  /\ published' = published + 1
  /\ \E new \in {{}, {published + 1}} : material' = material \cup new
  /\ UNCHANGED <<flagged, interested, rows, passVars, alertCrashes>>

Flag(i) ==
  /\ i \notin flagged
  /\ flagged' = flagged \cup {i}
  /\ UNCHANGED <<published, material, interested, rows, passVars, alertCrashes>>

\* The company clears the flag, or its IPO lists or is withdrawn.
Unflag(i) ==
  /\ i \in flagged
  /\ flagged' = flagged \ {i}
  /\ UNCHANGED <<published, material, interested, rows, passVars, alertCrashes>>

LoseInterest(l) ==
  /\ l \in interested
  /\ interested' = interested \ {l}
  /\ UNCHANGED <<published, material, flagged, rows, passVars, alertCrashes>>

Newest == {s \in 1..published : s + ScoreLimit > published}

ScoreAlerts == {a \in ScoreAlert : a.snapshot \in Newest \cap material /\ a.lead \in interested}
FlagAlerts == {a \in FlagAlert : a.ipo \in flagged /\ a.lead \in interested}

-----------------------------------------------------------------------------
(* send_pending.                                                           *)

StartScores ==
  /\ phase = "idle"
  /\ phase' = "scores"
  /\ todo' = ScoreAlerts
  /\ window' = ScoreAlerts
  /\ inserted' = {}
  /\ UNCHANGED <<worldVars, rows, alertCrashes>>

\* Mutant: the second phase runs in a fresh session.
StartFlagsAfresh ==
  /\ phase = "scores" /\ todo = {}
  /\ phase' = "flags"
  /\ todo' = FlagAlerts
  /\ window' = window \cup FlagAlerts
  /\ inserted' = {}
  /\ UNCHANGED <<worldVars, rows, alertCrashes>>

StartFlags ==
  /\ phase = "scores" /\ todo = {}
  /\ phase' = "flags"
  /\ todo' = FlagAlerts
  /\ window' = window \cup FlagAlerts
  /\ UNCHANGED <<worldVars, rows, inserted, alertCrashes>>

\* Newest snapshot first; leads and IPOs in whatever order they are read.
UpNext(a) ==
  /\ a \in todo
  /\ a.kind = "score" => \A b \in todo : b.snapshot <= a.snapshot

\* enqueue: insert and flush; IntegrityError -> db.rollback().
EnqueueAlert(a) ==
  /\ UpNext(a)
  /\ todo' = todo \ {a}
  /\ inserted' = IF a \in rows THEN {} ELSE inserted \cup {a}
  /\ UNCHANGED <<worldVars, rows, phase, window, alertCrashes>>

\* Mutant: the commit is missing.
CommitAlertsLost ==
  /\ phase = "flags" /\ todo = {}
  /\ phase' = "idle"
  /\ inserted' = {} /\ window' = {}
  /\ UNCHANGED <<worldVars, rows, todo, alertCrashes>>

CommitAlerts ==
  /\ phase = "flags" /\ todo = {}
  /\ rows' = rows \cup inserted
  /\ phase' = "idle"
  /\ inserted' = {} /\ window' = {}
  /\ UNCHANGED <<worldVars, todo, alertCrashes>>

AlertsCrash ==
  /\ phase # "idle" /\ alertCrashes < MaxCrashes
  /\ alertCrashes' = alertCrashes + 1
  /\ phase' = "idle"
  /\ todo' = {} /\ inserted' = {} /\ window' = {}
  /\ UNCHANGED <<worldVars, rows>>

AlertStep ==
  StartScores \/ StartFlags \/ (\E a \in Alert : EnqueueAlert(a)) \/ CommitAlerts

AlertNext ==
  \/ Publish
  \/ \E i \in Ipos : Flag(i) \/ Unflag(i)
  \/ \E l \in AlertLeads : LoseInterest(l)
  \/ AlertStep
  \/ AlertsCrash

AlertSpec == AlertInit /\ [][AlertNext]_alertVars

\* The worker loop runs a pass every refresh cycle.
AlertFairness == WF_alertVars(AlertStep)
AlertFairSpec == AlertSpec /\ AlertFairness

-----------------------------------------------------------------------------
\* A pass that meets no alert queued before it is complete: when it commits,
\* everything it set out to enqueue is in the table (alerts.py:82-89).
CleanPassIsComplete ==
  [][phase = "flags" /\ phase' = "idle" /\ rows' # rows
       => (window \cap rows = {} => window \subseteq rows')]_alertVars

\* Alerts start to flow: while nobody has been alerted yet, a red flag that
\* stays up for an interested lead puts an alert in the table.
FirstAlertQueued ==
  (rows = {} /\ FlagAlerts # {}) ~> (rows # {} \/ FlagAlerts = {})

\* What a pass does for the alerts, while none of them has been queued before.
NewAlertsAreQueued == CleanPassIsComplete /\ FirstAlertQueued

\* A material change within reach of the pass is queued for every lead that
\* stays interested: README.md:86, "the worker sends material high-confidence
\* score-change alerts".
EventuallyAlerted ==
  \A a \in ScoreAlert :
    a \in ScoreAlerts ~> (a \in rows \/ a \notin ScoreAlerts)
=============================================================================

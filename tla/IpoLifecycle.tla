----------------------------- MODULE IpoLifecycle -----------------------------
(***************************************************************************)
(* The life of the rows of table ipos: the ingestion passes that write     *)
(* their status (services/pipeline.py), the order of statuses they obey    *)
(* (services/identity.py), and the forward predictions written on the way. *)
(*                                                                         *)
(* Every pass has one shape: it loads rows into the session, talks to a    *)
(* source, decides by what it has loaded, and commits.  The ORM's UPDATE   *)
(* writes the columns that changed since the load, so a pass that runs     *)
(* beside another one (the worker's cycle and POST /api/admin/refresh)     *)
(* decides by a stale row and overwrites the other's commit.               *)
(***************************************************************************)
EXTENDS Naturals, FiniteSets

CONSTANTS
  Offerings,    \* what companies offer
  India,        \* those in India; the others are registered with the SEC
  Junk,         \* those whose report type or filing says they are no IPO
  Sessions,     \* database sessions that refresh
  Worker,       \* the worker's one
  MaxAnnounced, \* bound: offerings that the sources mention
  MaxTrouble    \* bound: refreshes asked for by an admin, and passes that fail

ASSUME LifecycleAssumption ==
  /\ India \subseteq Offerings /\ Junk \subseteq Offerings
  /\ Worker \in Sessions
  /\ MaxAnnounced \in Nat /\ MaxTrouble \in Nat

VARIABLES
  stage,       \* what has really become of an offering, whatever the rows say
  row,         \* table ipos, by external key
  forwards,    \* the outcomes attached to a row's forward predictions
  sess,        \* the refreshing sessions
  trouble,     \* refreshes an admin has asked for, and passes that failed
  overlapped   \* history: two sessions have had passes open at once

lifeVars == <<stage, row, forwards, sess, trouble, overlapped>>

\* External keys: "IN:<symbol>" of the live feed (or "US:<cik>"), and the
\* "IN:<name>" of the monthly report, which prints no symbol.
Keys == {<<o, "id">> : o \in Offerings} \cup {<<o, "name">> : o \in India}

OtherKey(k) == <<k[1], IF k[2] = "id" THEN "name" ELSE "id">>

-----------------------------------------------------------------------------
(* The order of statuses. *)

Statuses == {"Filed", "Upcoming", "Open", "Closed", "Listed", "Withdrawn", "NotIPO"}

Rank(status) ==
  CASE status = "none" -> 0       [] status = "Filed" -> 10  [] status = "Upcoming" -> 20
    [] status = "Open" -> 30      [] status = "Closed" -> 40 [] status = "Listed" -> 60
    [] status = "Withdrawn" -> 70 [] status = "NotIPO" -> 80

Terminal == {"Listed", "Withdrawn", "NotIPO"}

\* Mutant: status_can_transition lets a feed take a row back.
CanTransitionAlways(current, new) == Rank(new) > 0 \/ Rank(current) = 0

CanTransition(current, new) == Rank(new) >= Rank(current)

-----------------------------------------------------------------------------
(* Rows. *)

Row == [status : Statuses \cup {"none"},
        symbol : BOOLEAN, isin : BOOLEAN, dated : BOOLEAN, priced : BOOLEAN]

Absent == [status |-> "none", symbol |-> FALSE, isin |-> FALSE,
           dated |-> FALSE, priced |-> FALSE]

\* A row that upsert_ipo has just inserted.
Created == [Absent EXCEPT !.status = "Filed"]

Stored(r) == IF r.status = "none" THEN Created ELSE r

WithStatus(r, new) ==
  IF CanTransition(r.status, new) THEN [r EXCEPT !.status = new] ELSE r

\* What an UPDATE of the columns changed between old and new makes of cur.
Merge(cur, old, new) ==
  [f \in DOMAIN cur |-> IF new[f] # old[f] THEN new[f] ELSE cur[f]]

\* A forward prediction without an outcome.
Ungraded == [state |-> "none", windows |-> 0]

-----------------------------------------------------------------------------
(* The passes, in the order of a worker's cycle; refresh_all is the first    *)
(* six.  A pass maps a loaded row to the row it wants, given the issues the  *)
(* source mentions (feed) and the status the live feed prints (says).        *)

Jobs == {"reconcile", "sec", "priced", "nse", "past", "again", "history", "symbols"}

NextJob(p, job) ==
  CASE job = "reconcile" -> "sec" [] job = "sec" -> "priced" [] job = "priced" -> "nse"
    [] job = "nse" -> "past"      [] job = "past" -> "again"
    [] job = "again" -> IF p = Worker THEN "history" ELSE "reconcile"
    [] job = "history" -> "symbols" [] job = "symbols" -> "reconcile"

Upserting == {"sec", "priced", "nse", "history"}

\* resolve_existing: the row of that key, else (through NameIndex, which holds
\* what the session loaded) the row of the same issuer, else a new one.
Target(p, k) ==
  IF row[k] = Absent /\ k[1] \in India /\ sess[p].view[OtherKey(k)] # Absent
  THEN OtherKey(k) ELSE k

\* The row a source's mention of offering o updates.
Mentioned(p, job, o) ==
  Target(p, <<o, IF job = "history" /\ o \in India THEN "name" ELSE "id">>)

\* upsert_ipo of a row from the recent filings: Filed, or classified as no IPO.
FromFiling(o, r) ==
  WithStatus(Stored(r), IF o \in Junk THEN "NotIPO" ELSE "Filed")

\* upsert_ipo of a withdrawal request or of a priced prospectus.
FromPricing(o, r) ==
  CASE stage[o] = "withdrawn" /\ r.status \in {"Filed", "Upcoming", "Open", "Closed"} ->
         WithStatus(r, "Withdrawn")
    [] stage[o] = "listed" ->
         [WithStatus(Stored(r), "Listed") EXCEPT !.symbol = TRUE, !.dated = TRUE, !.priced = TRUE]
    [] OTHER -> r

\* upsert_ipo of a row of NSE's live feed, which may be stale.
FromLiveFeed(r, says) == [WithStatus(Stored(r), says) EXCEPT !.symbol = TRUE]

\* upsert_ipo of a row of the monthly report.
FromReport(o, r) ==
  IF stage[o] = "listed" /\ o \notin Junk
  THEN [WithStatus(Stored(r), "Listed") EXCEPT !.isin = TRUE, !.dated = TRUE, !.priced = TRUE]
  ELSE r

\* Mutant: apply_nse_past_issues takes only rows whose issue is still open.
FromPastIssuesOpen(o, r) ==
  IF stage[o] = "listed" /\ r.symbol /\ r.status \notin {"none", "NotIPO", "Withdrawn"}
  THEN [r EXCEPT !.dated = TRUE, !.priced = TRUE,
                 !.status = IF @ = "Open" THEN "Listed" ELSE @]
  ELSE r

\* apply_nse_past_issues.
FromPastIssues(o, r) ==
  IF stage[o] = "listed" /\ r.symbol /\ r.status \notin {"none", "NotIPO", "Withdrawn"}
  THEN [r EXCEPT !.dated = TRUE, !.priced = TRUE,
                 !.status = IF @ \in {"Open", "Closed"} THEN "Listed" ELSE @]
  ELSE r

\* resolve_india_symbols.
FromMasters(o, r) ==
  IF stage[o] # "listed" \/ r.status \notin {"Listed", "Open", "Closed", "Upcoming"} THEN r
  ELSE IF ~r.symbol THEN [r EXCEPT !.symbol = TRUE]
  ELSE IF ~r.isin /\ r.status # "Upcoming"
       THEN [r EXCEPT !.isin = TRUE, !.dated = TRUE, !.status = "Listed"]
       ELSE r

\* reconcile_lifecycle, by the rows the session has loaded.
Reconciled(k, view) ==
  LET r == view[k]
      match == view[OtherKey(k)]
  IN IF r.status = "none" THEN r
     ELSE IF k[1] \in Junk THEN [r EXCEPT !.status = "NotIPO"]
     ELSE IF r.status \in {"Open", "Upcoming", "Closed"} /\ match.status = "Listed"
     THEN [r EXCEPT !.status = "Listed", !.dated = @ \/ match.dated,
                    !.priced = @ \/ match.priced, !.isin = @ \/ match.isin]
     ELSE IF r.status \in {"Open", "Upcoming"} /\ stage[k[1]] # "active"
     THEN [r EXCEPT !.status = "Closed"] ELSE r

\* The rows that source and feed make the pass upsert, and what becomes of
\* row k of those it has loaded.
Decision(job, k, view, upserted, says) ==
  CASE job \in {"reconcile", "again"} /\ k[1] \in India -> Reconciled(k, view)
    [] job = "past"    /\ k[1] \in India                -> FromPastIssues(k[1], view[k])
    [] job = "symbols" /\ k[1] \in India                -> FromMasters(k[1], view[k])
    [] job = "sec"     /\ k \in upserted /\ k[1] \notin India -> FromFiling(k[1], view[k])
    [] job = "priced"  /\ k \in upserted /\ k[1] \notin India -> FromPricing(k[1], view[k])
    [] job = "nse"     /\ k \in upserted /\ k[1] \in India    -> FromLiveFeed(view[k], says)
    [] job = "history" /\ k \in upserted /\ k[1] \in India    -> FromReport(k[1], view[k])
    [] OTHER -> view[k]

-----------------------------------------------------------------------------
NoView == [k \in Keys |-> Absent]

Init ==
  /\ stage = [o \in Offerings |-> "unannounced"]
  /\ row = [k \in Keys |-> Absent]
  /\ forwards = [k \in Keys |-> {}]
  /\ sess = [p \in Sessions |-> [job |-> "reconcile", open |-> FALSE, view |-> NoView]]
  /\ trouble = 0 /\ overlapped = FALSE

Announced == {o \in Offerings : stage[o] # "unannounced"}

\* The world: an offering is announced; bidding ends and it lists; a
\* registration is priced or withdrawn.
Progress(o) ==
  /\ \/ stage[o] = "unannounced" /\ Cardinality(Announced) < MaxAnnounced
        /\ stage' = [stage EXCEPT ![o] = "active"]
     \/ o \in India /\ stage[o] = "active" /\ stage' = [stage EXCEPT ![o] = "over"]
     \/ o \in India /\ stage[o] = "over" /\ stage' = [stage EXCEPT ![o] = "listed"]
     \/ o \notin India /\ stage[o] = "active"
        /\ \E s \in {"listed", "withdrawn"} : stage' = [stage EXCEPT ![o] = s]
  /\ UNCHANGED <<row, forwards, sess, trouble, overlapped>>

\* A pass loads its rows.
Begin(p) ==
  /\ ~sess[p].open
  /\ \/ (p = Worker \/ sess[p].job # "reconcile") /\ trouble' = trouble
     \/ p # Worker /\ sess[p].job = "reconcile" /\ trouble < MaxTrouble /\ trouble' = trouble + 1
  /\ sess' = [sess EXCEPT ![p] = [job |-> @.job, open |-> TRUE, view |-> row]]
  /\ overlapped' = (overlapped \/ \E q \in Sessions \ {p} : sess[q].open)
  /\ UNCHANGED <<stage, row, forwards>>

\* Mutant: is_forward does not look at the status.
PredictedAlways(k, old, new, moved) ==
  IF old.status # new.status \/ moved THEN forwards[k] \cup {Ungraded} ELSE forwards[k]

\* The forward predictions of upsert_ipo: always for a new row or a new status,
\* otherwise when the score moved.
Predicted(k, old, new, moved) ==
  IF new.status \notin Terminal /\ (old.status # new.status \/ moved)
  THEN forwards[k] \cup {Ungraded} ELSE forwards[k]

\* The rows a pass decides by: those it has loaded; a row that was absent then
\* is looked up again by its key, hence known as it is now.
Known(p) == [k \in Keys |-> IF sess[p].view[k] = Absent THEN row[k] ELSE sess[p].view[k]]

\* The rows as it wants them.
Wanted(p, upserted, says) ==
  [k \in Keys |-> Decision(sess[p].job, k, Known(p), upserted, says)]

\* It writes the columns that its decisions change, and its predictions.
CommitRows(p, upserted, says, moved) ==
  LET job == sess[p].job
      known == Known(p)
      new == Wanted(p, upserted, says)
  IN /\ row' = [k \in Keys |-> Merge(row[k], known[k], new[k])]
     /\ forwards' = [k \in Keys |->
                       IF job \in Upserting /\ k \in upserted /\ new[k] # Absent
                       THEN Predicted(k, known[k], new[k], moved) ELSE forwards[k]]
     /\ sess' = [sess EXCEPT ![p] = [job |-> NextJob(p, job), open |-> FALSE, view |-> NoView]]
     /\ UNCHANGED <<stage, trouble, overlapped>>

\* A pass decides and commits.
CommitPass(p) ==
  LET job == sess[p].job IN
  /\ sess[p].open
  /\ \E feed \in IF job \in Upserting THEN SUBSET Announced ELSE {{}},
        says \in IF job = "nse" THEN {"Upcoming", "Open"} ELSE {"Open"},
        moved \in IF job \in Upserting THEN BOOLEAN ELSE {FALSE} :
       CommitRows(p, {Mentioned(p, job, o) : o \in feed}, says, moved)

\* A pass fails and is rolled back.  The next pass follows, or the cycle ends:
\* when a reconciliation raises, and when the process dies.
FailPass(p) ==
  /\ sess[p].open /\ trouble < MaxTrouble
  /\ trouble' = trouble + 1
  /\ \E job \in {NextJob(p, sess[p].job), "reconcile"} :
       /\ sess[p].job \in {"reconcile", "again"} => job = "reconcile"
       /\ sess' = [sess EXCEPT ![p] = [job |-> job, open |-> FALSE, view |-> NoView]]
  /\ UNCHANGED <<stage, row, forwards, overlapped>>

LifeNext ==
  \/ \E o \in Offerings : Progress(o)
  \/ \E p \in Sessions : Begin(p) \/ CommitPass(p) \/ FailPass(p)

LifeSpec == Init /\ [][LifeNext]_lifeVars

-----------------------------------------------------------------------------
\* No status goes back (Listed to Open, Not IPO to Listed) whatever the order
\* of passes and however stale the feeds, unless two sessions refreshed at
\* once: identity.py:94, "an ingester that still sees an issue in a stale feed
\* can never pull a Listed row back".
StatusMovesForward ==
  [][~overlapped' => \A k \in Keys : Rank(row'[k].status) >= Rank(row[k].status)]_lifeVars

=============================================================================

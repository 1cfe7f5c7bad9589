------------------------- MODULE PerformanceRefresh -------------------------
(***************************************************************************)
(* The bounded passes over the listed rows that write their performance    *)
(* snapshots (services/performance.py, refresh_many under                  *)
(* pipeline.refresh_market_performance).  Time is counted in passes: a     *)
(* snapshot is older than seven days after Fresh of them, an attempt older *)
(* than retry_after_days after RetryAfter.  A pass serves only the first    *)
(* PerfLimit candidates, those touched last before those that wait longest, *)
(* so that with more rows than it has places for the same ones are served. *)
(***************************************************************************)
EXTENDS Integers, FiniteSets, Sequences, SequencesExt

CONSTANTS
  Rows,         \* rows of table ipos with a symbol
  PerfLimit,    \* rows per pass
  Fresh,        \* passes until a snapshot is stale
  RetryAfter,   \* passes until a fruitless attempt is made again
  MaxEnded,     \* bound: securities that stop trading
  MaxFailures   \* bound: attempts that raise, and passes that die

ASSUME PerformanceAssumption == PerfLimit \in Nat \ {0} /\ Fresh \in Nat /\ RetryAfter \in Nat

VARIABLES
  series,    \* what the sources hold of a security: "none", "moving", "ended"
  listed,    \* rows with status Listed
  mdStatus,  \* market_data_status
  age,       \* passes since the last bar of the latest snapshot, -1 without one
  checked,   \* passes since market_data_checked_at
  recency,   \* rows by updated_at, the latest first
  todo,      \* candidates of the open pass
  running,   \* a pass is open
  failures

perfVars == <<series, listed, mdStatus, age, checked, recency, todo, running, failures>>

\* "no_series" stands for "no_listing_bar" too, "implausible" for
\* "offer_price_suspect": they differ in why no return, or only some, is had.
Fruitless == {"no_series", "implausible"}

PerfInit ==
  /\ series = [r \in Rows |-> "none"] /\ listed = {}
  /\ mdStatus = [r \in Rows |-> ""]
  /\ age = [r \in Rows |-> -1] /\ checked = [r \in Rows |-> 0]
  /\ recency = SetToSeq(Rows)
  /\ todo = <<>> /\ running = FALSE /\ failures = 0

Touched(r) == <<r>> \o SelectSeq(recency, LAMBDA q : q # r)

\* The world: an issue lists, a source starts to carry it, it stops trading.
List(r) ==
  /\ r \notin listed
  /\ listed' = listed \cup {r} /\ recency' = Touched(r)
  /\ UNCHANGED <<series, mdStatus, age, checked, todo, running, failures>>

Trade(r) ==
  /\ r \in listed
  /\ \/ series[r] = "none" /\ series' = [series EXCEPT ![r] = "moving"]
     \/ /\ series[r] = "moving"
        /\ Cardinality({q \in Rows : series[q] = "ended"}) < MaxEnded
        /\ series' = [series EXCEPT ![r] = "ended"]
  /\ UNCHANGED <<listed, mdStatus, age, checked, recency, todo, running, failures>>

-----------------------------------------------------------------------------
ByRecency(Test(_)) == SelectSeq(recency, LAMBDA r : r \in listed /\ Test(r))

NeverTried == ByRecency(LAMBDA r : mdStatus[r] = "" /\ age[r] = -1)
                \o ByRecency(LAMBDA r : mdStatus[r] = "" /\ age[r] # -1)
StaleOk == ByRecency(LAMBDA r : mdStatus[r] = "ok" /\ (age[r] = -1 \/ age[r] >= Fresh))
ToRetry == ByRecency(LAMBDA r : mdStatus[r] \in Fruitless /\ checked[r] >= RetryAfter)

First(s) == SubSeq(s, 1, IF Len(s) < PerfLimit THEN Len(s) ELSE PerfLimit)

\* Mutants: only_missing; never tried rows that have a snapshot; a
\* fruitless attempt is final.
SelectMissing == First(NeverTried \o ToRetry)
SelectSnapped == First(ByRecency(LAMBDA r : mdStatus[r] = "" /\ age[r] # -1) \o StaleOk \o ToRetry)
SelectOnce == First(NeverTried \o StaleOk)

\* select_candidates.
Select == First(NeverTried \o StaleOk \o ToRetry)

StartRefresh ==
  /\ ~running
  /\ running' = TRUE /\ todo' = Select
  /\ UNCHANGED <<series, listed, mdStatus, age, checked, recency, failures>>

\* refresh_one and its commit.
RefreshOne ==
  /\ todo # <<>>
  /\ LET r == Head(todo) IN
       /\ \/ /\ series[r] = "none"
             /\ mdStatus' = [mdStatus EXCEPT ![r] = "no_series"] /\ age' = age
          \/ /\ series[r] # "none"
             /\ \E s \in {"ok", "implausible"} : mdStatus' = [mdStatus EXCEPT ![r] = s]
             /\ age' = [age EXCEPT ![r] = IF series[r] = "moving" THEN 0 ELSE Fresh]
       /\ checked' = [checked EXCEPT ![r] = 0]
       /\ recency' = Touched(r)
  /\ todo' = Tail(todo)
  /\ UNCHANGED <<series, listed, running, failures>>

\* An attempt raises and is rolled back: the row stays as it was.
RefreshRaises ==
  /\ todo # <<>> /\ failures < MaxFailures
  /\ failures' = failures + 1 /\ todo' = Tail(todo)
  /\ UNCHANGED <<series, listed, mdStatus, age, checked, recency, running>>

\* The pass ends; the time until the next one goes by, counted where it is read.
EndRefresh ==
  /\ running
  /\ \/ todo = <<>> /\ UNCHANGED failures
     \/ todo # <<>> /\ failures < MaxFailures /\ failures' = failures + 1
  /\ running' = FALSE /\ todo' = <<>>
  /\ age' = [r \in Rows |-> IF mdStatus[r] = "ok" /\ age[r] < Fresh THEN age[r] + 1 ELSE age[r]]
  /\ checked' = [r \in Rows |-> IF mdStatus[r] \in Fruitless /\ checked[r] < RetryAfter
                                 THEN checked[r] + 1 ELSE checked[r]]
  /\ UNCHANGED <<series, listed, mdStatus, recency>>

PerfNext ==
  \/ \E r \in Rows : List(r) \/ Trade(r)
  \/ StartRefresh \/ RefreshOne \/ RefreshRaises \/ EndRefresh

\* The worker runs a pass every fourth cycle; each call in it has a timeout.
RefreshStep == StartRefresh \/ RefreshOne \/ EndRefresh
PerfFairness == WF_perfVars(RefreshStep)

PerfSpec == PerfInit /\ [][PerfNext]_perfVars /\ PerfFairness

-----------------------------------------------------------------------------
\* The places of the passes in which each listed row comes up once are enough
\* for row r when all the others come before it: a security that has ended is
\* stale in every pass, the others once in Period of them.
Period == IF Fresh < RetryAfter THEN Fresh ELSE RetryAfter

HasPlace(r) ==
  LET ended == {q \in listed \ {r} : series[q] = "ended"} IN
    Cardinality(ended) * Period + Cardinality(listed \ (ended \cup {r})) < PerfLimit * Period

\* A listed row that was never attempted; and, as long as there is a place for
\* it, a security that trades whose snapshot is stale, or that was not found.
Waiting(r) ==
  /\ r \in listed
  /\ \/ mdStatus[r] = ""
     \/ /\ series[r] = "moving" /\ HasPlace(r)
        /\ mdStatus[r] = "no_series" \/ (mdStatus[r] = "ok" /\ age[r] = Fresh)

\* Bounded passes serve every row in the end: one that was never attempted
\* whatever the others ask for ("a bounded pass extends coverage before it
\* refreshes", performance.py:271), a stale snapshot and a symbol without history
\* ("retried on a schedule", performance.py:8) as long as there are places for
\* all.  With more rows than places the order by updated_at, which every service
\* renews (models.py:175), serves the same rows again and starves the others.
RowsAreServed == \A r \in Rows : []<>~Waiting(r)

=============================================================================

--------------------------- MODULE PredictionLedger ---------------------------
(***************************************************************************)
(* The grading of forward predictions (services/outcomes.py, classified by *)
(* services/forward_grading.py) beside the refreshes of IpoLifecycle.  All *)
(* forward predictions of an issue are kept as the set of the outcomes     *)
(* attached to them.                                                       *)
(***************************************************************************)
EXTENDS IpoLifecycle

CONSTANTS
  Limit,       \* rows per grading pass
  Windows,     \* return windows after the listing session (7 days, 30 days, ...)
  MaxGaps      \* bound: gradings that find no usable price series

ASSUME LedgerAssumption == Limit \in Nat \ {0} /\ Windows \in Nat /\ MaxGaps \in Nat

VARIABLES
  elapsed,     \* sessions that closed since the listing: 0 on the first day
  cooling,     \* a blocked attempt is less than RETRY_BLOCKED_AFTER_DAYS old
  gaps         \* gradings without a usable price series

ledgerVars == <<elapsed, cooling, gaps>>
vars == <<lifeVars, ledgerVars>>

Blocked == [state |-> "BLOCKED_MARKET_DATA", windows |-> 0]
Graded(n) == [state |-> "GRADED", windows |-> n]

\* classify_prediction.
Category(k, outcome) ==
  LET r == row[k]
      days == elapsed[k[1]]
  IN IF r.status \in {"NotIPO", "Withdrawn"}    THEN "INVALID_FORWARD_RECORD"
     ELSE IF outcome.state = "GRADED"            THEN "GRADED"
     ELSE IF r.status # "Listed"                 THEN "NOT_YET_ELIGIBLE"
     ELSE IF ~r.dated                            THEN "BLOCKED_IDENTITY"
     ELSE IF days < 1                            THEN "NOT_YET_ELIGIBLE"
     ELSE IF ~r.symbol                           THEN "BLOCKED_IDENTITY"
     ELSE IF ~r.priced                           THEN "BLOCKED_OFFER_PRICE"
     ELSE IF outcome.state = "BLOCKED_MARKET_DATA" THEN "BLOCKED_MARKET_DATA"
     ELSE "PENDING"

\* Mutant: an attempt that found no price series is never due again.
DueOnce(k) == {o \in forwards[k] : Category(k, o) = "PENDING"}

\* The predictions of an issue a grading pass takes up.
Due(k) ==
  {o \in forwards[k] : \/ Category(k, o) = "PENDING"
                       \/ Category(k, o) = "BLOCKED_MARKET_DATA" /\ ~cooling[k]}

LedgerInit ==
  /\ Init
  /\ elapsed = [o \in Offerings |-> 0]
  /\ cooling = [k \in Keys |-> FALSE]
  /\ gaps = 0

\* sync_prediction_outcomes, which the worker runs between its refresh and the
\* daily passes.  Issues in missing have no usable series.
SyncOutcomes ==
  LET due == {k \in Keys : Due(k) # {}} IN
  \E todo \in SUBSET due :
    /\ sess[Worker].job = "history" /\ ~sess[Worker].open
    /\ todo # {}
    /\ \/ Cardinality(todo) = Limit
       \/ todo = due /\ Cardinality(due) < Limit
    /\ \E missing \in SUBSET todo :
         /\ gaps + Cardinality(missing) <= MaxGaps
         /\ gaps' = gaps + Cardinality(missing)
         /\ cooling' = [k \in Keys |-> cooling[k] \/ k \in missing]
         /\ forwards' = [k \in Keys |->
              CASE k \in missing -> (forwards[k] \ Due(k)) \cup {Blocked}
                [] k \in todo \ missing -> (forwards[k] \ Due(k)) \cup {Graded(elapsed[k[1]] - 1)}
                [] OTHER -> forwards[k]]
    /\ UNCHANGED <<stage, row, sess, trouble, overlapped, elapsed>>

\* A trading session closes after the offering listed.
SessionCloses(o) ==
  /\ stage[o] = "listed" /\ elapsed[o] <= Windows
  /\ elapsed' = [elapsed EXCEPT ![o] = @ + 1]
  /\ UNCHANGED <<lifeVars, cooling, gaps>>

RetryDue(k) ==
  /\ cooling[k]
  /\ cooling' = [cooling EXCEPT ![k] = FALSE]
  /\ UNCHANGED <<lifeVars, elapsed, gaps>>

LedgerNext ==
  \/ LifeNext /\ UNCHANGED ledgerVars
  \/ SyncOutcomes
  \/ \E o \in Offerings : SessionCloses(o)
  \/ \E k \in Keys : RetryDue(k)

Spec == LedgerInit /\ [][LedgerNext]_vars

\* The worker's cycle goes on: its calls to sources have timeouts, its failures
\* are caught, and every fourth cycle grades.  Clocks advance.
FairSpec ==
  /\ Spec
  /\ WF_vars((Begin(Worker) \/ CommitPass(Worker)) /\ UNCHANGED ledgerVars)
  /\ SF_vars(SyncOutcomes)
  /\ WF_vars(\E o \in Offerings : SessionCloses(o))
  /\ WF_vars(\E k \in Keys : RetryDue(k))

-----------------------------------------------------------------------------
\* The forward predictions of an issue "share one realized outcome"
\* (outcomes.py:6): none is added to an issue that has been graded, or tried, and
\* the row of such an issue is closed to predictions.  It takes a status that
\* never goes back, hence one refresh at a time.  That each "was written before
\* the outcome was known" is not claimed: the row goes on being predicted until a
\* source says that the issue has listed, days after its first session maybe.
OneOutcome ==
  ~overlapped =>
    \A k \in Keys : /\ Cardinality(forwards[k]) <= 1
                    /\ forwards[k] \subseteq {Ungraded} \/ row[k].status \in Terminal

\* The Indian issues that list and are known by their symbol are Listed in the
\* end, for good, also when a stale refresh took a row back meanwhile: the past
\* issues and the masters list it again.
EventuallyListed ==
  <>[](\A k \in {j \in Keys : j[1] \in India} :
         stage[k[1]] = "listed" /\ row[k].symbol => row[k].status \in {"Listed", "NotIPO"})

\* The forward predictions of the issues that list are graded in the end: no
\* prediction is dropped, and a missing price series is tried again.
EventuallyGraded ==
  <>[](\A k \in {j \in Keys : j[1] \in India \ Junk} :
         stage[k[1]] = "listed" /\ row[k].symbol /\ forwards[k] # {} =>
           \E o \in forwards[k] : o.state = "GRADED")

\* What is predicted of an issue that lists comes to be shown and judged.
PredictionsAreJudged == EventuallyListed /\ EventuallyGraded

\* models.py:237, PredictionOutcome: "this row IS updated in place as more
\* return windows become observable (7d now, 6m/12m/24m only once enough time
\* has passed)".  The code never takes up a graded prediction again.
WindowsFillIn ==
  \A k \in Keys :
    (\E o \in forwards[k] : o.state = "GRADED") ~>
      (\E o \in forwards[k] : o.state = "GRADED" /\ o.windows = Windows)

=============================================================================

---------------------------- MODULE BackfillWalk ----------------------------
(***************************************************************************)
(* The walk of scripts/backfill_us_priced.py over EDGAR's daily indexes,   *)
(* from the start of the window to the day the live ingestion took over.   *)
(* Days are the business days; a run does a few, commits each, and leaves  *)
(* where it got to in its IngestionRun row, when it gets to its end.       *)
(***************************************************************************)
EXTENDS Integers, FiniteSets, FiniteSetsExt

CONSTANTS
  LiveFrom,    \* the first listing date the live ingestion wrote
  Filings,     \* issuers (CIKs) with a 424B4 in the window
  FiledOn,     \* [Filings -> SUBSET (1..LiveFrom)], the days they filed one
  Holidays,    \* days without an index
  Budget,      \* --days
  MaxRefusals, \* bound: downloads that fail, of an index or of a filing
  MaxDeaths     \* bound: runs that die

ASSUME WalkAssumption ==
  LiveFrom \in Nat \ {0} /\ Budget \in Nat \ {0}
    /\ FiledOn \in [Filings -> SUBSET (1..LiveFrom)]

VARIABLES
  listings,    \* days of the US Listed rows
  tracked,     \* CIKs with a row
  through,     \* newest day a run recorded, 0 when none has
  targetEnd,   \* newest end a run recorded, -1 when none has
  walk,        \* the open run
  scans,       \* [1..LiveFrom -> Nat], times a day was completed
  missed,      \* issuers whose filing a completed day could not download
  finished,    \* a run ended "completed"
  orphaned,    \* a run died that had stored rows, with no end recorded yet
  refusals, deaths

walkVars == <<listings, tracked, through, targetEnd, walk, scans, missed,
              finished, orphaned, refusals, deaths>>
walkBounds == <<refusals, deaths>>

NoWalk == [open |-> FALSE, at |-> 0, last |-> 0, done |-> 0]

WalkInit ==
  /\ listings = {LiveFrom} /\ tracked = {}
  /\ through = 0 /\ targetEnd = -1 /\ walk = NoWalk
  /\ scans = [d \in 1..LiveFrom |-> 0] /\ missed = {}
  /\ finished = FALSE /\ orphaned = FALSE /\ refusals = 0 /\ deaths = 0

\* Mutants: the end is worked out anew by every run; a resumed run repeats the
\* day the last one completed.
LastDayAnew == Min(listings) - 1
FirstDayAgain == Max({1, through})

\* recorded_target_end, else the day before earliest_live_listing.
WalkLast == IF targetEnd >= 0 THEN targetEnd ELSE Min(listings) - 1
\* The day after last_completed_day, else window_start.
WalkFirst == through + 1

StartWalk ==
  /\ ~walk.open /\ walk' = [open |-> TRUE, at |-> WalkFirst, last |-> WalkLast, done |-> 0]
  /\ UNCHANGED <<listings, tracked, through, targetEnd, scans, missed, finished, orphaned, walkBounds>>

AtWork == walk.open /\ walk.at <= walk.last /\ walk.done < Budget

\* The commit of a day on which the issuers of stored are found to be IPOs.
CompleteDay(stored) ==
  /\ walk' = [walk EXCEPT !.at = @ + 1, !.done = @ + 1]
  /\ scans' = [scans EXCEPT ![walk.at] = @ + 1]
  /\ tracked' = tracked \cup stored
  /\ listings' = IF stored = {} THEN listings ELSE listings \cup {walk.at}
  /\ UNCHANGED <<through, targetEnd, finished, orphaned, deaths>>

\* A day of filings: those of untracked issuers are read, and stored, or found
\* not to be an IPO or inconclusive.  A download that fails is not tried again.
ScanDay ==
  /\ AtWork /\ walk.at \notin Holidays
  /\ LET fresh == {c \in Filings : walk.at \in FiledOn[c]} \ tracked
     IN \E failed \in SUBSET fresh : \E stored \in SUBSET (fresh \ failed) :
          /\ refusals' = refusals + Cardinality(failed) /\ refusals' <= MaxRefusals
          /\ missed' = missed \cup failed
          /\ CompleteDay(stored)

\* DailyIndexUnavailable.
SkipHoliday ==
  /\ AtWork /\ walk.at \in Holidays
  /\ CompleteDay({}) /\ UNCHANGED <<missed, refusals>>

\* What a run leaves behind at its end, whatever stopped it.
EndWalk ==
  /\ walk' = NoWalk
  /\ through' = Max({through, walk.at - 1})
  /\ targetEnd' = Max({targetEnd, walk.last})
  /\ UNCHANGED <<listings, tracked, scans, missed, orphaned, deaths>>

Completed == walk.open /\ walk.at > walk.last /\ finished' = TRUE /\ EndWalk /\ UNCHANGED refusals

\* The day budget or the time is up.
BudgetReached == walk.open /\ walk.at <= walk.last /\ EndWalk /\ UNCHANGED <<finished, refusals>>

\* The index cannot be fetched: the day is left to the next run.
IndexRefused ==
  /\ AtWork /\ refusals < MaxRefusals /\ refusals' = refusals + 1
  /\ EndWalk /\ UNCHANGED finished

WalkDies ==
  /\ walk.open /\ deaths < MaxDeaths /\ deaths' = deaths + 1
  /\ walk' = NoWalk
  /\ orphaned' = (orphaned \/ (targetEnd < 0 /\ listings # {LiveFrom}))
  /\ UNCHANGED <<listings, tracked, through, targetEnd, scans, missed, finished, refusals>>

WalkNext ==
  \/ StartWalk \/ ScanDay \/ SkipHoliday \/ Completed \/ BudgetReached
  \/ IndexRefused \/ WalkDies

WalkSpec == WalkInit /\ [][WalkNext]_walkVars

-----------------------------------------------------------------------------
\* A walk that says it is complete has been through every day before the live
\* ingestion's, over failed fetches, budgets and deaths, unless a first run
\* died: the rows it left make the next take its own first find for the end.
GapIsClosed ==
  finished /\ ~orphaned => \A d \in 1..(LiveFrom - 1) : scans[d] > 0

\* backfill_us_priced.py:16: "Re-running never re-scans", except that a run
\* that dies takes its place in the window with it.
NeverRescans == \A d \in 1..LiveFrom : scans[d] <= 1 + deaths

\* An issuer that filed on a day the walk went past was looked at, unless its
\* only downloads failed; and days are gone past in order.
WalkIsInOrder == \A d \in 1..LiveFrom : d <= through => scans[d] > 0

\* The walk leaves no gap and does nothing twice.
WalkCloses == GapIsClosed /\ NeverRescans /\ WalkIsInOrder
=============================================================================

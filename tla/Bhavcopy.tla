------------------------------ MODULE Bhavcopy ------------------------------
(***************************************************************************)
(* The store of NSE's daily price files (services/nse_bhavcopy.py) under   *)
(* the daily refresh of scripts/refresh_data.py: resolve the ISINs of new  *)
(* listings, re-read files for them, read the files of the last days, and  *)
(* prune the bars that no return window reads.  A day's file is posted     *)
(* some time that day, before or after the refresh; it is one commit of    *)
(* the ledger and of the bars of the ISINs of interest.  A file that       *)
(* cannot be unpacked has no rows and is recorded as read all the same.    *)
(***************************************************************************)
EXTENDS Integers, FiniteSets, FiniteSetsExt

CONSTANTS
  Isins,
  Listing,       \* day of the first session of each ISIN
  FinalDay,      \* bound: days 0..FinalDay
  Trading,       \* days with a session; the others are market holidays
  ReadBack,      \* BHAVCOPY_LOOKBACK_DAYS: days read again by a refresh
  MaxFiles,      \* files fetched by a refresh
  NewListing,    \* days within which a listing without bars is read again
  KeepListing,   \* LISTING_KEEP_DAYS
  KeepRecent,    \* RECENT_KEEP_DAYS
  ReturnWindows, \* days of the return windows
  Targets,       \* WINDOW_TARGET_DAYS
  Slack,         \* WINDOW_SLACK_DAYS
  AnchorDays,    \* FIRST_BAR_TOLERANCE_DAYS and the 14 days after, in days
  MaxMisses      \* bound: failed fetches, unreadable files, and refreshes that
                 \* do not run or die

BarDays == 0..FinalDay

ASSUME BhavcopyAssumption ==
  /\ {FinalDay, ReadBack, MaxFiles, NewListing, MaxMisses} \subseteq Nat
  /\ {KeepListing, KeepRecent, Slack, AnchorDays} \subseteq Nat
  /\ Trading \subseteq BarDays /\ Listing \in [Isins -> Trading]
  /\ MaxFiles > ReadBack /\ Targets \subseteq ReturnWindows /\ ReturnWindows \subseteq Nat
  /\ \A w \in ReturnWindows \ Targets : w <= KeepListing

VARIABLES
  today,
  posted,     \* days whose file is on the server
  due,        \* history: the bars of the posted files, of the ISINs known by then
  lost,       \* history: days recorded as read without the bars of every ISIN
  ledger,     \* bhavcopy_days: what became of a day's file
  bars,       \* price_bars: pairs of an ISIN and a day
  unpruned,   \* history: every bar ever stored
  identified, \* ISINs that table ipos holds, Listed, with their listing date
  step,       \* the refresh's next step
  pass,       \* the open ingest_days
  misses

bhavVars == <<today, posted, due, lost, ledger, bars, unpruned, identified, step, pass, misses>>

RefreshSteps == {"resolve", "backfill", "ingest", "prune", "rest"}
NoPass == [open |-> FALSE, at |-> 0, interest |-> {}, force |-> FALSE, fetched |-> 0]

BarsOf(i, stored) == {d \in BarDays : <<i, d>> \in stored}

-----------------------------------------------------------------------------
(* What market.windowed_returns reads of the days that have a bar.          *)

LastUpTo(ds, target) ==
  LET before == {d \in ds : d <= target} IN IF before = {} THEN -1 ELSE Max(before)

Anchor(ds, listing) ==
  LET near == {d \in ds : listing - AnchorDays <= d}
  IN IF near = {} \/ Min(near) > listing + AnchorDays THEN -1 ELSE Min(near)

\* The bars the returns are computed from, -1 for a return that is absent.
ReadBars(ds, listing) ==
  LET at == Anchor(ds, listing) IN
  [latest |-> LastUpTo(ds, FinalDay), listing |-> at,
   forward |-> [w \in ReturnWindows |->
     IF at = -1 \/ at + w > LastUpTo(ds, FinalDay) THEN -1 ELSE LastUpTo(ds, at + w)]]

\* Mutant: no slack before the targets.
KeepTargetDay(d, listing) ==
  \/ d >= today - KeepRecent
  \/ listing <= d /\ d <= listing + KeepListing
  \/ \E w \in Targets : d = listing + w

\* keep_trade_date.
KeepTradeDate(d, listing) ==
  \/ d >= today - KeepRecent
  \/ listing <= d /\ d <= listing + KeepListing
  \/ \E w \in Targets : listing + w - Slack <= d /\ d <= listing + w

-----------------------------------------------------------------------------
BhavInit ==
  /\ today = 0 /\ posted = {} /\ due = {} /\ lost = {}
  /\ ledger = [d \in BarDays |-> "none"]
  /\ bars = {} /\ unpruned = {} /\ identified = {}
  /\ step = "resolve" /\ pass = NoPass /\ misses = 0

Post ==
  /\ today \in Trading \ posted
  /\ posted' = posted \cup {today}
  /\ due' = due \cup {<<i, today>> : i \in identified}
  /\ UNCHANGED <<today, lost, ledger, bars, unpruned, identified, step, pass, misses>>

\* The refresh is daily; a day goes by without one, or with half of one, only
\* by mishap.
NextBarDay ==
  /\ today < FinalDay /\ (today \in Trading => today \in posted)
  /\ \/ step = "rest" /\ UNCHANGED misses
     \/ step # "rest" /\ misses < MaxMisses /\ misses' = misses + 1
  /\ today' = today + 1
  /\ step' = "resolve" /\ pass' = NoPass
  /\ UNCHANGED <<posted, due, lost, ledger, bars, unpruned, identified>>

\* resolve_india_symbols, or a report that prints the ISIN, some time after the
\* listing.
ResolveIsins ==
  /\ step = "resolve"
  /\ \E found \in SUBSET {i \in Isins : Listing[i] <= today} : identified' = identified \cup found
  /\ step' = "backfill"
  /\ UNCHANGED <<today, posted, due, lost, ledger, bars, unpruned, pass, misses>>

\* The recent listings without a bar.
BarsMissing == {i \in identified : Listing[i] >= today - NewListing /\ BarsOf(i, bars) = {}}

\* backfill_new_listings.
StartBackfill ==
  /\ step = "backfill" /\ ~pass.open
  /\ IF BarsMissing = {} THEN step' = "ingest" /\ pass' = pass
     ELSE /\ step' = step
          /\ pass' = [open |-> TRUE, at |-> Min({Listing[i] : i \in BarsMissing}),
                      interest |-> BarsMissing, force |-> TRUE, fetched |-> 0]
  /\ UNCHANGED <<today, posted, due, lost, ledger, bars, unpruned, identified, misses>>

\* ingest_days over the last days, for every ISIN known.
StartIngest ==
  /\ step = "ingest" /\ ~pass.open
  /\ pass' = [open |-> TRUE, at |-> Max({0, today - ReadBack}), interest |-> identified,
              force |-> FALSE, fetched |-> 0]
  /\ UNCHANGED <<today, posted, due, lost, ledger, bars, unpruned, identified, step, misses>>

\* Mutants: a day that failed is not read again; a re-read takes only new days.
FinalFailed(d) == ledger[d] \in {"holiday", "error"} \/ (ledger[d] = "ok" /\ ~pass.force)
FinalRead(d) == ledger[d] \in {"holiday", "ok"}

\* A day that ingest_days skips.
Final(d) == ledger[d] = "holiday" \/ (ledger[d] = "ok" /\ ~pass.force)

AfterDay(fetches) ==
  /\ pass' = [pass EXCEPT !.at = @ + 1, !.fetched = @ + fetches]
  /\ UNCHANGED <<today, posted, due, identified, step>>

\* The backfill is bounded by its own, larger, number of files.
ReadingDay(d) ==
  /\ pass.open /\ d = pass.at /\ d <= today
  /\ ~Final(d) /\ (pass.fetched < MaxFiles \/ pass.force)

SkipDay ==
  /\ pass.open /\ pass.at <= today /\ Final(pass.at)
  /\ AfterDay(0) /\ UNCHANGED <<lost, ledger, bars, unpruned, misses>>

\* store_rows.
Stored(d) == {<<i, d>> : i \in {j \in pass.interest : Listing[j] <= d}}

\* A day that nobody has read, taken by a backfill, is read for the backfill's
\* own ISINs: the ingest then skips it.
ReadFile(d) ==
  /\ ReadingDay(d) /\ d \in posted
  /\ ledger' = [ledger EXCEPT ![d] = "ok"]
  /\ bars' = bars \cup Stored(d) /\ unpruned' = unpruned \cup Stored(d)
  /\ lost' = IF ledger[d] # "ok" /\ pass.interest # identified THEN lost \cup {d} ELSE lost
  /\ AfterDay(1) /\ UNCHANGED misses

\* parse_bhavcopy returns no rows of a payload it cannot unpack, and the day is
\* recorded as read.
Unreadable(d) ==
  /\ ReadingDay(d) /\ d \in posted /\ misses < MaxMisses
  /\ misses' = misses + 1
  /\ ledger' = [ledger EXCEPT ![d] = "ok"]
  /\ lost' = IF ledger[d] = "ok" THEN lost ELSE lost \cup {d}
  /\ AfterDay(1) /\ UNCHANGED <<bars, unpruned>>

\* fetch_day finds no file: 404.
NoFile(d) ==
  /\ ReadingDay(d) /\ d \notin posted
  /\ ledger' = [ledger EXCEPT ![d] = "holiday"]
  /\ AfterDay(1) /\ UNCHANGED <<lost, bars, unpruned, misses>>

\* Any other failure is rolled back and recorded, also over an earlier "ok".
FetchFails(d) ==
  /\ ReadingDay(d) /\ misses < MaxMisses
  /\ misses' = misses + 1
  /\ ledger' = [ledger EXCEPT ![d] = "error"]
  /\ AfterDay(1) /\ UNCHANGED <<lost, bars, unpruned>>

EndPass ==
  /\ pass.open
  /\ \/ pass.at > today
     \/ pass.at \in BarDays /\ ~Final(pass.at) /\ ~pass.force /\ pass.fetched >= MaxFiles
  /\ pass' = NoPass
  /\ step' = IF pass.force THEN "ingest" ELSE "prune"
  /\ UNCHANGED <<today, posted, due, lost, ledger, bars, unpruned, identified, misses>>

\* prune_bars.
PruneBars ==
  /\ step = "prune" /\ step' = "rest"
  /\ bars' = {b \in bars : b[1] \in identified /\ KeepTradeDate(b[2], Listing[b[1]])}
  /\ UNCHANGED <<today, posted, due, lost, ledger, unpruned, identified, pass, misses>>

BhavNext ==
  \/ Post \/ NextBarDay \/ ResolveIsins \/ StartBackfill \/ StartIngest
  \/ SkipDay \/ EndPass \/ PruneBars
  \/ \E d \in BarDays : ReadFile(d) \/ Unreadable(d) \/ NoFile(d) \/ FetchFails(d)

BhavSpec == BhavInit /\ [][BhavNext]_bhavVars

-----------------------------------------------------------------------------
\* A day's bars are stored before the day leaves the window, through failed
\* fetches and missed refreshes that do not fill it, except on the days that the
\* ledger wrongly closes: recorded as a holiday because the file was asked for
\* before it was posted, or as read although it could not be unpacked or was
\* read for a backfill's ISINs alone (nse_bhavcopy.py:162, 172-178, 214).
FilesArrive ==
  MaxMisses <= ReadBack => \A b \in due :
    today > b[2] + ReadBack => b \in unpruned \/ ledger[b[2]] = "holiday" \/ b[2] \in lost

\* A refresh without mishap gives every listing it has an ISIN for the bar of
\* its first session, however late the ISIN was learned, unless that session is
\* recorded as a holiday.
ListingBarArrives ==
  (misses = 0 /\ step = "rest") =>
    \A i \in identified : <<i, Listing[i]>> \in bars \/ ledger[Listing[i]] = "holiday"
                     \/ Listing[i] < today - NewListing

\* The bars of an ISIN have no gap longer than the slack, and reach today.
Continuous(ds) ==
  /\ \A d \in ds : d = Max(ds) \/ \E e \in ds : d < e /\ e <= d + Slack + 1
  /\ Max(ds) >= today - KeepRecent

\* nse_bhavcopy.py:240: prune_bars "keeps exactly what the return windows can
\* read, with slack for holidays, so every computed return is identical before
\* and after pruning": repeated prunings and re-reads leave what the returns
\* read of the unpruned series.  It takes a bar on the listing date itself (the
\* targets are counted from the first bar, the kept days from the listing date),
\* a series without long gaps, and a security that still trades.
PruneKeepsReturns ==
  step = "rest" => \A i \in identified :
    LET ds == BarsOf(i, unpruned) IN
      (Listing[i] \in ds /\ Continuous(ds)) =>
        ReadBars(BarsOf(i, bars), Listing[i]) = ReadBars(ds, Listing[i])

\* The days and bars a refresh is for arrive, and what returns read stays.
BarsAreKept == FilesArrive /\ ListingBarArrives /\ PruneKeepsReturns
=============================================================================

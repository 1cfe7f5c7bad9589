---------------------------- MODULE MarketProofs ----------------------------
(***************************************************************************)
(* What the store of daily prices keeps, for any securities, listings and  *)
(* calendar of sessions: the files arrive in spite of mishaps, listings    *)
(* get the bar of their first session, and pruning takes nothing that a    *)
(* return reads.  And what the evaluation of the model says of its folds,  *)
(* its metrics and its gate, for any sample.  The inductions over days and *)
(* over sets of rows are by least counterexample.                          *)
(***************************************************************************)
EXTENDS Bhavcopy, ModelGate, FiniteSetTheorems, WellFoundedInduction, TLAPS

(* Extremes of sets of days. *)

LEMMA LeastNumber ==
  ASSUME NEW S \in SUBSET Nat, S # {}
  PROVE  \E x \in S : \A y \in S : x <= y
<1> DEFINE R == OpToRel(<, Nat)
<1>1. IsWellFoundedOn(R, Nat)
  BY NatLessThanWellFounded
<1>2. \A x, y \in Nat : <<y, x>> \in R <=> y < x
  BY DEF OpToRel
<1> HIDE DEF R
<1>3. PICK x \in S : \A y \in S : ~(<<y, x>> \in R)
  BY <1>1, WFMin, Zenon
<1>4. ASSUME NEW y \in S PROVE x <= y
  <2>1. x \in Nat /\ y \in Nat /\ ~(<<y, x>> \in R)
    BY <1>3
  <2> QED
    BY <2>1, <1>2
<1> QED
  BY <1>4

LEMMA MinOf ==
  ASSUME NEW S \in SUBSET Nat, S # {}
  PROVE  Min(S) \in S /\ \A y \in S : Min(S) <= y
BY LeastNumber DEF Min

LEMMA MaxOf ==
  ASSUME NEW n \in Nat, NEW S \in SUBSET (0..n), S # {}
  PROVE  Max(S) \in S /\ \A y \in S : Max(S) >= y
<1> DEFINE T == {k \in Nat : \E x \in S : k = n - x}
<1>0. \A x \in S : x \in 0..n
  OBVIOUS
<1>1. T \in SUBSET Nat /\ T # {}
  <2>1. PICK x : x \in S
    OBVIOUS
  <2>2. n - x \in T
    BY <2>1, <1>0
  <2> QED
    BY <2>2
<1>2. PICK t \in T : \A y \in T : t <= y
  <2> HIDE DEF T
  <2> QED
    BY <1>1, LeastNumber
<1>3. PICK x \in S : t = n - x
  OBVIOUS
<1>4. ASSUME NEW y \in S PROVE x >= y
  <2>1. n - y \in T
    BY <1>0
  <2>2. t <= n - y
    BY <1>2, <2>1
  <2> QED
    BY <1>0, <1>3, <2>2
<1> QED
  BY <1>4 DEF Max

-----------------------------------------------------------------------------
(* What returns read of pruned bars. *)

LEMMA Numbers ==
  /\ FinalDay \in Nat /\ ReadBack \in Nat /\ MaxFiles \in Nat /\ NewListing \in Nat
  /\ MaxMisses \in Nat /\ KeepListing \in Nat /\ KeepRecent \in Nat /\ Slack \in Nat
  /\ AnchorDays \in Nat /\ BarDays = 0..FinalDay
  /\ \A i \in Isins : Listing[i] \in Trading /\ Listing[i] \in 0..FinalDay
  /\ \A w \in ReturnWindows : w \in Nat /\ (w \in Targets \/ w <= KeepListing)
  BY BhavcopyAssumption DEF BarDays

\* The days that the pruned series ds may have lost are of no use to it.
LEMMA LastKept ==
  ASSUME NEW target \in Int, NEW B, NEW ds, B \subseteq ds, ds \subseteq BarDays,
         \A d \in ds : d <= target /\ (\A e \in ds : e <= target => e <= d) => d \in B
  PROVE  LastUpTo(B, target) = LastUpTo(ds, target)
<1> USE Numbers
<1> DEFINE all == {d \in ds : d <= target}
           some == {d \in B : d <= target}
<1>1. all \in SUBSET (0..FinalDay) /\ some \subseteq all /\ FinalDay \in Nat
  BY DEF BarDays
<1>2. CASE all = {}
  BY <1>1, <1>2 DEF LastUpTo
<1>3. CASE all # {}
  <2>1. Max(all) \in all /\ \A y \in all : Max(all) >= y
    <3> HIDE DEF all
    <3> QED
      BY <1>1, <1>3, MaxOf
  <2>2. Max(all) \in some
    <3>1. Max(all) \in ds /\ Max(all) <= target /\ Max(all) \in Int
      BY <2>1, <1>1
    <3>2. \A e \in ds : e <= target => e <= Max(all)
      BY <2>1
    <3> HIDE DEF all
    <3> QED
      BY <3>1, <3>2
  <2>3. some # {} /\ some \in SUBSET (0..FinalDay)
    BY <1>1, <2>2
  <2>4. Max(some) \in some /\ \A y \in some : Max(some) >= y
    <3> HIDE DEF some
    <3> QED
      BY <1>1, <2>3, MaxOf
  <2>5. Max(some) = Max(all)
    <3>1. Max(all) \in 0..FinalDay /\ Max(some) \in 0..FinalDay
      BY <1>1, <2>1, <2>4
    <3>2. Max(some) >= Max(all) /\ Max(all) >= Max(some)
      BY <1>1, <2>1, <2>2, <2>4
    <3> HIDE DEF all, some
    <3> QED
      BY <3>1, <3>2
  <2> QED
    BY <1>3, <2>3, <2>5 DEF LastUpTo
<1> QED
  BY <1>2, <1>3

\* A series without long gaps that has the bar of the listing: pruned at today,
\* it has the latest bar, the listing's and the last before every target.
LEMMA PrunedReads ==
  ASSUME today \in BarDays, NEW i \in Isins, NEW ds, NEW B, B \subseteq ds, ds \subseteq BarDays,
         \A d \in ds : Listing[i] <= d,
         \A d \in ds \ B : ~KeepTradeDate(d, Listing[i]),
         Listing[i] \in ds, Continuous(ds)
  PROVE  ReadBars(B, Listing[i]) = ReadBars(ds, Listing[i])
<1> USE Numbers
<1> DEFINE L == Listing[i]
<1>0. /\ L \in BarDays /\ ds # {} /\ \A d \in ds : d \in 0..FinalDay
      /\ FinalDay \in Nat /\ today \in 0..FinalDay
      /\ \A d \in ds : L <= d
  BY DEF BarDays
<1>1. L \in B
  BY <1>0 DEF KeepTradeDate
<1>2. /\ Max(ds) \in ds /\ \A y \in ds : Max(ds) >= y
      /\ Max(ds) \in B
  <2>1. Max(ds) \in ds /\ \A y \in ds : Max(ds) >= y
    BY <1>0, MaxOf
  <2>2. KeepTradeDate(Max(ds), L)
    BY DEF Continuous, KeepTradeDate
  <2> QED
    BY <2>1, <2>2
<1>3. LastUpTo(B, FinalDay) = LastUpTo(ds, FinalDay)
  <2>1. ASSUME NEW d \in ds, \A e \in ds : e <= FinalDay => e <= d PROVE d \in B
    <3>0. Max(ds) \in ds /\ Max(ds) >= d
      BY <1>2
    <3>0a. d \in 0..FinalDay /\ Max(ds) \in 0..FinalDay
      BY <3>0, <1>0, Zenon
    <3>1. d \in 0..FinalDay /\ Max(ds) \in 0..FinalDay /\ Max(ds) <= FinalDay
      BY <3>0a
    <3>1a. Max(ds) <= d
      BY <3>0, <3>1, <2>1
    <3>2. d = Max(ds)
      BY <3>0, <3>1, <3>1a
    <3> QED
      BY <3>2, <1>2
  <2>2. FinalDay \in Int
    BY <1>0
  <2> HIDE DEF L
  <2> QED
    BY <2>1, <2>2, LastKept
<1>4. ASSUME NEW C, C \subseteq ds, L \in C PROVE Anchor(C, L) = L
  <2> DEFINE near == {d \in C : L - AnchorDays <= d}
  <2>1. near = C
    <3>1. \A d \in C : L - AnchorDays <= d
      BY <1>0, <1>4
    <3> QED
      BY <3>1
  <2>2. C \in SUBSET Nat /\ C # {}
    BY <1>0, <1>4
  <2>3. Min(C) \in C /\ \A y \in C : Min(C) <= y
    BY <2>2, MinOf
  <2>4. Min(C) = L
    <3>1. Min(C) \in 0..FinalDay /\ Min(C) <= L /\ L <= Min(C)
      BY <1>0, <1>4, <2>3
    <3> QED
      BY <3>1, <1>0
  <2>5. ~(L > L + AnchorDays)
    BY <1>0 DEF BarDays
  <2> QED
    BY <2>1, <2>2, <2>4, <2>5 DEF Anchor
<1>5. Anchor(B, L) = L /\ Anchor(ds, L) = L
  BY <1>1, <1>4
<1>6. ASSUME NEW w \in ReturnWindows, ~(L + w > LastUpTo(ds, FinalDay))
      PROVE  LastUpTo(B, L + w) = LastUpTo(ds, L + w)
  <2>0. w \in Nat /\ L + w \in Int /\ L \in Nat
    BY <1>0 DEF BarDays
  <2>1. LastUpTo(ds, FinalDay) = Max(ds)
    <3>1. \A d \in ds : d <= FinalDay
      BY <1>0
    <3>2. {d \in ds : d <= FinalDay} = ds
      BY <3>1
    <3> QED
      BY <3>2, <1>0 DEF LastUpTo
  <2>2. ASSUME NEW d \in ds, d <= L + w, \A e \in ds : e <= L + w => e <= d PROVE d \in B
    <3>1. CASE d = Max(ds)
      BY <3>1, <1>2
    <3>2. CASE d # Max(ds)
      <4>1. PICK e \in ds : d < e /\ e <= d + Slack + 1
        BY <3>2 DEF Continuous
      <4>2. L + w < e
        BY <4>1, <2>2, <2>0, <1>0
      <4>3. L + w - Slack <= d /\ L <= d
        BY <4>1, <4>2, <2>0, <1>0
      <4>4. KeepTradeDate(d, L)
        <5>1. CASE w \in Targets
          BY <5>1, <4>3, <2>2 DEF KeepTradeDate
        <5>2. CASE w \notin Targets
          <6>1. w <= KeepListing
            BY <5>2
          <6>2. d <= L + KeepListing
            BY <6>1, <2>2, <2>0, <1>0
          <6> QED
            BY <6>2, <4>3 DEF KeepTradeDate
        <5> QED
          BY <5>1, <5>2
      <4> QED
        BY <4>4
    <3> QED
      BY <3>1, <3>2
  <2> QED
    BY <2>2, <2>0, LastKept
<1>7. [w \in ReturnWindows |-> IF L = -1 \/ L + w > LastUpTo(B, FinalDay) THEN -1 ELSE LastUpTo(B, L + w)]
      = [w \in ReturnWindows |-> IF L = -1 \/ L + w > LastUpTo(ds, FinalDay) THEN -1 ELSE LastUpTo(ds, L + w)]
  BY <1>3, <1>6
<1> QED
  BY <1>3, <1>5, <1>7 DEF ReadBars

-----------------------------------------------------------------------------
(* The invariant. *)

BarTypes ==
  /\ today \in 0..FinalDay /\ posted \in SUBSET Trading
  /\ due \in SUBSET (Isins \X Trading) /\ lost \in SUBSET BarDays
  /\ ledger \in [BarDays -> {"none", "ok", "holiday", "error"}]
  /\ bars \in SUBSET (Isins \X BarDays) /\ unpruned \in SUBSET (Isins \X BarDays)
  /\ identified \in SUBSET Isins /\ misses \in 0..MaxMisses
  /\ step \in RefreshSteps
  /\ pass \in [open : BOOLEAN, at : Nat, interest : SUBSET Isins, force : BOOLEAN, fetched : Nat]

\* A backfill is one that re-reads, an ingest starts with the days of the
\* window and has fetched no more files than it has passed days.
PassFits ==
  /\ pass.open => /\ step = IF pass.force THEN "backfill" ELSE "ingest"
                  /\ pass.interest \subseteq identified
                  /\ ~pass.force => pass.interest = identified
  /\ pass.open /\ ~pass.force =>
       pass.at >= today - ReadBack /\ pass.fetched + Max({0, today - ReadBack}) <= pass.at

\* The ledger and its histories agree; no bar is of another day than its file's
\* or of before the listing.
RecordsAgree ==
  /\ \A d \in BarDays : ledger[d] = "ok" => d \in posted
  /\ \A b \in due : ledger[b[2]] = "ok" => b[2] \in lost \/ b \in unpruned
  /\ \A b \in due : b[1] \in identified /\ Listing[b[1]] <= b[2] /\ b[2] \in posted
  /\ \A i \in identified : Listing[i] <= today
  /\ \A b \in unpruned : b[1] \in identified /\ Listing[b[1]] <= b[2]

\* A bar that is gone is of no use any more.
GoneIsUseless ==
  /\ bars \subseteq unpruned
  /\ \A b \in unpruned \ bars : ~KeepTradeDate(b[2], Listing[b[1]])

\* The ingest of today is past day d.
PastToday(d) ==
  step \in {"prune", "rest"} \/ (pass.open /\ ~pass.force /\ pass.at > d)

\* A day that the ledger leaves open, with bars still to come.
Awaited(d) ==
  /\ ledger[d] # "holiday" /\ d \notin lost
  /\ d \in posted => \E b \in due : b[2] = d /\ b \notin unpruned

\* Every refresh that did not bring a file cost a mishap.
UnreadIsYoung ==
  MaxMisses <= ReadBack =>
    \A d \in Trading : d <= today /\ Awaited(d) =>
      misses >= today - d + (IF PastToday(d) THEN 1 ELSE 0)

\* Without mishaps, a listing without its bar is about to be read again.
ListingIsComing ==
  misses = 0 => \A i \in identified :
    \/ <<i, Listing[i]>> \in bars \/ ledger[Listing[i]] = "holiday"
    \/ Listing[i] < today - NewListing
    \/ /\ step = "backfill" /\ BarsOf(i, bars) = {}
       /\ pass.open => pass.force /\ i \in pass.interest /\ pass.at <= Listing[i]

BarsInv ==
  /\ BarTypes /\ PassFits /\ RecordsAgree /\ GoneIsUseless /\ UnreadIsYoung
  /\ ListingIsComing

LEMMA BarsInit == BhavInit => BarsInv
  BY Numbers, BhavcopyAssumption
  DEF BhavInit, BarsInv, BarTypes, PassFits, RecordsAgree, GoneIsUseless, UnreadIsYoung,
    ListingIsComing, NoPass, RefreshSteps, BarDays, PastToday, Awaited

LEMMA BarsSafe == BarsInv => BarsAreKept
<1> SUFFICES ASSUME BarsInv PROVE BarsAreKept
  OBVIOUS
<1> USE Numbers
<1>1. FilesArrive
  <2> SUFFICES ASSUME MaxMisses <= ReadBack, NEW b \in due, today > b[2] + ReadBack,
                      b \notin unpruned, ledger[b[2]] # "holiday", b[2] \notin lost
               PROVE  FALSE
    BY DEF FilesArrive
  <2>1. b[2] \in 0..FinalDay /\ b[2] \in Trading
    BY BhavcopyAssumption DEF BarsInv, BarTypes
  <2>2. today \in 0..FinalDay /\ misses \in 0..MaxMisses
    BY DEF BarsInv, BarTypes
  <2>3. Awaited(b[2])
    BY DEF Awaited
  <2>4. misses >= today - b[2] + (IF PastToday(b[2]) THEN 1 ELSE 0)
    <3>1. b[2] <= today
      BY <2>1, <2>2
    <3> QED
      BY <2>1, <2>3, <3>1 DEF BarsInv, UnreadIsYoung
  <2> QED
    BY <2>1, <2>2, <2>4
<1>2. ListingBarArrives
  BY DEF ListingBarArrives, BarsInv, ListingIsComing
<1>3. PruneKeepsReturns
  <2> SUFFICES ASSUME NEW i \in identified, Listing[i] \in BarsOf(i, unpruned),
                      Continuous(BarsOf(i, unpruned))
               PROVE  ReadBars(BarsOf(i, bars), Listing[i]) = ReadBars(BarsOf(i, unpruned), Listing[i])
    BY DEF PruneKeepsReturns
  <2>1. i \in Isins /\ today \in BarDays
    BY DEF BarsInv, BarTypes
  <2>2. BarsOf(i, bars) \subseteq BarsOf(i, unpruned) /\ BarsOf(i, unpruned) \subseteq BarDays
    BY DEF BarsInv, GoneIsUseless, BarsOf
  <2>3. \A d \in BarsOf(i, unpruned) : Listing[i] <= d
    BY DEF BarsInv, RecordsAgree, BarsOf
  <2>4. \A d \in BarsOf(i, unpruned) \ BarsOf(i, bars) : ~KeepTradeDate(d, Listing[i])
    BY DEF BarsInv, GoneIsUseless, BarsOf
  <2> QED
    BY <2>1, <2>2, <2>3, <2>4, PrunedReads
<1> QED
  BY <1>1, <1>2, <1>3 DEF BarsAreKept

-----------------------------------------------------------------------------
(* The steps. *)

\* Days that have come.
LEMMA DaysAreNumbers ==
  ASSUME BarsInv
  PROVE  /\ today \in Nat /\ today <= FinalDay /\ misses \in Nat /\ misses <= MaxMisses
         /\ \A d \in Trading : d \in BarDays /\ d \in Nat
         /\ \A d \in BarDays : d \in Nat /\ d <= FinalDay
         /\ \A i \in identified : i \in Isins /\ Listing[i] \in Nat /\ Listing[i] \in Trading
         /\ pass.at \in Nat /\ pass.fetched \in Nat /\ pass.force \in BOOLEAN /\ pass.open \in BOOLEAN
  BY Numbers, BhavcopyAssumption DEF BarsInv, BarTypes

LEMMA WindowStarts ==
  ASSUME BarsInv
  PROVE  /\ Max({0, today - ReadBack}) \in Nat /\ Max({0, today - ReadBack}) >= today - ReadBack
         /\ Max({0, today - ReadBack}) \in {0, today - ReadBack}
<1>1. today \in Nat /\ ReadBack \in Nat
  BY DaysAreNumbers, Numbers
<1>2. Max({0, today - ReadBack}) = IF today - ReadBack >= 0 THEN today - ReadBack ELSE 0
  <2> DEFINE x == today - ReadBack
  <2>1. x \in Int
    BY <1>1
  <2>2. CASE x >= 0
    <3>1. x \in {0, x} /\ \A y \in {0, x} : x >= y
      BY <2>1, <2>2
    <3>2. \A z \in {0, x} : (\A y \in {0, x} : z >= y) => z = x
      BY <2>1, <2>2
    <3> QED
      BY <2>2, <3>1, <3>2 DEF Max
  <2>3. CASE ~(x >= 0)
    <3>1. 0 \in {0, x} /\ \A y \in {0, x} : 0 >= y
      BY <2>1, <2>3
    <3>2. \A z \in {0, x} : (\A y \in {0, x} : z >= y) => z = 0
      BY <2>1, <2>3
    <3> QED
      BY <2>3, <3>1, <3>2 DEF Max
  <2> QED
    BY <2>2, <2>3
<1> QED
  BY <1>1, <1>2

LEMMA PostStep == ASSUME BarsInv, Post PROVE BarsInv'
<1> USE Numbers, DaysAreNumbers
<1>1. /\ today \in Trading /\ today \notin posted /\ posted' = posted \cup {today}
      /\ due' = due \cup {<<i, today>> : i \in identified}
      /\ UNCHANGED <<today, lost, ledger, bars, unpruned, identified, step, pass, misses>>
  BY DEF Post
<1>2. BarTypes'
  BY <1>1 DEF BarsInv, BarTypes
<1>3. PassFits' /\ GoneIsUseless' /\ ListingIsComing'
  BY <1>1 DEF BarsInv, PassFits, GoneIsUseless, ListingIsComing, KeepTradeDate, BarsOf
<1>4. \A b \in due' : b \in due \/ (b[2] = today /\ b[1] \in identified)
  BY <1>1
<1>5. RecordsAgree'
  <2>1. ledger[today] # "ok"
    BY <1>1 DEF BarsInv, RecordsAgree
  <2>2. \A b \in due' : ledger[b[2]] = "ok" => b[2] \in lost \/ b \in unpruned
    BY <1>4, <2>1 DEF BarsInv, RecordsAgree
  <2>3. \A b \in due' : b[1] \in identified /\ Listing[b[1]] <= b[2] /\ b[2] \in posted'
    BY <1>1, <1>4 DEF BarsInv, RecordsAgree
  <2> QED
    BY <1>1, <2>2, <2>3 DEF BarsInv, RecordsAgree
<1>6. UnreadIsYoung'
  <2> SUFFICES ASSUME MaxMisses <= ReadBack, NEW d \in Trading, d <= today, Awaited(d)'
               PROVE  misses >= today - d + (IF PastToday(d)' THEN 1 ELSE 0)
    BY <1>1 DEF UnreadIsYoung
  <2>1. Awaited(d)
    <3>1. CASE d = today
      BY <1>1, <3>1 DEF Awaited
    <3>2. CASE d # today
      BY <1>1, <1>4, <3>2 DEF Awaited
    <3> QED
      BY <3>1, <3>2
  <2> QED
    BY <1>1, <2>1 DEF BarsInv, UnreadIsYoung, PastToday, Awaited
<1> QED
  BY <1>2, <1>3, <1>5, <1>6 DEF BarsInv

LEMMA NextBarDayStep == ASSUME BarsInv, NextBarDay PROVE BarsInv'
<1> USE Numbers, DaysAreNumbers
<1>1. /\ today' = today + 1 /\ today < FinalDay /\ step' = "resolve" /\ pass' = NoPass
      /\ UNCHANGED <<posted, due, lost, ledger, bars, unpruned, identified>>
      /\ \/ step = "rest" /\ misses' = misses
         \/ step # "rest" /\ misses < MaxMisses /\ misses' = misses + 1
  BY DEF NextBarDay
<1>2. BarTypes'
  <2>1. today' \in 0..FinalDay /\ misses' \in 0..MaxMisses
    BY <1>1
  <2> QED
    BY <1>1, <2>1 DEF BarsInv, BarTypes, RefreshSteps, NoPass
<1>3. PassFits'
  BY <1>1 DEF PassFits, NoPass
<1>4. RecordsAgree'
  <2>1. \A i \in identified : Listing[i] <= today + 1
    BY DEF BarsInv, RecordsAgree
  <2> QED
    BY <1>1, <2>1 DEF BarsInv, RecordsAgree
<1>5. GoneIsUseless'
  <2>1. ASSUME NEW b \in unpruned \ bars PROVE ~KeepTradeDate(b[2], Listing[b[1]])'
    <3>1. ~KeepTradeDate(b[2], Listing[b[1]]) /\ b[2] \in Nat
      BY <2>1 DEF BarsInv, BarTypes, GoneIsUseless
    <3> QED
      BY <3>1, <1>1 DEF KeepTradeDate
  <2> QED
    BY <1>1, <2>1 DEF BarsInv, GoneIsUseless
<1>6. UnreadIsYoung'
  <2> SUFFICES ASSUME MaxMisses <= ReadBack, NEW d \in Trading, d <= today + 1, Awaited(d)
               PROVE  misses' >= today + 1 - d
    BY <1>1 DEF UnreadIsYoung, PastToday, NoPass, Awaited
  <2>1. CASE d <= today
    <3>1. misses >= today - d + (IF PastToday(d) THEN 1 ELSE 0)
      BY <2>1 DEF BarsInv, UnreadIsYoung
    <3>2. step = "rest" => PastToday(d)
      BY DEF PastToday
    <3> QED
      BY <1>1, <3>1, <3>2
  <2>2. CASE ~(d <= today)
    BY <1>1, <2>2
  <2> QED
    BY <2>1, <2>2
<1>7. ListingIsComing'
  <2> SUFFICES ASSUME misses' = 0, NEW i \in identified
               PROVE  <<i, Listing[i]>> \in bars \/ ledger[Listing[i]] = "holiday"
                      \/ Listing[i] < today + 1 - NewListing
    BY <1>1 DEF ListingIsComing
  <2>1. misses = 0 /\ step = "rest"
    BY <1>1
  <2> QED
    BY <2>1 DEF BarsInv, ListingIsComing
<1> QED
  BY <1>2, <1>3, <1>4, <1>5, <1>6, <1>7 DEF BarsInv

LEMMA ResolveStep == ASSUME BarsInv, ResolveIsins PROVE BarsInv'
<1> USE Numbers, DaysAreNumbers
<1>1. /\ step = "resolve" /\ step' = "backfill"
      /\ identified \subseteq identified' /\ identified' \subseteq Isins
      /\ \A i \in identified' \ identified : Listing[i] <= today
      /\ UNCHANGED <<today, posted, due, lost, ledger, bars, unpruned, pass, misses>>
  BY DEF ResolveIsins, BarsInv, BarTypes
<1>2. ~pass.open
  BY <1>1 DEF BarsInv, PassFits
<1>3. BarTypes' /\ PassFits' /\ GoneIsUseless'
  BY <1>1, <1>2 DEF BarsInv, BarTypes, PassFits, GoneIsUseless, RefreshSteps, KeepTradeDate
<1>4. RecordsAgree'
  BY <1>1 DEF BarsInv, RecordsAgree
<1>5. UnreadIsYoung'
  BY <1>1, <1>2 DEF BarsInv, UnreadIsYoung, PastToday, Awaited
<1>6. ListingIsComing'
  <2> SUFFICES ASSUME misses = 0, NEW i \in identified'
               PROVE  \/ <<i, Listing[i]>> \in bars \/ ledger[Listing[i]] = "holiday"
                      \/ Listing[i] < today - NewListing \/ BarsOf(i, bars) = {}
    BY <1>1, <1>2 DEF ListingIsComing, BarsOf
  <2>1. CASE i \in identified
    BY <1>1, <2>1 DEF BarsInv, ListingIsComing
  <2>2. CASE i \notin identified
    BY <2>2 DEF BarsInv, RecordsAgree, GoneIsUseless, BarsOf
  <2> QED
    BY <2>1, <2>2
<1> QED
  BY <1>3, <1>4, <1>5, <1>6 DEF BarsInv

LEMMA StartStep == ASSUME BarsInv, StartBackfill \/ StartIngest PROVE BarsInv'
<1> USE Numbers, DaysAreNumbers
<1>1. UNCHANGED <<today, posted, due, lost, ledger, bars, unpruned, identified, misses>> /\ ~pass.open
  BY DEF StartBackfill, StartIngest
<1>2. CASE StartBackfill /\ BarsMissing = {}
  <2>1. step = "backfill" /\ step' = "ingest" /\ pass' = pass
    BY <1>2 DEF StartBackfill
  <2>2. BarTypes' /\ PassFits' /\ RecordsAgree' /\ GoneIsUseless' /\ UnreadIsYoung'
    BY <1>1, <2>1 DEF BarsInv, BarTypes, PassFits, RecordsAgree, GoneIsUseless, UnreadIsYoung,
      RefreshSteps, KeepTradeDate, PastToday, Awaited
  <2>3. ListingIsComing'
    <3>1. \A i \in identified : BarsOf(i, bars) = {} => Listing[i] < today - NewListing
      BY <1>2 DEF BarsMissing
    <3> QED
      BY <1>1, <2>1, <3>1 DEF BarsInv, ListingIsComing
  <2> QED
    BY <2>2, <2>3 DEF BarsInv
<1>3. CASE StartBackfill /\ BarsMissing # {}
  <2> DEFINE days == {Listing[i] : i \in BarsMissing}
  <2>1. /\ step = "backfill" /\ step' = step
        /\ pass' = [open |-> TRUE, at |-> Min(days), interest |-> BarsMissing, force |-> TRUE, fetched |-> 0]
    BY <1>3 DEF StartBackfill
  <2>2. days \in SUBSET Nat /\ days # {} /\ BarsMissing \subseteq identified /\ identified \subseteq Isins
    BY <1>3 DEF BarsMissing, BarsInv, BarTypes
  <2>3. Min(days) \in Nat /\ \A y \in days : Min(days) <= y
    <3> HIDE DEF days
    <3> QED
      BY <2>2, MinOf
  <2>4. BarTypes'
    BY <1>1, <2>1, <2>2, <2>3 DEF BarsInv, BarTypes
  <2>5. PassFits' /\ RecordsAgree' /\ GoneIsUseless' /\ UnreadIsYoung'
    BY <1>1, <2>1, <2>2 DEF BarsInv, PassFits, RecordsAgree, GoneIsUseless, UnreadIsYoung,
      KeepTradeDate, PastToday, Awaited
  <2>6. ListingIsComing'
    <3> SUFFICES ASSUME misses = 0, NEW i \in identified,
                        <<i, Listing[i]>> \notin bars, ledger[Listing[i]] # "holiday",
                        ~(Listing[i] < today - NewListing)
                 PROVE  BarsOf(i, bars) = {} /\ i \in BarsMissing /\ Min(days) <= Listing[i]
      BY <1>1, <2>1 DEF ListingIsComing
    <3>1. BarsOf(i, bars) = {}
      BY DEF BarsInv, ListingIsComing
    <3>2. i \in BarsMissing
      BY <3>1 DEF BarsMissing
    <3> QED
      BY <2>3, <3>1, <3>2
  <2> QED
    BY <2>4, <2>5, <2>6 DEF BarsInv
<1>4. CASE StartIngest
  <2> DEFINE start == Max({0, today - ReadBack})
  <2>1. /\ step = "ingest" /\ step' = step
        /\ pass' = [open |-> TRUE, at |-> start, interest |-> identified, force |-> FALSE, fetched |-> 0]
    BY <1>4 DEF StartIngest
  <2>2. start \in Nat /\ start >= today - ReadBack /\ (start = 0 \/ start = today - ReadBack)
    BY WindowStarts
  <2>2a. 0 + start <= start
    BY <2>2
  <2> HIDE DEF start
  <2>3. BarTypes'
    BY <1>1, <2>1, <2>2 DEF BarsInv, BarTypes
  <2>4. PassFits'
    <3>1. pass'.at = start /\ pass'.fetched = 0 /\ pass'.interest = identified /\ ~pass'.force /\ identified' = identified
          /\ today' = today /\ step' = "ingest"
      BY <1>1, <2>1
    <3> QED
      BY <3>1, <2>2, <2>2a DEF PassFits, start
  <2>5. RecordsAgree' /\ GoneIsUseless'
    BY <1>1, <2>1 DEF BarsInv, RecordsAgree, GoneIsUseless, KeepTradeDate
  <2>6. UnreadIsYoung'
    <3> SUFFICES ASSUME MaxMisses <= ReadBack, NEW d \in Trading, d <= today, Awaited(d)
                 PROVE  misses >= today - d + (IF start > d THEN 1 ELSE 0)
      BY <1>1, <2>1 DEF UnreadIsYoung, PastToday, Awaited
    <3>1. misses >= today - d + (IF PastToday(d) THEN 1 ELSE 0)
      BY DEF BarsInv, UnreadIsYoung
    <3>2. misses >= today - d /\ d \in Nat
      BY <3>1
    <3>3. CASE start > d
      BY <2>2, <3>2, <3>3
    <3> QED
      BY <3>2, <3>3
  <2>7. ListingIsComing'
    BY <1>1, <2>1 DEF BarsInv, ListingIsComing
  <2> QED
    BY <2>3, <2>4, <2>5, <2>6, <2>7 DEF BarsInv
<1> QED
  BY <1>2, <1>3, <1>4

\* What every step of a pass over a day does.
LEMMA DayFacts ==
  ASSUME BarsInv, NEW d \in BarDays, ReadingDay(d), pass' = [pass EXCEPT !.at = @ + 1, !.fetched = @ + 1]
  PROVE  /\ pass.open /\ pass.at = d /\ d <= today /\ d \in Nat
         /\ pass'.at = d + 1 /\ pass'.open /\ pass'.force = pass.force
         /\ pass'.interest = pass.interest /\ pass'.fetched = pass.fetched + 1
         /\ pass' \in [open : BOOLEAN, at : Nat, interest : SUBSET Isins, force : BOOLEAN, fetched : Nat]
         /\ step = IF pass.force THEN "backfill" ELSE "ingest"
         /\ pass.interest \subseteq identified
         /\ ~pass.force => pass.interest = identified
         /\ ledger[d] # "holiday" /\ (ledger[d] = "ok" => pass.force)
<1>1. pass \in [open : BOOLEAN, at : Nat, interest : SUBSET Isins, force : BOOLEAN, fetched : Nat]
  BY DEF BarsInv, BarTypes
<1>2. /\ pass.open /\ d = pass.at /\ d <= today
      /\ ledger[d] # "holiday" /\ (ledger[d] = "ok" => pass.force)
  BY DEF ReadingDay, Final
<1>3. /\ step = IF pass.force THEN "backfill" ELSE "ingest"
      /\ pass.interest \subseteq identified
      /\ ~pass.force => pass.interest = identified
  BY <1>2 DEF BarsInv, PassFits
<1>4. /\ pass'.at = pass.at + 1 /\ pass'.open = pass.open /\ pass'.force = pass.force
      /\ pass'.interest = pass.interest /\ pass'.fetched = pass.fetched + 1
  BY <1>1
<1>5. pass.at \in Nat /\ pass.fetched \in Nat /\ pass.at + 1 \in Nat /\ pass.fetched + 1 \in Nat
  BY <1>1
<1>6. pass' \in [open : BOOLEAN, at : Nat, interest : SUBSET Isins, force : BOOLEAN, fetched : Nat]
  BY <1>1, <1>5
<1> QED
  BY <1>2, <1>3, <1>4, <1>5, <1>6

\* Past day d, the invariant about passes and about the other unread days.
LEMMA DayPassed ==
  ASSUME BarsInv, NEW d \in Nat, pass.open, pass.at = d, d <= today,
         pass'.at = d + 1, pass'.open, pass'.force = pass.force,
         pass'.interest = pass.interest, pass'.fetched \in {pass.fetched, pass.fetched + 1},
         UNCHANGED <<today, identified, step>>
  PROVE  /\ PassFits'
         /\ \A x \in BarDays : x # d => (PastToday(x)' <=> PastToday(x))
         /\ ~PastToday(d)
<1>1. /\ today \in Nat /\ ReadBack \in Nat /\ pass.fetched \in Nat
      /\ Max({0, today - ReadBack}) \in Nat
  BY DaysAreNumbers, WindowStarts, Numbers
<1>2. PassFits'
  <2>1. pass'.open => /\ step' = IF pass'.force THEN "backfill" ELSE "ingest"
                      /\ pass'.interest \subseteq identified'
                      /\ ~pass'.force => pass'.interest = identified'
    BY DEF BarsInv, PassFits
  <2>2. ASSUME ~pass.force
        PROVE  /\ d + 1 >= today - ReadBack
               /\ pass'.fetched + Max({0, today - ReadBack}) <= d + 1
    <3>1. d >= today - ReadBack /\ pass.fetched + Max({0, today - ReadBack}) <= d
      BY <2>2 DEF BarsInv, PassFits
    <3> QED
      BY <1>1, <3>1
  <2> QED
    BY <2>1, <2>2 DEF PassFits
<1>3. ASSUME NEW x \in BarDays, x # d PROVE PastToday(x)' <=> PastToday(x)
  <2>1. x \in Nat
    BY DaysAreNumbers
  <2>2. d + 1 > x <=> d > x
    BY <2>1, <1>3
  <2> QED
    BY <2>2 DEF PastToday
<1>4. ~PastToday(d)
  <2>1. step = IF pass.force THEN "backfill" ELSE "ingest"
    BY DEF BarsInv, PassFits
  <2> QED
    BY <2>1 DEF PastToday
<1> QED
  BY <1>2, <1>3, <1>4

\* The day itself is not awaited any more, or cost a mishap.
LEMMA OthersAreAwaited ==
  ASSUME BarsInv, NEW d \in BarDays, d <= today, UNCHANGED <<today, posted, due>>,
         unpruned \subseteq unpruned', lost \subseteq lost',
         \A x \in BarDays : x # d => ledger'[x] = ledger[x],
         \A x \in BarDays : x # d => (PastToday(x)' <=> PastToday(x)), ~PastToday(d),
         misses' \in {misses, misses + 1},
         Awaited(d)' => Awaited(d) /\ misses' = misses + 1
  PROVE  UnreadIsYoung'
<1> USE Numbers, DaysAreNumbers
<1> SUFFICES ASSUME MaxMisses <= ReadBack, NEW x \in Trading, x <= today, Awaited(x)'
             PROVE  misses' >= today - x + (IF PastToday(x)' THEN 1 ELSE 0)
  BY DEF UnreadIsYoung
<1>1. x \in BarDays /\ x \in Nat /\ today \in Nat /\ misses \in Nat
  OBVIOUS
<1>2. CASE x = d
  <2>1. misses' = misses + 1 /\ Awaited(d)
    BY <1>2
  <2>2. misses >= today - d + (IF PastToday(d) THEN 1 ELSE 0)
    BY <2>1, <1>2 DEF BarsInv, UnreadIsYoung
  <2> QED
    BY <1>1, <1>2, <2>1, <2>2
<1>3. CASE x # d
  <2>1. Awaited(x)
    BY <1>1, <1>3 DEF Awaited
  <2>2. misses >= today - x + (IF PastToday(x) THEN 1 ELSE 0)
    BY <2>1 DEF BarsInv, UnreadIsYoung
  <2>3. PastToday(x)' <=> PastToday(x)
    BY <1>1, <1>3
  <2> QED
    BY <1>1, <2>2, <2>3
<1> QED
  BY <1>2, <1>3

LEMMA ReadStep == ASSUME BarsInv, NEW d \in BarDays, ReadFile(d) PROVE BarsInv'
<1> USE Numbers, DaysAreNumbers
<1>1. /\ ReadingDay(d) /\ pass' = [pass EXCEPT !.at = @ + 1, !.fetched = @ + 1]
      /\ ledger' = [ledger EXCEPT ![d] = "ok"] /\ d \in posted
      /\ bars' = bars \cup Stored(d) /\ unpruned' = unpruned \cup Stored(d)
      /\ lost' = IF ledger[d] # "ok" /\ pass.interest # identified THEN lost \cup {d} ELSE lost
      /\ UNCHANGED <<today, posted, due, identified, step, misses>>
  BY DEF ReadFile, AfterDay
<1>2. /\ pass.open /\ pass.at = d /\ d <= today /\ d \in Nat
      /\ pass'.at = d + 1 /\ pass'.open /\ pass'.force = pass.force
      /\ pass'.interest = pass.interest /\ pass'.fetched = pass.fetched + 1
      /\ pass' \in [open : BOOLEAN, at : Nat, interest : SUBSET Isins, force : BOOLEAN, fetched : Nat]
      /\ pass.interest \subseteq identified /\ ledger[d] # "holiday"
  BY <1>1, DayFacts
<1>3. /\ PassFits' /\ ~PastToday(d)
      /\ \A x \in BarDays : x # d => (PastToday(x)' <=> PastToday(x))
  BY <1>1, <1>2, DayPassed
<1>4. \A b \in Stored(d) : b[1] \in identified /\ b[2] = d /\ Listing[b[1]] <= d
  BY <1>2 DEF Stored
<1>5. Stored(d) \subseteq Isins \X BarDays
  BY <1>2 DEF Stored
<1>6. BarTypes'
  BY <1>1, <1>2, <1>5 DEF BarsInv, BarTypes
<1>7. \A b \in due : b[2] = d => d \in lost' \/ b \in unpruned'
  <2> SUFFICES ASSUME NEW b \in due, b[2] = d, d \notin lost' PROVE b \in unpruned'
    OBVIOUS
  <2>1. CASE ledger[d] = "ok"
    BY <1>1, <2>1 DEF BarsInv, RecordsAgree
  <2>2. CASE ledger[d] # "ok"
    <3>1. pass.interest = identified
      BY <1>1, <2>2
    <3>2. b[1] \in identified /\ Listing[b[1]] <= d /\ b = <<b[1], d>>
      BY DEF BarsInv, BarTypes, RecordsAgree
    <3>3. b \in Stored(d)
      BY <3>1, <3>2 DEF Stored
    <3> QED
      BY <1>1, <3>3
  <2> QED
    BY <2>1, <2>2
<1>8. RecordsAgree'
  <2>1. /\ \A x \in BarDays : ledger'[x] = "ok" => x \in posted
        /\ \A x \in BarDays : x # d => ledger'[x] = ledger[x]
    BY <1>1 DEF BarsInv, BarTypes, RecordsAgree
  <2>2. \A b \in unpruned' : b[1] \in identified /\ Listing[b[1]] <= b[2]
    BY <1>1, <1>4 DEF BarsInv, RecordsAgree
  <2>3. \A b \in due : ledger'[b[2]] = "ok" => b[2] \in lost' \/ b \in unpruned'
    <3> SUFFICES ASSUME NEW b \in due, ledger'[b[2]] = "ok"
                 PROVE  b[2] \in lost' \/ b \in unpruned'
      OBVIOUS
    <3>1. b[2] \in BarDays
      BY DEF BarsInv, BarTypes
    <3> QED
      BY <1>1, <1>7, <2>1, <3>1 DEF BarsInv, RecordsAgree
  <2> QED
    BY <1>1, <2>1, <2>2, <2>3 DEF BarsInv, RecordsAgree
<1>9. GoneIsUseless'
  <2>1. \A b \in unpruned' \ bars' : ~KeepTradeDate(b[2], Listing[b[1]])
    BY <1>1 DEF BarsInv, GoneIsUseless
  <2>2. \A b : KeepTradeDate(b[2], Listing[b[1]])' <=> KeepTradeDate(b[2], Listing[b[1]])
    BY <1>1 DEF KeepTradeDate
  <2> QED
    BY <1>1, <2>1, <2>2 DEF BarsInv, GoneIsUseless
<1>10. UnreadIsYoung'
  <2>1. ~Awaited(d)'
    BY <1>1, <1>7 DEF Awaited
  <2>2. \A x \in BarDays : x # d => ledger'[x] = ledger[x]
    BY <1>1 DEF BarsInv, BarTypes
  <2>3. unpruned \subseteq unpruned' /\ lost \subseteq lost'
    BY <1>1
  <2> QED
    BY <1>1, <1>2, <1>3, <2>1, <2>2, <2>3, OthersAreAwaited
<1>11. ListingIsComing'
  <2> SUFFICES ASSUME misses = 0, NEW i \in identified,
                      <<i, Listing[i]>> \notin bars', ledger'[Listing[i]] # "holiday",
                      ~(Listing[i] < today - NewListing)
               PROVE  /\ step = "backfill" /\ BarsOf(i, bars') = {}
                      /\ pass.force /\ i \in pass.interest /\ d + 1 <= Listing[i]
    BY <1>1, <1>2 DEF ListingIsComing, BarsOf
  <2>0. ledger[Listing[i]] # "holiday" /\ <<i, Listing[i]>> \notin bars
    BY <1>1, <1>2 DEF BarsInv, BarTypes
  <2>1. /\ step = "backfill" /\ BarsOf(i, bars) = {}
        /\ pass.force /\ i \in pass.interest /\ d <= Listing[i]
    BY <1>1, <1>2, <2>0 DEF BarsInv, ListingIsComing
  <2>2. d # Listing[i]
    <3>1. d = Listing[i] => <<i, d>> \in Stored(d)
      BY <2>1, <1>2 DEF Stored
    <3> QED
      BY <1>1, <3>1
  <2>3. d + 1 <= Listing[i] /\ ~(Listing[i] <= d)
    BY <2>1, <2>2, <1>2
  <2>4. \A x : <<i, x>> \notin Stored(d)
    BY <2>3 DEF Stored
  <2> QED
    BY <1>1, <2>1, <2>3, <2>4 DEF BarsOf
<1> QED
  BY <1>3, <1>6, <1>8, <1>9, <1>10, <1>11 DEF BarsInv

LEMMA MissStep ==
  ASSUME BarsInv, NEW d \in BarDays, NoFile(d) \/ FetchFails(d) \/ Unreadable(d)
  PROVE  BarsInv'
<1> USE Numbers, DaysAreNumbers
<1>1. /\ ReadingDay(d) /\ pass' = [pass EXCEPT !.at = @ + 1, !.fetched = @ + 1]
      /\ UNCHANGED <<today, posted, due, identified, step, bars, unpruned>>
      /\ \/ /\ ledger' = [ledger EXCEPT ![d] = "holiday"] /\ lost' = lost
            /\ misses' = misses
         \/ /\ ledger' = [ledger EXCEPT ![d] = "error"] /\ lost' = lost
            /\ misses' = misses + 1 /\ misses < MaxMisses
         \/ /\ ledger' = [ledger EXCEPT ![d] = "ok"] /\ d \in posted
            /\ lost' = IF ledger[d] = "ok" THEN lost ELSE lost \cup {d}
            /\ misses' = misses + 1 /\ misses < MaxMisses
  BY DEF NoFile, FetchFails, Unreadable, AfterDay
<1>2. /\ pass.open /\ pass.at = d /\ d <= today /\ d \in Nat
      /\ pass'.at = d + 1 /\ pass'.open /\ pass'.force = pass.force
      /\ pass'.interest = pass.interest /\ pass'.fetched = pass.fetched + 1
      /\ pass' \in [open : BOOLEAN, at : Nat, interest : SUBSET Isins, force : BOOLEAN, fetched : Nat]
      /\ pass.interest \subseteq identified /\ ledger[d] # "holiday"
  BY <1>1, DayFacts
<1>3. /\ PassFits' /\ ~PastToday(d)
      /\ \A x \in BarDays : x # d => (PastToday(x)' <=> PastToday(x))
  BY <1>1, <1>2, DayPassed
<1>4. lost \subseteq lost' /\ misses' \in {misses, misses + 1} /\ misses' \in 0..MaxMisses
  <2>1. misses \in 0..MaxMisses
    BY DEF BarsInv, BarTypes
  <2>2. misses' = misses \/ (misses' = misses + 1 /\ misses < MaxMisses)
    BY <1>1
  <2>3. lost \subseteq lost'
    BY <1>1
  <2> QED
    BY <2>1, <2>2, <2>3
<1>5. BarTypes'
  <2>1. ledger' \in [BarDays -> {"none", "ok", "holiday", "error"}] /\ lost' \in SUBSET BarDays
    BY <1>1 DEF BarsInv, BarTypes
  <2> QED
    BY <1>1, <1>2, <1>4, <2>1 DEF BarsInv, BarTypes
<1>6. /\ \A x \in BarDays : x # d => ledger'[x] = ledger[x]
      /\ ledger'[d] = "ok" => d \in posted /\ (d \in lost' \/ ledger[d] = "ok")
  BY <1>1 DEF BarsInv, BarTypes
<1>7. RecordsAgree'
  <2>1. \A x \in BarDays : ledger'[x] = "ok" => x \in posted
    BY <1>6 DEF BarsInv, RecordsAgree
  <2>2. \A b \in due : ledger'[b[2]] = "ok" => b[2] \in lost' \/ b \in unpruned
    <3> SUFFICES ASSUME NEW b \in due, ledger'[b[2]] = "ok"
                 PROVE  b[2] \in lost' \/ b \in unpruned
      OBVIOUS
    <3>1. b[2] \in BarDays
      BY DEF BarsInv, BarTypes
    <3> QED
      BY <1>4, <1>6, <3>1 DEF BarsInv, RecordsAgree
  <2> QED
    BY <1>1, <2>1, <2>2 DEF BarsInv, RecordsAgree
<1>8. GoneIsUseless'
  BY <1>1 DEF BarsInv, GoneIsUseless, KeepTradeDate
<1>9. UnreadIsYoung'
  <2>1. Awaited(d)' => Awaited(d) /\ misses' = misses + 1
    <3> SUFFICES ASSUME Awaited(d)' PROVE Awaited(d) /\ misses' = misses + 1
      OBVIOUS
    <3>1. ledger'[d] # "holiday" /\ d \notin lost'
      BY DEF Awaited
    <3>2. misses' = misses + 1
      BY <1>1, <3>1 DEF BarsInv, BarTypes
    <3>3. Awaited(d)
      BY <1>1, <1>2, <1>4, <3>1 DEF Awaited
    <3> QED
      BY <3>2, <3>3
  <2>2. unpruned \subseteq unpruned'
    BY <1>1
  <2> QED
    BY <1>1, <1>2, <1>3, <1>4, <1>6, <2>1, <2>2, OthersAreAwaited
<1>10. ListingIsComing'
  <2> SUFFICES ASSUME misses' = 0, NEW i \in identified,
                      <<i, Listing[i]>> \notin bars, ledger'[Listing[i]] # "holiday",
                      ~(Listing[i] < today - NewListing)
               PROVE  /\ step = "backfill" /\ BarsOf(i, bars) = {}
                      /\ pass.force /\ i \in pass.interest /\ d + 1 <= Listing[i]
    BY <1>1, <1>2 DEF ListingIsComing, BarsOf
  <2>1. misses = 0 /\ ledger'[d] = "holiday"
    <3>1. misses' = misses /\ ledger' = [ledger EXCEPT ![d] = "holiday"]
      BY <1>1
    <3> QED
      BY <3>1 DEF BarsInv, BarTypes
  <2>2. d # Listing[i] /\ ledger[Listing[i]] # "holiday"
    BY <2>1, <1>6
  <2>3. /\ step = "backfill" /\ BarsOf(i, bars) = {}
        /\ pass.force /\ i \in pass.interest /\ d <= Listing[i]
    BY <1>1, <1>2, <2>1, <2>2 DEF BarsInv, ListingIsComing
  <2> QED
    BY <2>2, <2>3, <1>2
<1> QED
  BY <1>3, <1>5, <1>7, <1>8, <1>9, <1>10 DEF BarsInv

LEMMA SkipStep == ASSUME BarsInv, SkipDay PROVE BarsInv'
<1> USE Numbers, DaysAreNumbers
<1> PICK d : d = pass.at
  OBVIOUS
<1>1. /\ pass.open /\ pass.at = d /\ d <= today /\ Final(d)
      /\ pass' = [pass EXCEPT !.at = @ + 1, !.fetched = @ + 0]
      /\ UNCHANGED <<today, posted, due, identified, step, lost, ledger, bars, unpruned, misses>>
  BY DEF SkipDay, AfterDay
<1>2. /\ pass'.at = d + 1 /\ pass'.open /\ pass'.force = pass.force
      /\ pass'.interest = pass.interest /\ pass'.fetched = pass.fetched
      /\ pass' \in [open : BOOLEAN, at : Nat, interest : SUBSET Isins, force : BOOLEAN, fetched : Nat]
      /\ d \in Nat /\ d \in BarDays
  <2>1. /\ pass \in [open : BOOLEAN, at : Nat, interest : SUBSET Isins, force : BOOLEAN, fetched : Nat]
        /\ today \in 0..FinalDay
    BY DEF BarsInv, BarTypes
  <2>2. /\ pass.at \in Nat /\ pass.fetched \in Nat /\ pass.at + 1 \in Nat
        /\ pass.fetched + 0 = pass.fetched
    BY <2>1
  <2>3. pass' = [pass EXCEPT !.at = @ + 1]
    BY <1>1, <2>1, <2>2
  <2>4. /\ pass'.at = pass.at + 1 /\ pass'.open = pass.open /\ pass'.force = pass.force
        /\ pass'.interest = pass.interest /\ pass'.fetched = pass.fetched
    BY <2>1, <2>3
  <2>5. pass' \in [open : BOOLEAN, at : Nat, interest : SUBSET Isins, force : BOOLEAN, fetched : Nat]
    BY <2>1, <2>2, <2>3
  <2>6. d \in Nat /\ d \in BarDays
    <3>1. d <= today
      BY <1>1
    <3>2. d \in Nat /\ today \in Nat /\ today <= FinalDay
      BY <2>1, <2>2
    <3> QED
      BY <3>1, <3>2
  <2> QED
    BY <1>1, <2>4, <2>5, <2>6
<1>3. /\ PassFits' /\ ~PastToday(d)
      /\ \A x \in BarDays : x # d => (PastToday(x)' <=> PastToday(x))
  BY <1>1, <1>2, DayPassed
<1>4. BarTypes' /\ RecordsAgree' /\ GoneIsUseless'
  BY <1>1, <1>2 DEF BarsInv, BarTypes, RecordsAgree, GoneIsUseless, KeepTradeDate
<1>5. UnreadIsYoung'
  <2>1. ~Awaited(d)
    <3>1. CASE ledger[d] = "holiday"
      BY <3>1 DEF Awaited
    <3>2. CASE ledger[d] # "holiday"
      <4>1. ledger[d] = "ok"
        BY <1>1, <3>2 DEF Final
      <4>2. d \in posted
        BY <1>2, <4>1 DEF BarsInv, RecordsAgree
      <4> QED
        BY <1>2, <4>1, <4>2 DEF Awaited, BarsInv, RecordsAgree
    <3> QED
      BY <3>1, <3>2
  <2>2. Awaited(d)' => Awaited(d)
    BY <1>1 DEF Awaited
  <2>3. misses' \in {misses, misses + 1}
    BY <1>1
  <2> QED
    BY <1>1, <1>2, <1>3, <2>1, <2>2, <2>3, OthersAreAwaited
<1>6. ListingIsComing'
  <2> SUFFICES ASSUME misses = 0, NEW i \in identified,
                      <<i, Listing[i]>> \notin bars, ledger[Listing[i]] # "holiday",
                      ~(Listing[i] < today - NewListing)
               PROVE  /\ step = "backfill" /\ BarsOf(i, bars) = {}
                      /\ pass.force /\ i \in pass.interest /\ d + 1 <= Listing[i]
    BY <1>1, <1>2 DEF ListingIsComing, BarsOf
  <2>1. /\ step = "backfill" /\ BarsOf(i, bars) = {}
        /\ pass.force /\ i \in pass.interest /\ d <= Listing[i]
    BY <1>1, <1>2 DEF BarsInv, ListingIsComing
  <2>2. d # Listing[i]
    <3>1. ledger[d] = "holiday"
      BY <1>1, <2>1 DEF Final
    <3> QED
      BY <3>1
  <2> QED
    BY <2>1, <2>2, <1>2
<1> QED
  BY <1>3, <1>4, <1>5, <1>6 DEF BarsInv

LEMMA EndStep == ASSUME BarsInv, EndPass PROVE BarsInv'
<1> USE Numbers, DaysAreNumbers
<1>1. /\ pass.open /\ pass' = NoPass /\ step' = IF pass.force THEN "ingest" ELSE "prune"
      /\ UNCHANGED <<today, posted, due, lost, ledger, bars, unpruned, identified, misses>>
      /\ \/ pass.at > today
         \/ ~pass.force /\ pass.fetched >= MaxFiles
  BY DEF EndPass
<1>2. pass.at > today
  <2>1. CASE ~pass.force /\ pass.fetched >= MaxFiles
    <3>1. /\ pass.fetched + Max({0, today - ReadBack}) <= pass.at
          /\ Max({0, today - ReadBack}) \in Nat /\ Max({0, today - ReadBack}) >= today - ReadBack
      BY <1>1, <2>1, WindowStarts DEF BarsInv, PassFits
    <3> QED
      BY <2>1, <3>1, BhavcopyAssumption
  <2> QED
    BY <1>1, <2>1
<1>3. BarTypes' /\ PassFits' /\ RecordsAgree' /\ GoneIsUseless'
  BY <1>1 DEF BarsInv, BarTypes, PassFits, RecordsAgree, GoneIsUseless, KeepTradeDate, NoPass, RefreshSteps
<1>4. UnreadIsYoung'
  <2> SUFFICES ASSUME MaxMisses <= ReadBack, NEW x \in Trading, x <= today, Awaited(x)
               PROVE  misses >= today - x + (IF pass.force THEN 0 ELSE 1)
    BY <1>1 DEF UnreadIsYoung, PastToday, NoPass, Awaited
  <2>1. ~pass.force => PastToday(x)
    BY <1>1, <1>2 DEF PastToday
  <2>2. misses >= today - x + (IF PastToday(x) THEN 1 ELSE 0)
    BY DEF BarsInv, UnreadIsYoung
  <2> QED
    BY <2>1, <2>2
<1>5. ListingIsComing'
  <2> SUFFICES ASSUME misses = 0, NEW i \in identified
               PROVE  <<i, Listing[i]>> \in bars \/ ledger[Listing[i]] = "holiday"
                      \/ Listing[i] < today - NewListing
    BY <1>1 DEF ListingIsComing
  <2>1. Listing[i] <= today
    BY DEF BarsInv, RecordsAgree
  <2>2. ~(pass.at <= Listing[i])
    BY <2>1, <1>2
  <2> QED
    BY <1>1, <2>2 DEF BarsInv, ListingIsComing
<1> QED
  BY <1>3, <1>4, <1>5 DEF BarsInv

LEMMA PruneBarsStep == ASSUME BarsInv, PruneBars PROVE BarsInv'
<1> USE Numbers, DaysAreNumbers
<1>1. /\ step = "prune" /\ step' = "rest"
      /\ bars' = {b \in bars : b[1] \in identified /\ KeepTradeDate(b[2], Listing[b[1]])}
      /\ UNCHANGED <<today, posted, due, lost, ledger, unpruned, identified, pass, misses>>
  BY DEF PruneBars
<1>2. ~pass.open
  BY <1>1 DEF BarsInv, PassFits
<1>3. BarTypes' /\ PassFits' /\ RecordsAgree'
  BY <1>1, <1>2 DEF BarsInv, BarTypes, PassFits, RecordsAgree, RefreshSteps
<1>4. GoneIsUseless'
  <2>1. \A b : KeepTradeDate(b[2], Listing[b[1]])' <=> KeepTradeDate(b[2], Listing[b[1]])
    BY <1>1 DEF KeepTradeDate
  <2>2. bars' \subseteq unpruned /\ \A b \in unpruned \ bars' : ~KeepTradeDate(b[2], Listing[b[1]])
    BY <1>1 DEF BarsInv, GoneIsUseless, RecordsAgree
  <2> QED
    BY <1>1, <2>1, <2>2 DEF GoneIsUseless
<1>5. UnreadIsYoung'
  BY <1>1 DEF BarsInv, UnreadIsYoung, PastToday, Awaited
<1>6. ListingIsComing'
  <2>1. \A i \in identified : <<i, Listing[i]>> \in bars => <<i, Listing[i]>> \in bars'
    BY <1>1 DEF KeepTradeDate
  <2> QED
    BY <1>1, <2>1 DEF BarsInv, ListingIsComing
<1> QED
  BY <1>3, <1>4, <1>5, <1>6 DEF BarsInv

LEMMA BarsStep == BarsInv /\ [BhavNext]_bhavVars => BarsInv'
<1> SUFFICES ASSUME BarsInv, [BhavNext]_bhavVars PROVE BarsInv'
  OBVIOUS
<1>1. CASE UNCHANGED bhavVars
  BY <1>1 DEF bhavVars, BarsInv, BarTypes, PassFits, RecordsAgree, GoneIsUseless,
    UnreadIsYoung, ListingIsComing, PastToday, Awaited, KeepTradeDate, BarsOf
<1> QED
  BY <1>1, PostStep, NextBarDayStep, ResolveStep, StartStep, ReadStep, MissStep, SkipStep,
    EndStep, PruneBarsStep DEF BhavNext

\* The bars of a day arrive before it leaves the window, unless the ledger has
\* wrongly closed the day, listings get the bar of their first session and
\* pruning leaves what the returns read, for any securities, calendar, windows
\* and mishaps (nse_bhavcopy.py:149-293).
THEOREM BarsHold == BhavSpec => []BarsAreKept
  BY BarsInit, BarsStep, BarsSafe, PTL DEF BhavSpec
-----------------------------------------------------------------------------
(* The evaluation of the model. *)

Evidence ==
  [n : Int, auc : Int, ciLow : Int, gain : Int, stable : Int, folds : Int,
   segment : Int, ece : Int, graded : Int, leakageFree : BOOLEAN]

GateInv ==
  /\ sample \in Seq(ListedRow) /\ Len(sample) <= MaxListings
  /\ \A i, j \in Indices : i <= j => sample[i].day <= sample[j].day
  /\ evidence \in Evidence

LEMMA GateNumbers ==
  DaysOfYear \in Nat \ {0} /\ ListingDays \in Nat /\ MinTrain \in Nat /\ MaxListings \in Nat
  BY GateAssumption

LEMMA SampleFacts ==
  ASSUME GateInv
  PROVE  /\ Indices = 1..Len(sample) /\ Len(sample) \in Nat /\ Indices \subseteq 1..MaxListings
         /\ \A i \in Indices : /\ sample[i].day \in 1..ListingDays /\ sample[i].day \in Nat \ {0}
                               /\ sample[i].score \in {0, 60, 100} /\ sample[i].score \in Nat
                               /\ sample[i].outcome \in 0..1
<1>1. sample \in Seq(ListedRow) /\ Len(sample) <= MaxListings
  BY DEF GateInv
<1>2. Indices = 1..Len(sample) /\ Len(sample) \in Nat
  BY <1>1 DEF Indices
<1>3. Indices \subseteq 1..MaxListings
  BY <1>1, <1>2, GateNumbers
<1>4. ASSUME NEW i \in Indices PROVE sample[i] \in ListedRow
  BY <1>1, <1>2
<1> QED
  BY <1>2, <1>3, <1>4, GateNumbers DEF ListedRow

-----------------------------------------------------------------------------
(* Folds. *)

LEMMA YearFacts ==
  ASSUME NEW d \in Nat \ {0}
  PROVE  /\ Year(d) \in Nat
         /\ DaysOfYear * Year(d) < d /\ d <= DaysOfYear * Year(d) + DaysOfYear
<1> DEFINE a == d - 1
<1>1. a \in Nat /\ DaysOfYear \in Nat \ {0}
  BY GateNumbers
<1> HIDE DEF a
<1>2. a \div DaysOfYear \in Nat /\ DaysOfYear * (a \div DaysOfYear) <= a
      /\ a < DaysOfYear * (a \div DaysOfYear) + DaysOfYear
  BY <1>1
<1>3. Year(d) = a \div DaysOfYear /\ a = d - 1
  BY DEF Year, a
<1>4. DaysOfYear * (a \div DaysOfYear) \in Nat
  BY <1>1, <1>2
<1> QED
  BY <1>1, <1>2, <1>3, <1>4

LEMMA YearsApart ==
  ASSUME NEW p \in Nat, NEW q \in Nat, p < q
  PROVE  /\ DaysOfYear * p + DaysOfYear <= DaysOfYear * q
         /\ DaysOfYear * p \in Nat /\ DaysOfYear * q \in Nat
<1> USE GateNumbers
<1>1. q - p - 1 \in Nat
  OBVIOUS
<1>2. DaysOfYear * (q - p - 1) \in Nat
  BY <1>1
<1>3. DaysOfYear * (q - p - 1) = DaysOfYear * q - DaysOfYear * p - DaysOfYear
  OBVIOUS
<1>4. DaysOfYear * p \in Nat /\ DaysOfYear * q \in Nat
  OBVIOUS
<1> QED
  BY <1>2, <1>3, <1>4

LEMMA FoldsAreRight == GateInv => FoldsLookBack
<1> SUFFICES ASSUME GateInv, NEW i \in Tested, NEW j \in TrainedOn(i)
             PROVE  j < i /\ i \notin TrainedOn(j) /\ sample[j].day < sample[i].day
  BY DEF FoldsLookBack
<1> USE GateNumbers
<1>1. i \in Indices /\ j \in Indices /\ Year(sample[j].day) < Year(sample[i].day)
  BY DEF Tested, TrainedOn
<1> DEFINE di == sample[i].day
           dj == sample[j].day
           yi == Year(di)
           yj == Year(dj)
<1>2. di \in Nat \ {0} /\ dj \in Nat \ {0} /\ i \in Nat /\ j \in Nat
  BY <1>1, SampleFacts
<1>3. yj < yi
  BY <1>1
<1>4. /\ yi \in Nat /\ yj \in Nat
      /\ DaysOfYear * yi < di /\ dj <= DaysOfYear * yj + DaysOfYear
  BY <1>2, YearFacts
<1>5. /\ DaysOfYear * yj + DaysOfYear <= DaysOfYear * yi
      /\ DaysOfYear * yj \in Nat /\ DaysOfYear * yi \in Nat
  <2> HIDE DEF yi, yj
  <2> QED
    BY <1>3, <1>4, YearsApart
<1>6. dj < di
  <2> HIDE DEF yi, yj, di, dj
  <2> QED
    BY <1>2, <1>4, <1>5
<1>7. j < i
  BY <1>1, <1>2, <1>6 DEF GateInv
<1>8. i \notin TrainedOn(j)
  BY <1>1, <1>4 DEF TrainedOn
<1> QED
  BY <1>6, <1>7, <1>8

-----------------------------------------------------------------------------
(* The area by pairs and by ranks. *)

\* Pairs of which the first scores above the second, or as much.
Above(Q, R) == {p \in Q \X R : sample[p[2]].score < sample[p[1]].score}
Level(Q, R) == {p \in Q \X R : sample[p[2]].score = sample[p[1]].score}

LEMMA FinitePairs ==
  ASSUME NEW Q, NEW R, IsFiniteSet(Q), IsFiniteSet(R)
  PROVE  /\ IsFiniteSet(Above(Q, R)) /\ Cardinality(Above(Q, R)) \in Nat
         /\ IsFiniteSet(Level(Q, R)) /\ Cardinality(Level(Q, R)) \in Nat
<1>1. IsFiniteSet(Q \X R)
  BY FS_Product
<1>2. Above(Q, R) \in SUBSET (Q \X R) /\ Level(Q, R) \in SUBSET (Q \X R)
  BY DEF Above, Level
<1>3. IsFiniteSet(Above(Q, R)) /\ IsFiniteSet(Level(Q, R))
  <2>1. \A T \in SUBSET (Q \X R) : IsFiniteSet(T)
    BY <1>1, FS_Subset
  <2> QED
    BY <1>2, <2>1, Zenon
<1> QED
  BY <1>3, FS_CardinalityType

LEMMA Together ==
  ASSUME NEW S, NEW T, IsFiniteSet(S), IsFiniteSet(T), S \cap T = {}
  PROVE  /\ IsFiniteSet(S \cup T) /\ Cardinality(S \cup T) = Cardinality(S) + Cardinality(T)
         /\ Cardinality(S) \in Nat /\ Cardinality(T) \in Nat
BY FS_Union, FS_EmptySet, FS_CardinalityType

\* The pairs of a row are what its rank counts.
LEMMA OfOneRow ==
  ASSUME NEW i, NEW Q, NEW R, IsFiniteSet(Q), IsFiniteSet(R), i \in Q
  PROVE  /\ Cardinality(Above(Q, R)) = Cardinality(Below(i, R)) + Cardinality(Above(Q \ {i}, R))
         /\ Cardinality(Level(Q, R)) = Cardinality(Tied(i, R)) + Cardinality(Level(Q \ {i}, R))
         /\ Cardinality(Below(i, R)) \in Nat /\ Cardinality(Tied(i, R)) \in Nat
<1>1. /\ IsFiniteSet(Below(i, R)) /\ IsFiniteSet(Tied(i, R)) /\ IsFiniteSet(Q \ {i})
      /\ IsFiniteSet({i}) /\ Cardinality({i}) = 1
  <2>1. Below(i, R) \in SUBSET R /\ Tied(i, R) \in SUBSET R /\ Q \ {i} \in SUBSET Q
    BY DEF Below, Tied
  <2>2. IsFiniteSet(Below(i, R)) /\ IsFiniteSet(Tied(i, R)) /\ IsFiniteSet(Q \ {i})
    BY <2>1, FS_Subset
  <2> QED
    BY <2>2, FS_Singleton
<1>2. Cardinality(Below(i, R)) \in Nat /\ Cardinality(Tied(i, R)) \in Nat
  BY <1>1, FS_CardinalityType
<1>3. /\ IsFiniteSet({i} \X Below(i, R)) /\ IsFiniteSet({i} \X Tied(i, R))
      /\ Cardinality({i} \X Below(i, R)) = Cardinality(Below(i, R))
      /\ Cardinality({i} \X Tied(i, R)) = Cardinality(Tied(i, R))
  <2>1. /\ IsFiniteSet({i} \X Below(i, R))
        /\ Cardinality({i} \X Below(i, R)) = 1 * Cardinality(Below(i, R))
    BY <1>1, FS_Product
  <2>2. /\ IsFiniteSet({i} \X Tied(i, R))
        /\ Cardinality({i} \X Tied(i, R)) = 1 * Cardinality(Tied(i, R))
    BY <1>1, FS_Product
  <2> QED
    BY <1>2, <2>1, <2>2
<1>4. /\ Above(Q, R) = ({i} \X Below(i, R)) \cup Above(Q \ {i}, R)
      /\ ({i} \X Below(i, R)) \cap Above(Q \ {i}, R) = {}
  BY DEF Above, Below
<1>5. /\ Level(Q, R) = ({i} \X Tied(i, R)) \cup Level(Q \ {i}, R)
      /\ ({i} \X Tied(i, R)) \cap Level(Q \ {i}, R) = {}
  <2>1. Level(Q, R) = ({i} \X Tied(i, R)) \cup Level(Q \ {i}, R)
    BY DEF Level, Tied
  <2> QED
    BY <2>1 DEF Level, Tied
<1>6. IsFiniteSet(Above(Q \ {i}, R)) /\ IsFiniteSet(Level(Q \ {i}, R))
  BY <1>1, FinitePairs
<1>7. Cardinality(Above(Q, R)) = Cardinality({i} \X Below(i, R)) + Cardinality(Above(Q \ {i}, R))
  BY <1>3, <1>4, <1>6, Together
<1>8. Cardinality(Level(Q, R)) = Cardinality({i} \X Tied(i, R)) + Cardinality(Level(Q \ {i}, R))
  BY <1>3, <1>5, <1>6, Together
<1> QED
  BY <1>2, <1>3, <1>7, <1>8

\* The sum of the ranks of Q among all.
SumOf(Q) == Size(Q) + 2 * Size(Above(Q, Indices)) + Size(Level(Q, Indices))

Choice(Q) == CHOOSE i \in Q : TRUE

LEMMA SumGrows ==
  ASSUME GateInv, NEW Q \in SUBSET (1..MaxListings)
  PROVE  /\ IsFiniteSet(Q) /\ SumOf(Q) \in Nat
         /\ SumOf(Q) = IF Q = {} THEN 0
                       ELSE TwiceRank(Choice(Q), Indices) + SumOf(Q \ {Choice(Q)})
<1> DEFINE A == Indices
<1>1. IsFiniteSet(A) /\ IsFiniteSet(Q)
  <2>1. IsFiniteSet(1..MaxListings) /\ A \in SUBSET (1..MaxListings)
    BY GateNumbers, SampleFacts, FS_Interval
  <2> QED
    BY <2>1, FS_Subset
<1> HIDE DEF A
<1>2. /\ Cardinality(Q) \in Nat /\ Cardinality(Above(Q, A)) \in Nat
      /\ Cardinality(Level(Q, A)) \in Nat
  BY <1>1, FinitePairs, FS_CardinalityType
<1>3. SumOf(Q) \in Nat
  BY <1>2 DEF SumOf, Size, A
<1>4. CASE Q = {}
  <2>1. Above(Q, A) = {} /\ Level(Q, A) = {}
    BY <1>4 DEF Above, Level
  <2> QED
    BY <1>1, <1>3, <1>4, <2>1, FS_EmptySet DEF SumOf, Size, A
<1>5. CASE Q # {}
  <2> DEFINE i == Choice(Q)
             Q2 == Q \ {i}
  <2>1. i \in Q
    BY <1>5 DEF Choice
  <2> HIDE DEF i
  <2>2. IsFiniteSet(Q2) /\ Cardinality(Q2) = Cardinality(Q) - 1
    BY <1>1, <2>1, FS_RemoveElement
  <2>3. /\ Cardinality(Above(Q, A)) = Cardinality(Below(i, A)) + Cardinality(Above(Q2, A))
        /\ Cardinality(Level(Q, A)) = Cardinality(Tied(i, A)) + Cardinality(Level(Q2, A))
        /\ Cardinality(Below(i, A)) \in Nat /\ Cardinality(Tied(i, A)) \in Nat
    BY <1>1, <2>1, OfOneRow
  <2>4. /\ Cardinality(Above(Q2, A)) \in Nat /\ Cardinality(Level(Q2, A)) \in Nat
    BY <1>1, <2>2, FinitePairs
  <2> HIDE DEF Q2
  <2>5. SumOf(Q2) = Cardinality(Q2) + 2 * Cardinality(Above(Q2, A)) + Cardinality(Level(Q2, A))
    BY DEF SumOf, Size, A
  <2>6. SumOf(Q) = Cardinality(Q) + 2 * Cardinality(Above(Q, A)) + Cardinality(Level(Q, A))
    BY DEF SumOf, Size, A
  <2>7. TwiceRank(i, A) = 2 * Cardinality(Below(i, A)) + Cardinality(Tied(i, A)) + 1
    BY DEF TwiceRank, Size
  <2>8. SumOf(Q) = TwiceRank(i, A) + SumOf(Q2)
    BY <1>2, <2>2, <2>3, <2>4, <2>5, <2>6, <2>7
  <2> QED
    BY <1>1, <1>3, <1>5, <2>8 DEF A, i, Q2
<1> QED
  BY <1>4, <1>5

\* What the recursion computes.
LEMMA SumsAreOfPairs ==
  ASSUME GateInv
  PROVE  \A Q \in SUBSET (1..MaxListings) : TwiceRankSum[Q] = SumOf(Q)
<1> DEFINE L == SUBSET (1..MaxListings)
           Ruled(f) == f = [rows \in L |->
                              IF rows = {} THEN 0
                              ELSE TwiceRank(Choice(rows), Indices) + f[rows \ {Choice(rows)}]]
           g == [rows \in L |-> SumOf(rows)]
           h == CHOOSE f : Ruled(f)
<1>0. \A Q \in L : Q # {} => Choice(Q) \in Q /\ Q \ {Choice(Q)} \in L
  BY DEF Choice
<1>1. Ruled(g)
  <2>1. \A Q \in L : g[Q] = IF Q = {} THEN 0
                            ELSE TwiceRank(Choice(Q), Indices) + g[Q \ {Choice(Q)}]
    BY <1>0, SumGrows
  <2> QED
    BY <2>1
<1>2. Ruled(h)
  BY <1>1
<1>3. TwiceRankSum = h
  BY DEF TwiceRankSum, Choice
<1>4. \A Q \in L : h[Q] = IF Q = {} THEN 0
                          ELSE TwiceRank(Choice(Q), Indices) + h[Q \ {Choice(Q)}]
  <2> HIDE DEF h
  <2> QED
    BY <1>2
<1> HIDE DEF h, g
<1> DEFINE Bad == {n \in Nat : \E Q \in L : Cardinality(Q) = n /\ h[Q] # SumOf(Q)}
<1>5. SUFFICES ASSUME Bad # {} PROVE FALSE
  <2>1. \A Q \in L : Cardinality(Q) \in Nat
    BY SumGrows, FS_CardinalityType
  <2> QED
    BY <1>3, <1>5, <2>1
<1>6. PICK n \in Bad : \A y \in Bad : n <= y
  <2>1. Bad \in SUBSET Nat
    OBVIOUS
  <2> HIDE DEF Bad
  <2> QED
    BY <1>5, <2>1, LeastNumber
<1>7. n \in Nat /\ \E Q \in L : Cardinality(Q) = n /\ h[Q] # SumOf(Q)
  BY <1>6
<1>8. PICK Q \in L : Cardinality(Q) = n /\ h[Q] # SumOf(Q)
  BY <1>7
<1>9. CASE Q = {}
  BY <1>4, <1>8, <1>9, SumGrows
<1>10. CASE Q # {}
  <2> DEFINE i == Choice(Q)
             Q2 == Q \ {i}
  <2>1. i \in Q /\ Q2 \in L
    BY <1>0, <1>10
  <2>2. IsFiniteSet(Q)
    BY SumGrows
  <2>3. IsFiniteSet(Q2) /\ Cardinality(Q2) = n - 1
    BY <1>8, <2>1, <2>2, FS_RemoveElement
  <2>4. Cardinality(Q2) \in Nat
    BY <2>3, FS_CardinalityType
  <2>5. n - 1 \notin Bad
    BY <1>6, <1>7
  <2>6. h[Q2] = SumOf(Q2)
    BY <2>1, <2>3, <2>4, <2>5
  <2>7. h[Q] = TwiceRank(i, Indices) + h[Q2]
    BY <1>4, <1>10
  <2>8. SumOf(Q) = TwiceRank(i, Indices) + SumOf(Q2)
    BY <1>10, SumGrows
  <2> QED
    BY <1>8, <2>6, <2>7, <2>8
<1> QED
  BY <1>9, <1>10

\* Among themselves, rows win as often as they lose.
LEMMA WinsAndLosses ==
  ASSUME GateInv, NEW P \in SUBSET Indices, IsFiniteSet(P)
  PROVE  2 * Cardinality(Above(P, P)) + Cardinality(Level(P, P)) = Cardinality(P) * Cardinality(P)
<1> DEFINE A == Above(P, P)
           E == Level(P, P)
           B == {p \in P \X P : sample[p[1]].score < sample[p[2]].score}
           f == [p \in A |-> <<p[2], p[1]>>]
<1>1. /\ IsFiniteSet(A) /\ IsFiniteSet(E) /\ Cardinality(A) \in Nat /\ Cardinality(E) \in Nat
      /\ IsFiniteSet(P \X P) /\ Cardinality(P \X P) = Cardinality(P) * Cardinality(P)
  BY FinitePairs, FS_Product
<1>2. f \in Bijection(A, B)
  <2>1. f \in [A -> B]
    BY DEF Above
  <2>2. \A p, q \in A : f[p] = f[q] => p = q
    BY DEF Above
  <2>3. \A q \in B : \E p \in A : f[p] = q
    <3> TAKE q \in B
    <3>1. q = <<q[1], q[2]>> /\ <<q[2], q[1]>> \in A
      BY DEF Above
    <3>2. f[<<q[2], q[1]>>] = q
      BY <3>1
    <3> QED
      BY <3>1, <3>2
  <2> HIDE DEF f, A, B
  <2>4. f \in Injection(A, B)
    BY <2>1, <2>2 DEF Injection, IsInjective
  <2>5. f \in Surjection(A, B)
    BY <2>1, <2>3 DEF Surjection
  <2> QED
    BY <2>4, <2>5 DEF Bijection
<1>3. IsFiniteSet(B) /\ Cardinality(B) = Cardinality(A)
  <2> HIDE DEF f, A, B
  <2> QED
    BY <1>1, <1>2, FS_Bijection DEF ExistsBijection
<1>4. \A i \in P : sample[i].score \in Nat
  BY SampleFacts
<1>5. P \X P = (A \cup B) \cup E /\ A \cap B = {} /\ (A \cup B) \cap E = {}
  BY <1>4 DEF Above, Level
<1> HIDE DEF A, B, E, f
<1>6. IsFiniteSet(A \cup B) /\ Cardinality(A \cup B) = Cardinality(A) + Cardinality(B)
  BY <1>1, <1>3, <1>5, Together
<1>7. Cardinality((A \cup B) \cup E) = Cardinality(A \cup B) + Cardinality(E)
  BY <1>1, <1>5, <1>6, Together
<1>8. 2 * Cardinality(A) + Cardinality(E) = Cardinality(P) * Cardinality(P)
  <2> DEFINE square == Cardinality(P) * Cardinality(P)
  <2>1. square = Cardinality(A) + Cardinality(A) + Cardinality(E)
    BY <1>1, <1>3, <1>5, <1>6, <1>7
  <2> HIDE DEF square
  <2>2. 2 * Cardinality(A) + Cardinality(E) = square
    BY <1>1, <2>1
  <2> QED
    BY <2>2 DEF square
<1> QED
  BY <1>8 DEF A, E

LEMMA AreasAgree ==
  ASSUME GateInv
  PROVE  LET P == Positive(Indices)
         IN  TwiceRankSum[P] - Size(P) * (Size(P) + 1) = TwiceWins(Indices)
<1> DEFINE I == Indices
           P == Positive(I)
           N == Negative(I)
<1>1. /\ IsFiniteSet(I) /\ I \in SUBSET (1..MaxListings)
      /\ \A i \in I : sample[i].score \in Nat
  <2>1. IsFiniteSet(1..MaxListings)
    BY GateNumbers, FS_Interval
  <2>2. I \in SUBSET (1..MaxListings) /\ \A i \in I : sample[i].score \in Nat
    BY SampleFacts
  <2>3. IsFiniteSet(I)
    BY <2>1, <2>2, FS_Subset
  <2> QED
    BY <2>2, <2>3
<1>2. P \in SUBSET I /\ N \in SUBSET I /\ P \cap N = {} /\ I = P \cup N
  BY DEF Positive, Negative
<1>3. IsFiniteSet(P) /\ IsFiniteSet(N) /\ Cardinality(P) \in Nat
  BY <1>1, <1>2, FS_Subset, FS_CardinalityType
<1> HIDE DEF P, N
<1>4. /\ Above(P, I) = Above(P, P) \cup Above(P, N) /\ Above(P, P) \cap Above(P, N) = {}
      /\ Level(P, I) = Level(P, P) \cup Level(P, N) /\ Level(P, P) \cap Level(P, N) = {}
  <2>1. P \X I = (P \X P) \cup (P \X N) /\ (P \X P) \cap (P \X N) = {}
    BY <1>2
  <2> QED
    BY <2>1 DEF Above, Level
<1>5. /\ IsFiniteSet(Above(P, P)) /\ IsFiniteSet(Above(P, N))
      /\ IsFiniteSet(Level(P, P)) /\ IsFiniteSet(Level(P, N))
  BY <1>3, FinitePairs
<1>6. /\ Cardinality(Above(P, I)) = Cardinality(Above(P, P)) + Cardinality(Above(P, N))
      /\ Cardinality(Above(P, P)) \in Nat /\ Cardinality(Above(P, N)) \in Nat
  BY <1>4, <1>5, Together
<1>7. /\ Cardinality(Level(P, I)) = Cardinality(Level(P, P)) + Cardinality(Level(P, N))
      /\ Cardinality(Level(P, P)) \in Nat /\ Cardinality(Level(P, N)) \in Nat
  BY <1>4, <1>5, Together
<1>8. 2 * Cardinality(Above(P, P)) + Cardinality(Level(P, P)) = Cardinality(P) * Cardinality(P)
  BY <1>2, <1>3, WinsAndLosses
<1>9. TwiceRankSum[P] = Cardinality(P) + 2 * Cardinality(Above(P, I)) + Cardinality(Level(P, I))
  <2>1. P \in SUBSET (1..MaxListings)
    BY <1>1, <1>2
  <2> QED
    BY <2>1, SumsAreOfPairs DEF SumOf, Size
<1>10. TwiceWins(I) = 2 * Cardinality(Above(P, N)) + Cardinality(Level(P, N))
  <2>1. {p \in P \X N : sample[p[1]].score > sample[p[2]].score} = Above(P, N)
    BY <1>1, <1>2 DEF Above
  <2>2. {p \in P \X N : sample[p[1]].score = sample[p[2]].score} = Level(P, N)
    BY DEF Level
  <2> QED
    BY <2>1, <2>2 DEF TwiceWins, Size, P, N
<1>11. TwiceRankSum[P] - Cardinality(P) * (Cardinality(P) + 1) = TwiceWins(I)
  <2> DEFINE c == Cardinality(P)
  <2>1. c * (c + 1) = c * c + c
    BY <1>3
  <2>2. c * c \in Nat
    BY <1>3
  <2> QED
    BY <1>3, <1>6, <1>7, <1>8, <1>9, <1>10, <2>1, <2>2
<1> QED
  BY <1>11 DEF Size, P

\* A score is in one bin.
LEMMA OneBin ==
  ASSUME GateInv, NEW i \in Indices, NEW n \in {5, 10}
  PROVE  Size({b \in Bins(n) : InBin(i, b, n)}) = 1
<1>1. sample[i].score \in {0, 60, 100}
  BY SampleFacts
<1> DEFINE k == IF sample[i].score = 0 THEN 0
                ELSE IF sample[i].score = 60 THEN (IF n = 5 THEN 3 ELSE 6) ELSE n - 1
           S == {b \in Bins(n) : InBin(i, b, n)}
<1>2. S = {k}
  <2>1. CASE n = 5
    BY <1>1, <2>1 DEF Bins, InBin
  <2>2. CASE n = 10
    BY <1>1, <2>2 DEF Bins, InBin
  <2> QED
    BY <2>1, <2>2
<1> HIDE DEF S, k
<1>3. Cardinality(S) = 1
  BY <1>2, FS_Singleton
<1> QED
  BY <1>3 DEF Size, S

LEMMA MetricsAreRight == GateInv => MetricsAgree
  BY AreasAgree, OneBin DEF MetricsAgree

-----------------------------------------------------------------------------
(* The gate. *)

LEMMA Tiers == GateInv => TiersAreOrdered
<1> SUFFICES ASSUME GateInv, Production(evidence)
             PROVE  Screening(evidence) \/ (evidence.auc < 580 /\ evidence.ciLow > 500)
  BY DEF TiersAreOrdered
<1>1. /\ evidence.n \in Int /\ evidence.auc \in Int /\ evidence.ciLow \in Int
      /\ evidence.gain \in Int /\ evidence.stable \in Int
  BY DEF GateInv, Evidence
<1> QED
  BY <1>1 DEF Production, Screening, Discriminates

\* More of one merit, all else being equal.
LEMMA MoreIsBetter ==
  ASSUME NEW e \in Evidence, NEW field \in Merits, NEW v \in Int, e[field] # NoValue, v > e[field]
  PROVE  LET f == [e EXCEPT ![field] = v]
         IN /\ Screening(e) => Screening(f)
            /\ Production(e) => Production(f) \/ (field = "auc" /\ ~SegmentStable(f))
            /\ Probability(e) => Probability(f) \/ ~Production(f)
<1> DEFINE f == [e EXCEPT ![field] = v]
<1>1. /\ e.n \in Int /\ e.auc \in Int /\ e.ciLow \in Int /\ e.gain \in Int /\ e.stable \in Int
      /\ e.folds \in Int /\ e.segment \in Int /\ e.ece \in Int /\ e.graded \in Int
  BY DEF Evidence
<1>2. /\ f.n = (IF field = "n" THEN v ELSE e.n) /\ f.auc = (IF field = "auc" THEN v ELSE e.auc)
      /\ f.ciLow = (IF field = "ciLow" THEN v ELSE e.ciLow)
      /\ f.gain = (IF field = "gain" THEN v ELSE e.gain)
      /\ f.stable = (IF field = "stable" THEN v ELSE e.stable)
  BY DEF Evidence
<1>3. /\ f.folds = (IF field = "folds" THEN v ELSE e.folds)
      /\ f.segment = (IF field = "segment" THEN v ELSE e.segment)
      /\ f.graded = (IF field = "graded" THEN v ELSE e.graded)
      /\ f.ece = e.ece /\ f.leakageFree = e.leakageFree
  BY DEF Evidence, Merits
<1>4. /\ field = "n" => v > e.n
      /\ field = "auc" => v > e.auc
      /\ field = "ciLow" => v > e.ciLow /\ e.ciLow # NoValue
      /\ field = "gain" => v > e.gain
      /\ field = "stable" => v > e.stable
      /\ field = "folds" => v > e.folds
      /\ field = "segment" => v > e.segment /\ e.segment # NoValue
      /\ field = "graded" => v > e.graded
  OBVIOUS
<1> HIDE DEF f
<1>5. Screening(e) => Screening(f)
  BY <1>1, <1>2, <1>4 DEF Screening
<1>6. Discriminates(e) => Discriminates(f)
  BY <1>1, <1>2, <1>4 DEF Discriminates, NoValue
<1>7. SegmentStable(e) => SegmentStable(f) \/ field = "auc"
  BY <1>1, <1>2, <1>3, <1>4 DEF SegmentStable
<1>8. Production(e) => Production(f) \/ (field = "auc" /\ ~SegmentStable(f))
  <2>1. e.n >= 300 => f.n >= 300
    BY <1>1, <1>2, <1>4
  <2>2. (e.gain >= 20 => f.gain >= 20) /\ (e.stable >= 70 => f.stable >= 70)
    BY <1>1, <1>2, <1>4
  <2>3. e.folds >= 3 => f.folds >= 3
    BY <1>1, <1>3, <1>4
  <2> QED
    BY <1>3, <1>6, <1>7, <2>1, <2>2, <2>3 DEF Production
<1>9. Probability(e) => Probability(f) \/ ~Production(f)
  BY <1>1, <1>3, <1>4 DEF Probability
<1> QED
  BY <1>5, <1>8, <1>9 DEF f

LEMMA LevelsAreNumbers ==
  ASSUME NEW field \in DOMAIN Levels, NEW v \in Levels[field], evidence \in Evidence
  PROVE  /\ [evidence EXCEPT ![field] = v] \in Evidence
         /\ field \in Merits => v \in Int
<1>1. field \in {"n", "auc", "ciLow", "gain", "stable", "folds", "segment", "ece", "graded", "leakageFree"}
  BY DEF Levels
<1>2. field # "leakageFree" => v \in Int
  BY <1>1 DEF Levels, NoValue
<1>3. field = "leakageFree" => v \in BOOLEAN
  BY DEF Levels
<1>4. [evidence EXCEPT ![field] = v] \in Evidence
  BY <1>1, <1>2, <1>3 DEF Evidence
<1> QED
  BY <1>2, <1>4 DEF Merits

LEMMA GateMoves ==
  ASSUME GateInv, Reevaluate
  PROVE  GateInv' /\ GateStaysOpen
<1>1. PICK field \in DOMAIN Levels : \E v \in Levels[field] : evidence' = [evidence EXCEPT ![field] = v]
  BY DEF Reevaluate
<1>2. PICK v \in Levels[field] : evidence' = [evidence EXCEPT ![field] = v]
  BY <1>1
<1>3. sample' = sample /\ evidence \in Evidence
  BY DEF Reevaluate, GateInv
<1>4. evidence' \in Evidence /\ (field \in Merits => v \in Int)
  BY <1>2, <1>3, LevelsAreNumbers
<1>5. GateInv'
  BY <1>3, <1>4 DEF GateInv, Indices
<1>6. GateStaysOpen
  <2> SUFFICES ASSUME NEW merit \in Merits, evidence[merit] # NoValue, evidence'[merit] > evidence[merit]
               PROVE  /\ Screening(evidence) => Screening(evidence')
                      /\ Production(evidence) => Production(evidence')
                                                 \/ (merit = "auc" /\ ~SegmentStable(evidence'))
                      /\ Probability(evidence) => Probability(evidence') \/ ~Production(evidence')
    BY DEF GateStaysOpen
  <2>1. evidence[merit] \in Int /\ merit \in DOMAIN evidence
    BY <1>3 DEF Evidence, Merits
  <2>2. merit = field
    <3>1. merit # field => evidence'[merit] = evidence[merit]
      BY <1>2, <1>3, <2>1
    <3> QED
      BY <2>1, <3>1
  <2>3. evidence'[merit] = v
    BY <1>2, <2>1, <2>2
  <2> DEFINE f == [evidence EXCEPT ![merit] = v]
  <2>4. v \in Int /\ v > evidence[merit] /\ evidence' = f
    BY <1>2, <1>4, <2>2, <2>3
  <2>5. /\ Screening(evidence) => Screening(f)
        /\ Production(evidence) => Production(f) \/ (merit = "auc" /\ ~SegmentStable(f))
        /\ Probability(evidence) => Probability(f) \/ ~Production(f)
    BY <1>3, <2>4, MoreIsBetter
  <2> HIDE DEF f
  <2> QED
    BY <2>4, <2>5
<1> QED
  BY <1>5, <1>6

LEMMA SampleGrows == ASSUME GateInv, AddListing PROVE GateInv' /\ UNCHANGED evidence
<1>1. PICK l \in ListedRow : /\ \A i \in Indices : sample[i].day <= l.day
                             /\ sample' = Append(sample, l)
  BY DEF AddListing
<1>2. /\ Len(sample) < MaxListings /\ evidence' = evidence
      /\ sample \in Seq(ListedRow) /\ Len(sample) \in Nat
  BY DEF AddListing, GateInv
<1>3. /\ sample' \in Seq(ListedRow) /\ Len(sample') = Len(sample) + 1
      /\ \A i \in 1..Len(sample) : sample'[i] = sample[i]
      /\ sample'[Len(sample) + 1] = l
  BY <1>1, <1>2
<1>4. Indices = 1..Len(sample) /\ Indices' = 1..(Len(sample) + 1)
  BY <1>2, <1>3 DEF Indices
<1>5. Len(sample') <= MaxListings
  BY <1>2, <1>3, GateNumbers
<1>6. ASSUME NEW i \in Indices', NEW j \in Indices', i <= j
      PROVE  sample'[i].day <= sample'[j].day
  <2>1. l.day \in Nat
    BY DEF ListedRow
  <2>2. CASE j = Len(sample) + 1 /\ i = j
    BY <1>3, <2>1, <2>2
  <2>3. CASE j = Len(sample) + 1 /\ i # j
    <3>1. i \in Indices
      BY <1>2, <1>4, <1>6, <2>3
    <3> QED
      BY <1>1, <1>3, <1>4, <2>3, <3>1
  <2>4. CASE j # Len(sample) + 1
    <3>1. i \in Indices /\ j \in Indices
      BY <1>2, <1>4, <1>6, <2>4
    <3> QED
      BY <1>3, <1>4, <1>6, <3>1 DEF GateInv
  <2> QED
    BY <2>2, <2>3, <2>4
<1> QED
  BY <1>2, <1>3, <1>5, <1>6 DEF GateInv

\* The evaluation says what it claims, for any sample, year, training size and
\* sequence of evaluations: folds learn from rows that listed before, the area by
\* ranks is that by pairs,
\* every prediction is in one bin, the tiers are in order and no gate closes on
\* better evidence.
THEOREM EvaluationHolds == GateSpec => EvaluationIsHonest
<1>1. GateInit => GateInv
  BY GateNumbers DEF GateInit, GateInv, Evidence, Indices, NoValue
<1>2. GateInv /\ [GateNext]_gateVars => GateInv' /\ [GateStaysOpen]_gateVars
  <2> SUFFICES ASSUME GateInv, [GateNext]_gateVars PROVE GateInv' /\ [GateStaysOpen]_gateVars
    OBVIOUS
  <2>1. CASE UNCHANGED gateVars
    BY <2>1 DEF gateVars, GateInv, Indices
  <2>2. CASE AddListing
    <3>1. GateInv' /\ evidence' = evidence
      BY <2>2, SampleGrows
    <3>2. GateStaysOpen
      <4> SUFFICES ASSUME NEW merit \in Merits, evidence'[merit] > evidence[merit] PROVE FALSE
        BY DEF GateStaysOpen
      <4>1. evidence[merit] \in Int
        BY DEF GateInv, Evidence, Merits
      <4> QED
        BY <3>1, <4>1
    <3> QED
      BY <3>1, <3>2
  <2>3. CASE Reevaluate
    BY <2>3, GateMoves
  <2> QED
    BY <2>1, <2>2, <2>3 DEF GateNext
<1>3. GateInv => FoldsLookBack /\ MetricsAgree /\ TiersAreOrdered
  BY FoldsAreRight, MetricsAreRight, Tiers
<1> QED
  BY <1>1, <1>2, <1>3, PTL DEF GateSpec, EvaluationIsHonest
=============================================================================

------------------------- MODULE MaintenanceProofs --------------------------
(***************************************************************************)
(* Theorems about the scripts that run beside the service: the deploys,    *)
(* the backups and the backfills.  They share no state, so each part is    *)
(* about one of them.                                                      *)
(***************************************************************************)
EXTENDS Backups, DeployRollback, BackfillWalk, ListingRepair, RhpCache, Comparatives, FiniteSetTheorems, TLAPS

(* The backups. *)

\* The dumps are of the past and whole; a writer that is about to name a dump
\* has a whole one, and one that is about to prune has named one today.
BackupInv ==
  /\ day \in Nat /\ busy \in [Writers -> {"asleep", "dumping", "renaming", "pruning"}]
  /\ temp \in [Writers -> {"none", "truncated", "complete"}]
  /\ \A f \in dumps : f.day \in Nat /\ f.day <= day /\ f.complete
  /\ \A w \in Writers :
       /\ busy[w] = "renaming" => temp[w] = "complete"
       /\ busy[w] = "pruning" => \E f \in dumps : f.writer = w /\ f.day = day
       /\ w \in everGood => \E f \in dumps : f.writer = w
  /\ everGood \subseteq Writers

LEMMA BackupStep ==
  ASSUME BackupInv, [BackupNext]_backupVars
  PROVE  BackupInv'
<1> USE BackupsAssumption
<1>1. CASE UNCHANGED backupVars
  BY <1>1 DEF backupVars, BackupInv
<1>2. CASE DayPasses
  BY <1>2 DEF DayPasses, BackupInv
<1>3. ASSUME NEW w \in Writers, StartDump(w) \/ DumpEnds(w) \/ DumpFails(w) \/ Die(w)
      PROVE  BackupInv'
  BY <1>3 DEF StartDump, DumpEnds, DumpFails, Die, BackupInv
<1>4. ASSUME NEW w \in Writers, Rename(w) PROVE BackupInv'
  <2>1. temp[w] = "complete" /\ dumps' = dumps \cup {Dump(w, day, TRUE)}
    BY <1>4 DEF Rename, BackupInv
  <2>2. /\ Dump(w, day, TRUE).writer = w /\ Dump(w, day, TRUE).day = day
        /\ Dump(w, day, TRUE).complete
    BY DEF Dump
  <2> DEFINE new == Dump(w, day, TRUE)
  <2>5. new \in dumps' /\ new.writer = w /\ new.day = day /\ new.complete
    BY <2>1, <2>2
  <2>6. \A f \in dumps' : f = new \/ f \in dumps
    BY <2>1
  <2> HIDE DEF new
  <2>3. \A f \in dumps' : f.day \in Nat /\ f.day <= day' /\ f.complete
    BY <1>4, <2>5, <2>6 DEF Rename, BackupInv
  <2>7. dumps \subseteq dumps' /\ day' = day
    BY <1>4, <2>1 DEF Rename
  <2>4. ASSUME NEW v \in Writers
        PROVE  /\ busy'[v] = "renaming" => temp'[v] = "complete"
               /\ busy'[v] = "pruning" => \E f \in dumps' : f.writer = v /\ f.day = day'
               /\ v \in everGood' => \E f \in dumps' : f.writer = v
    BY <1>4, <2>1, <2>5, <2>7 DEF Rename, BackupInv
  <2> QED
    BY <1>4, <2>3, <2>4 DEF Rename, BackupInv
<1>5. ASSUME NEW w \in Writers, Prune(w) PROVE BackupInv'
  <2>1. PICK new \in dumps : new.writer = w /\ new.day = day
    BY <1>5 DEF Prune, BackupInv
  <2>2. new \in dumps'
    BY <1>5, <2>1 DEF Prune, BackupInv
  <2>3. \A f \in dumps : f.writer # w => f \in dumps'
    BY <1>5 DEF Prune
  <2>4. ASSUME NEW v \in Writers
        PROVE  /\ busy'[v] = "renaming" => temp'[v] = "complete"
               /\ busy'[v] = "pruning" => \E f \in dumps' : f.writer = v /\ f.day = day'
               /\ v \in everGood' => \E f \in dumps' : f.writer = v
    BY <1>5, <2>1, <2>2, <2>3 DEF Prune, BackupInv
  <2> QED
    BY <1>5, <2>4 DEF Prune, BackupInv
<1> QED
  BY <1>1, <1>2, <1>3, <1>4, <1>5 DEF BackupNext

\* However dumps end and writers die, no truncated file has the name of a
\* backup, and a writer that has had a whole dump always has one
\* (backup_loop.sh:30-39, 64-65).
THEOREM BackupsHold == BackupSpec => []DumpsAreGood
<1>1. BackupInit => BackupInv
  BY DEF BackupInit, BackupInv
<1>2. BackupInv /\ [BackupNext]_backupVars => BackupInv'
  BY BackupStep
<1>3. BackupInv => DumpsAreGood
  BY DEF BackupInv, DumpsAreGood, NoTruncatedDump, AGoodDumpRemains, Of
<1> QED
  BY <1>1, <1>2, <1>3, PTL DEF BackupSpec
-----------------------------------------------------------------------------
(* The walk over EDGAR's days.                                             *)

LEMMA MaxOfTwo ==
  ASSUME NEW a \in Int, NEW b \in Int
  PROVE  Max({a, b}) = IF a >= b THEN a ELSE b
<1> DEFINE most(x) == x \in {a, b} /\ \A y \in {a, b} : x >= y
           m == IF a >= b THEN a ELSE b
<1>1. most(m)
  OBVIOUS
<1>2. \A x : most(x) => x = m
  OBVIOUS
<1>3. most(Max({a, b}))
  BY <1>1 DEF Max
<1> QED
  BY <1>2, <1>3

LEMMA MinIsLeast ==
  ASSUME NEW S, S \subseteq Int, NEW m \in S, \A y \in S : m <= y
  PROVE  Min(S) = m
<1>1. Min(S) \in S /\ \A y \in S : Min(S) <= y
  BY DEF Min
<1>2. Min(S) \in Int /\ m \in Int /\ Min(S) <= m /\ m <= Min(S)
  BY <1>1
<1> QED
  BY <1>2

LEMMA WindowIsNat == LiveFrom \in Nat \ {0}
BY WalkAssumption

\* There is an earliest listing.
HasFirst(S) == \E m \in S : \A x \in S : m <= x

\* The next day no run has come past.
NextDay == IF walk.open THEN walk.at ELSE through + 1

WalkTypes ==
  /\ listings \subseteq 1..LiveFrom /\ LiveFrom \in listings
  /\ HasFirst(listings)
  /\ through \in 0..(LiveFrom - 1) /\ targetEnd \in -1..(LiveFrom - 1)
  /\ walk \in [open : BOOLEAN, at : Nat, last : Int, done : Nat]
  /\ scans \in [1..LiveFrom -> Nat] /\ deaths \in Nat
  /\ finished \in BOOLEAN /\ orphaned \in BOOLEAN

\* An open walk goes on where the last recorded one ended, within the window.
WalkIsPlaced ==
  walk.open => through < walk.at /\ walk.at <= LiveFrom /\ walk.last < LiveFrom

\* Every day before the next one was scanned, once and by the runs that died;
\* the others by those only.
DaysAreScanned ==
  \A d \in 1..LiveFrom :
    IF d < NextDay THEN scans[d] > 0 /\ scans[d] <= 1 + deaths ELSE scans[d] <= deaths

\* Until a first run dies with rows stored, every run goes for the same end.
OneEnd ==
  ~orphaned => /\ ~walk.open /\ targetEnd < 0 => listings = {LiveFrom}
               /\ targetEnd >= 0 => targetEnd = LiveFrom - 1
               /\ walk.open => walk.last = LiveFrom - 1

WalkInv == WalkTypes /\ WalkIsPlaced /\ DaysAreScanned /\ OneEnd /\ GapIsClosed

LEMMA WalkStarts == WalkInit => WalkInv
<1> USE WindowIsNat
<1> SUFFICES ASSUME WalkInit PROVE WalkInv
  OBVIOUS
<1>1. WalkTypes
  <2>1. walk \in [open : BOOLEAN, at : Nat, last : Int, done : Nat]
    BY DEF WalkInit, NoWalk
  <2>2. listings = {LiveFrom} /\ HasFirst(listings)
    BY DEF WalkInit, HasFirst
  <2> QED
    <3>1. listings \subseteq 1..LiveFrom /\ LiveFrom \in listings
      BY <2>2
    <3>2. through = 0 /\ targetEnd = -1 /\ deaths = 0 /\ finished = FALSE /\ orphaned = FALSE
      BY DEF WalkInit
    <3>3. scans \in [1..LiveFrom -> Nat]
      BY DEF WalkInit
    <3>4. targetEnd \in -1..(LiveFrom - 1)
      BY <3>2
    <3>5. through \in 0..(LiveFrom - 1)
      BY <3>2
    <3> QED
      BY <2>1, <2>2, <3>1, <3>2, <3>3, <3>4, <3>5 DEF WalkTypes
<1>2. walk.open = FALSE /\ through = 0 /\ finished = FALSE /\ targetEnd = -1
  BY DEF WalkInit, NoWalk
<1>3. DaysAreScanned
  BY <1>2 DEF WalkInit, DaysAreScanned, NextDay
<1>4. WalkIsPlaced /\ OneEnd /\ GapIsClosed
  BY <1>2 DEF WalkInit, WalkIsPlaced, OneEnd, GapIsClosed
<1> QED
  BY <1>1, <1>3, <1>4 DEF WalkInv

LEMMA StartWalkStep ==
  ASSUME WalkInv, StartWalk
  PROVE  WalkInv'
<1> USE WindowIsNat
<1>1. WalkTypes /\ WalkIsPlaced /\ DaysAreScanned /\ OneEnd /\ GapIsClosed
  BY DEF WalkInv
<1>2. PICK m \in listings : \A x \in listings : m <= x
  BY <1>1 DEF WalkTypes, HasFirst
<1>a. listings \subseteq Int /\ m \in 1..LiveFrom
  BY <1>1 DEF WalkTypes
<1>3. Min(listings) = m
  BY <1>a, <1>2, MinIsLeast
<1>4. WalkLast \in Int /\ WalkLast < LiveFrom
  BY <1>1, <1>a, <1>3 DEF WalkLast, WalkTypes
<1>5. /\ ~walk.open /\ walk' = [open |-> TRUE, at |-> through + 1, last |-> WalkLast, done |-> 0]
      /\ UNCHANGED <<listings, through, targetEnd, scans, finished, orphaned, deaths>>
  BY DEF StartWalk, WalkFirst, walkBounds
<1>6. /\ walk'.open = TRUE /\ walk'.at = through + 1 /\ walk'.last = WalkLast
  BY <1>5
<1>7. NextDay' = NextDay
  BY <1>5, <1>6 DEF NextDay
<1>8. through < LiveFrom
  BY <1>1 DEF WalkTypes
<1>9. WalkTypes'
  BY <1>1, <1>4, <1>5 DEF WalkTypes
<1>10. WalkIsPlaced'
  BY <1>1, <1>4, <1>5, <1>6, <1>8 DEF WalkIsPlaced, WalkTypes
<1>11. ~orphaned => WalkLast = LiveFrom - 1
  BY <1>1, <1>3, <1>5 DEF OneEnd, WalkLast, WalkTypes
<1>12. OneEnd' /\ DaysAreScanned' /\ GapIsClosed'
  BY <1>1, <1>5, <1>6, <1>7, <1>11 DEF OneEnd, DaysAreScanned, GapIsClosed
<1> QED
  BY <1>9, <1>10, <1>12 DEF WalkInv

LEMMA DayStep ==
  ASSUME WalkInv, AtWork, NEW stored, CompleteDay(stored)
  PROVE  WalkInv'
<1> USE WindowIsNat
<1>1. WalkTypes /\ WalkIsPlaced /\ DaysAreScanned /\ OneEnd /\ GapIsClosed
  BY DEF WalkInv
<1>2. walk.open /\ walk.at \in 1..LiveFrom /\ walk.at < LiveFrom
  BY <1>1 DEF AtWork, WalkTypes, WalkIsPlaced
<1>3. /\ walk' = [walk EXCEPT !.at = @ + 1, !.done = @ + 1]
      /\ scans' = [scans EXCEPT ![walk.at] = @ + 1]
      /\ (listings' = listings \/ listings' = listings \cup {walk.at})
      /\ UNCHANGED <<through, targetEnd, finished, orphaned, deaths>>
  BY DEF CompleteDay
<1>w. /\ walk \in [open : BOOLEAN, at : Nat, last : Int, done : Nat]
      /\ walk' = [open |-> walk.open, at |-> walk.at + 1, last |-> walk.last, done |-> walk.done + 1]
  BY <1>1, <1>3 DEF WalkTypes
<1>4. /\ walk'.open /\ walk'.at = walk.at + 1 /\ walk'.last = walk.last
      /\ walk' \in [open : BOOLEAN, at : Nat, last : Int, done : Nat]
  BY <1>2, <1>w
<1>5. HasFirst(listings')
  <2>1. PICK m \in listings : \A x \in listings : m <= x
    BY <1>1 DEF WalkTypes, HasFirst
  <2>2. m \in Int
    BY <1>1 DEF WalkTypes
  <2>3. CASE m <= walk.at
    <3>1. \A x \in listings' : m <= x
      BY <1>3, <2>1, <2>3
    <3>2. m \in listings'
      BY <1>3
    <3> QED
      BY <3>1, <3>2 DEF HasFirst
  <2>4. CASE ~(m <= walk.at) /\ listings' = listings \cup {walk.at}
    <3>1. \A x \in listings' : walk.at <= x
      BY <1>1, <1>2, <2>1, <2>2, <2>4 DEF WalkTypes
    <3> QED
      BY <3>1, <2>4 DEF HasFirst
  <2>5. CASE listings' = listings
    BY <2>5, <1>1 DEF WalkTypes
  <2> QED
    BY <1>3, <2>3, <2>4, <2>5
<1>6. scans' \in [1..LiveFrom -> Nat]
  BY <1>1, <1>2, <1>3 DEF WalkTypes
<1>7. WalkTypes'
  BY <1>1, <1>2, <1>3, <1>4, <1>5, <1>6 DEF WalkTypes
<1>8. WalkIsPlaced'
  BY <1>1, <1>2, <1>3, <1>4 DEF WalkIsPlaced, WalkTypes
<1>9. DaysAreScanned'
  <2>1. NextDay = walk.at /\ NextDay' = walk.at + 1
    BY <1>2, <1>4 DEF NextDay
  <2> SUFFICES ASSUME NEW d \in 1..LiveFrom
               PROVE  IF d < walk.at + 1 THEN scans'[d] > 0 /\ scans'[d] <= 1 + deaths
                      ELSE scans'[d] <= deaths
    BY <2>1, <1>3 DEF DaysAreScanned
  <2>2. /\ scans'[d] = IF d = walk.at THEN scans[d] + 1 ELSE scans[d]
        /\ scans[d] \in Nat /\ deaths \in Nat
    BY <1>1, <1>3 DEF WalkTypes
  <2>3. IF d < walk.at THEN scans[d] > 0 /\ scans[d] <= 1 + deaths ELSE scans[d] <= deaths
    BY <2>1, <1>1 DEF DaysAreScanned
  <2> QED
    BY <2>2, <2>3, <1>2
<1>10. OneEnd'
  BY <1>1, <1>2, <1>3, <1>4 DEF OneEnd
<1>11. GapIsClosed'
  <2> SUFFICES ASSUME finished, ~orphaned, NEW d \in 1..(LiveFrom - 1) PROVE scans'[d] > 0
    BY <1>3 DEF GapIsClosed
  <2>1. scans[d] > 0 /\ scans[d] \in Nat
    BY <1>1 DEF GapIsClosed, WalkTypes
  <2> QED
    BY <2>1, <1>1, <1>3 DEF WalkTypes
<1> QED
  BY <1>7, <1>8, <1>9, <1>10, <1>11 DEF WalkInv

LEMMA EndStep ==
  ASSUME WalkInv, walk.open, EndWalk,
         \/ finished' = finished
         \/ finished' = TRUE /\ walk.at > walk.last
  PROVE  WalkInv'
<1> USE WindowIsNat
<1>1. WalkTypes /\ WalkIsPlaced /\ DaysAreScanned /\ OneEnd /\ GapIsClosed
  BY DEF WalkInv
<1>2. /\ walk' = NoWalk /\ through' = Max({through, walk.at - 1})
      /\ targetEnd' = Max({targetEnd, walk.last})
      /\ UNCHANGED <<listings, scans, orphaned, deaths>>
  BY DEF EndWalk
<1>3. /\ through \in Int /\ walk.at \in Int /\ targetEnd \in Int /\ walk.last \in Int
      /\ through < walk.at /\ walk.at <= LiveFrom /\ walk.last < LiveFrom
  BY <1>1 DEF WalkTypes, WalkIsPlaced
<1>4. through' = walk.at - 1
  BY <1>2, <1>3, MaxOfTwo
<1>5. targetEnd' = IF targetEnd >= walk.last THEN targetEnd ELSE walk.last
  BY <1>2, <1>3, MaxOfTwo
<1>6. ~walk'.open /\ walk' \in [open : BOOLEAN, at : Nat, last : Int, done : Nat]
  BY <1>2 DEF NoWalk
<1>7. WalkTypes'
  <2>1. through' \in 0..(LiveFrom - 1)
    BY <1>1, <1>3, <1>4 DEF WalkTypes
  <2>2. targetEnd' \in -1..(LiveFrom - 1)
    BY <1>1, <1>3, <1>5 DEF WalkTypes
  <2> QED
    BY <1>1, <1>2, <1>6, <2>1, <2>2 DEF WalkTypes
<1>8. NextDay' = NextDay
  BY <1>3, <1>4, <1>6 DEF NextDay
<1>9. DaysAreScanned' /\ WalkIsPlaced'
  BY <1>1, <1>2, <1>6, <1>8 DEF DaysAreScanned, WalkIsPlaced
<1>10. OneEnd'
  BY <1>1, <1>2, <1>3, <1>5, <1>6 DEF OneEnd, WalkTypes
<1>11. GapIsClosed'
  <2>1. CASE finished' = finished
    BY <1>1, <1>2, <2>1 DEF GapIsClosed
  <2>2. CASE finished' = TRUE /\ walk.at > walk.last
    <3> SUFFICES ASSUME ~orphaned, NEW d \in 1..(LiveFrom - 1) PROVE scans[d] > 0
      BY <1>2 DEF GapIsClosed
    <3>1. d < NextDay /\ d \in 1..LiveFrom
      BY <1>1, <1>3, <2>2 DEF OneEnd, NextDay
    <3> QED
      BY <3>1, <1>1 DEF DaysAreScanned
  <2> QED
    BY <2>1, <2>2
<1> QED
  BY <1>7, <1>9, <1>10, <1>11 DEF WalkInv

LEMMA DeathStep ==
  ASSUME WalkInv, WalkDies
  PROVE  WalkInv'
<1> USE WindowIsNat
<1>1. WalkTypes /\ WalkIsPlaced /\ DaysAreScanned /\ OneEnd /\ GapIsClosed
  BY DEF WalkInv
<1>2. /\ walk.open /\ deaths' = deaths + 1 /\ walk' = NoWalk
      /\ orphaned' = (orphaned \/ (targetEnd < 0 /\ listings # {LiveFrom}))
      /\ UNCHANGED <<listings, through, targetEnd, scans, finished>>
  BY DEF WalkDies
<1>3. ~walk'.open /\ walk' \in [open : BOOLEAN, at : Nat, last : Int, done : Nat]
  BY <1>2 DEF NoWalk
<1>4. WalkTypes' /\ WalkIsPlaced'
  BY <1>1, <1>2, <1>3 DEF WalkTypes, WalkIsPlaced
<1>5. OneEnd' /\ GapIsClosed'
  BY <1>1, <1>2, <1>3 DEF OneEnd, GapIsClosed
<1>6. DaysAreScanned'
  <2>1. NextDay = walk.at /\ NextDay' = through + 1 /\ through < walk.at
    BY <1>1, <1>2, <1>3 DEF NextDay, WalkIsPlaced
  <2> SUFFICES ASSUME NEW d \in 1..LiveFrom
               PROVE  IF d < through + 1 THEN scans[d] > 0 /\ scans[d] <= 2 + deaths
                      ELSE scans[d] <= 1 + deaths
    BY <2>1, <1>1, <1>2 DEF DaysAreScanned, WalkTypes
  <2>2. scans[d] \in Nat /\ deaths \in Nat /\ through \in Nat /\ walk.at \in Nat
    BY <1>1 DEF WalkTypes
  <2>3. IF d < walk.at THEN scans[d] > 0 /\ scans[d] <= 1 + deaths ELSE scans[d] <= deaths
    BY <2>1, <1>1 DEF DaysAreScanned
  <2> QED
    BY <2>1, <2>2, <2>3
<1> QED
  BY <1>4, <1>5, <1>6 DEF WalkInv

LEMMA WalkStep == WalkInv /\ [WalkNext]_walkVars => WalkInv'
<1> SUFFICES ASSUME WalkInv, [WalkNext]_walkVars PROVE WalkInv'
  OBVIOUS
<1>1. CASE StartWalk
  BY <1>1, StartWalkStep
<1>2. CASE ScanDay \/ SkipHoliday
  BY <1>2, DayStep DEF ScanDay, SkipHoliday
<1>3. CASE Completed \/ BudgetReached \/ IndexRefused
  <2>1. /\ walk.open /\ EndWalk
        /\ \/ finished' = finished
           \/ finished' = TRUE /\ walk.at > walk.last
    BY <1>3 DEF Completed, BudgetReached, IndexRefused, AtWork
  <2> QED
    BY <2>1, EndStep
<1>4. CASE WalkDies
  BY <1>4, DeathStep
<1>5. CASE UNCHANGED walkVars
  BY <1>5 DEF walkVars, walkBounds, WalkInv, WalkTypes, WalkIsPlaced, DaysAreScanned, NextDay,
              OneEnd, GapIsClosed
<1> QED
  BY <1>1, <1>2, <1>3, <1>4, <1>5 DEF WalkNext

\* A walk that says it is complete has been through every day of its window,
\* in order, and a day is scanned again only by a run that follows a death
\* (backfill_us_priced.py:16, 77-82), for any window, budget and faults.
THEOREM WalkHolds == WalkSpec => []WalkCloses
<1>1. WalkInv => WalkCloses
  <2> SUFFICES ASSUME WalkInv PROVE NeverRescans /\ WalkIsInOrder
    BY DEF WalkInv, WalkCloses
  <2>1. WalkTypes /\ WalkIsPlaced /\ DaysAreScanned
    BY DEF WalkInv
  <2>2. \A d \in 1..LiveFrom : d <= through => d < NextDay
    BY <2>1 DEF WalkTypes, WalkIsPlaced, NextDay
  <2>3. \A d \in 1..LiveFrom : scans[d] <= 1 + deaths
    BY <2>1 DEF WalkTypes, DaysAreScanned
  <2> QED
    BY <2>1, <2>2, <2>3 DEF DaysAreScanned, NeverRescans, WalkIsInOrder
<1> QED
  BY <1>1, WalkStarts, WalkStep, PTL DEF WalkSpec
-----------------------------------------------------------------------------
(* The repair of a row.                                                    *)

Unclear == filing.cut \/ filing.verdict = "unknown"

RepairTypes ==
  /\ status \in {"Listed", "NotIPO"}
  /\ price \in {"none", "cover", "other", "absurd"}
  /\ reads \in {0, 1, 2} /\ verdicts \in {0, 1, 2}

\* A row that has been read is left for good as unclear or verified, and one
\* read again is suspect and listed.
ReadLeavesTrace ==
  /\ reads > 0 => \/ Unclear /\ ("inconclusive" \in flags \/ "unknown" \in flags)
                  \/ "v2" \in flags /\ "v3" \in flags
  /\ reads > 1 => Unclear /\ Suspect /\ status = "Listed"

\* What is judged not to be an IPO is judged anew only if nobody has judged it
\* before.
JudgedOnce ==
  /\ status = "Listed" => verdicts <= 1 /\ "not_ipo" \notin flags
  /\ RecheckCandidate => verdicts = 0

VerifiedLeavesReach ==
  "v3" \in flags /\ Suspect => status = "NotIPO" /\ ~RecheckCandidate

RepairInv ==
  RepairTypes /\ ReturnsMatchPrice /\ ReadLeavesTrace /\ JudgedOnce /\ VerifiedLeavesReach

LEMMA RepairRowStep == ASSUME RepairInv, RepairRow PROVE RepairInv'
<1>1. /\ RepairTypes /\ ReturnsMatchPrice /\ ReadLeavesTrace /\ JudgedOnce
      /\ VerifiedLeavesReach
  BY DEF RepairInv
<1>2. /\ Candidate /\ status = "Listed" /\ filing' = filing /\ restored' = restored
      /\ reads' = IF reads = 0 THEN 1 ELSE 2
  BY DEF RepairRow, Candidate
<1>3. "not_ipo" \notin flags /\ verdicts \in {0, 1}
  BY <1>1, <1>2 DEF JudgedOnce, RepairTypes
<1>4. reads \in {0, 1, 2} /\ reads' \in {1, 2} /\ (reads = 0 => reads' = 1)
  BY <1>1, <1>2 DEF RepairTypes
<1>5. reads > 0 => Unclear /\ Suspect
  <2> SUFFICES ASSUME reads > 0 PROVE Unclear /\ Suspect
    OBVIOUS
  <2>1. CASE Suspect /\ "v3" \notin flags
    BY <2>1, <1>1 DEF ReadLeavesTrace
  <2>2. CASE ~(Suspect /\ "v3" \notin flags)
    BY <2>2, <1>1, <1>2 DEF ReadLeavesTrace, Candidate
  <2> QED
    BY <2>1, <2>2
<1>6. CASE Unclear /\ Inconclusive
  <2>1. /\ UNCHANGED <<status, price, basis, verdicts>>
        /\ flags' = Unverified \cup {IF filing.cut THEN "inconclusive" ELSE "unknown"}
    BY <1>6 DEF Inconclusive
  <2>2. /\ "inconclusive" \in flags' \/ "unknown" \in flags'
        /\ "v3" \notin flags' /\ "not_ipo" \notin flags'
    BY <1>3, <2>1 DEF Unverified
  <2>3. RepairTypes' /\ ReturnsMatchPrice'
    BY <1>1, <1>2, <1>4, <2>1 DEF RepairTypes, ReturnsMatchPrice
  <2>4. ReadLeavesTrace'
    BY <1>2, <1>4, <1>5, <1>6, <2>1, <2>2 DEF ReadLeavesTrace, Unclear, Suspect
  <2>5. JudgedOnce' /\ VerifiedLeavesReach'
    BY <1>2, <1>3, <2>1, <2>2 DEF JudgedOnce, VerifiedLeavesReach, RecheckCandidate
  <2> QED
    BY <2>3, <2>4, <2>5 DEF RepairInv
<1>7. CASE ~Unclear /\ RejectRow
  <2>1. reads' = 1
    BY <1>4, <1>5, <1>7
  <2>2. /\ status' = "NotIPO" /\ verdicts' = verdicts + 1 /\ UNCHANGED <<price, basis>>
        /\ "v2" \in flags' /\ "v3" \in flags' /\ "rechecked" \in flags'
    BY <1>2, <1>7 DEF RejectRow, Judged
  <2>3. RepairTypes' /\ ReturnsMatchPrice'
    BY <1>1, <1>3, <2>1, <2>2 DEF RepairTypes, ReturnsMatchPrice
  <2>4. ReadLeavesTrace'
    BY <2>1, <2>2 DEF ReadLeavesTrace
  <2>5. JudgedOnce' /\ VerifiedLeavesReach'
    BY <2>2 DEF JudgedOnce, VerifiedLeavesReach, RecheckCandidate
  <2> QED
    BY <2>3, <2>4, <2>5 DEF RepairInv
<1>8. CASE ~Unclear /\ VerifyRow
  <2>1. reads' = 1
    BY <1>4, <1>5, <1>8
  <2>2. /\ UNCHANGED <<status, verdicts>>
        /\ price' = IF filing.price = "cover" THEN "cover" ELSE IF Suspect THEN "none" ELSE price
        /\ basis' = IF price' = price THEN basis ELSE "none"
        /\ flags' = Unverified \cup {"v2", "v3"}
    BY <1>8 DEF VerifyRow
  <2>3. /\ price' \in {"none", "cover", "other"}
        /\ "v2" \in flags' /\ "v3" \in flags' /\ "not_ipo" \notin flags'
    BY <1>1, <1>3, <2>2 DEF RepairTypes, Suspect, Unverified
  <2>4. RepairTypes' /\ ReturnsMatchPrice'
    BY <1>1, <1>2, <2>1, <2>2, <2>3 DEF RepairTypes, ReturnsMatchPrice
  <2>5. ReadLeavesTrace'
    BY <2>1, <2>3 DEF ReadLeavesTrace
  <2>6. JudgedOnce' /\ VerifiedLeavesReach'
    BY <1>2, <1>3, <2>2, <2>3 DEF JudgedOnce, VerifiedLeavesReach, RecheckCandidate, Suspect
  <2> QED
    BY <2>4, <2>5, <2>6 DEF RepairInv
<1> QED
  BY <1>6, <1>7, <1>8 DEF RepairRow, Unclear

LEMMA RecheckRowStep == ASSUME RepairInv, RecheckRow PROVE RepairInv'
<1>1. /\ RepairTypes /\ ReturnsMatchPrice /\ ReadLeavesTrace /\ JudgedOnce
      /\ VerifiedLeavesReach
  BY DEF RepairInv
<1>2. RecheckCandidate /\ status = "NotIPO" /\ UNCHANGED <<filing, basis, reads>>
  BY DEF RecheckRow, RecheckCandidate
<1>3. verdicts = 0 /\ reads \in {0, 1} /\ ~("v3" \in flags /\ Suspect)
  BY <1>1, <1>2 DEF JudgedOnce, ReadLeavesTrace, RepairTypes, VerifiedLeavesReach
<1>4. CASE filing.verdict = "ipo" /\ Judged("Listed") /\ restored' = TRUE
           /\ flags' = (flags \ {"not_ipo"}) \cup {"rechecked", "v2"}
           /\ price' = IF filing.price = "cover" THEN "cover" ELSE price
  <2>1. status' = "Listed" /\ verdicts' = 1
    BY <1>2, <1>3, <1>4 DEF Judged
  <2>2. /\ "not_ipo" \notin flags' /\ ("v3" \in flags' <=> "v3" \in flags) /\ "v2" \in flags'
        /\ "inconclusive" \in flags => "inconclusive" \in flags'
        /\ "unknown" \in flags => "unknown" \in flags'
    BY <1>4
  <2>3. RepairTypes' /\ ReturnsMatchPrice'
    BY <1>1, <1>2, <1>4, <2>1 DEF RepairTypes, ReturnsMatchPrice
  <2>4. ReadLeavesTrace'
    BY <1>1, <1>2, <1>3, <2>2 DEF ReadLeavesTrace, Unclear
  <2>5. JudgedOnce' /\ VerifiedLeavesReach'
    BY <1>3, <1>4, <2>1, <2>2 DEF JudgedOnce, VerifiedLeavesReach, RecheckCandidate, Suspect
  <2> QED
    BY <2>3, <2>4, <2>5 DEF RepairInv
<1>5. CASE flags' = flags \cup {"rechecked"} /\ UNCHANGED <<status, price, verdicts, restored>>
  <2>1. /\ "rechecked" \in flags' /\ ("v3" \in flags' <=> "v3" \in flags)
        /\ \A x \in flags : x \in flags'
    BY <1>5
  <2>2. RepairTypes' /\ ReturnsMatchPrice'
    BY <1>1, <1>2, <1>5 DEF RepairTypes, ReturnsMatchPrice
  <2>3. ReadLeavesTrace'
    BY <1>1, <1>2, <1>3, <2>1 DEF ReadLeavesTrace, Unclear
  <2>4. JudgedOnce' /\ VerifiedLeavesReach'
    BY <1>2, <1>3, <1>5, <2>1 DEF JudgedOnce, VerifiedLeavesReach, RecheckCandidate, Suspect
  <2> QED
    BY <2>2, <2>3, <2>4 DEF RepairInv
<1> QED
  BY <1>4, <1>5 DEF RecheckRow

LEMMA PriceRowStep == ASSUME RepairInv, PriceRow PROVE RepairInv'
<1>1. /\ RepairTypes /\ ReturnsMatchPrice /\ ReadLeavesTrace /\ JudgedOnce
      /\ VerifiedLeavesReach
  BY DEF RepairInv
<1>2. /\ status = "Listed" /\ price = "none" /\ UNCHANGED <<filing, basis, reads, restored>>
  BY DEF PriceRow
<1>3. /\ reads \in {0, 1} /\ verdicts \in {0, 1} /\ "not_ipo" \notin flags
      /\ ~restored => basis = "none"
  BY <1>1, <1>2 DEF RepairTypes, ReadLeavesTrace, JudgedOnce, Suspect, ReturnsMatchPrice
<1>4. /\ price' \in {"none", "cover"}
      /\ \/ UNCHANGED <<status, verdicts>>
         \/ status' = "NotIPO" /\ verdicts' = verdicts + 1
    BY <1>2 DEF PriceRow, Judged
<1>5. \E T \in {{}, {"direct"}, {"not_ipo_price_repair"}, {"unparsed"}} :
        flags' = flags \cup T \/ flags' = flags \ T
  BY DEF PriceRow
<1>6. \A x \in {"v2", "v3", "inconclusive", "unknown", "not_ipo"} : x \in flags' <=> x \in flags
  BY <1>5
<1>7. RepairTypes' /\ ReturnsMatchPrice'
  BY <1>1, <1>2, <1>3, <1>4 DEF RepairTypes, ReturnsMatchPrice
<1>8. ReadLeavesTrace'
  BY <1>1, <1>2, <1>3, <1>6 DEF ReadLeavesTrace, Unclear
<1>9. JudgedOnce' /\ VerifiedLeavesReach'
  BY <1>3, <1>2, <1>4, <1>6 DEF JudgedOnce, VerifiedLeavesReach, RecheckCandidate, Suspect
<1> QED
  BY <1>7, <1>8, <1>9 DEF RepairInv

LEMMA RepairStep == RepairInv /\ [RepairNext]_repairVars => RepairInv'
<1> SUFFICES ASSUME RepairInv, [RepairNext]_repairVars PROVE RepairInv'
  OBVIOUS
<1>1. CASE Snapshot \/ DropSnapshots \/ UNCHANGED repairVars
  <2>1. /\ UNCHANGED <<filing, status, price, flags, reads, verdicts, restored>>
        /\ basis' \in {basis, price, "none"}
    BY <1>1 DEF Snapshot, DropSnapshots, repairVars
  <2>2. RepairTypes' /\ ReturnsMatchPrice'
    BY <2>1 DEF RepairInv, RepairTypes, ReturnsMatchPrice
  <2>3. ReadLeavesTrace' /\ JudgedOnce' /\ VerifiedLeavesReach'
    BY <2>1 DEF RepairInv, ReadLeavesTrace, JudgedOnce, VerifiedLeavesReach, Unclear, Suspect,
                RecheckCandidate
  <2> QED
    BY <2>2, <2>3 DEF RepairInv
<1> QED
  BY <1>1, RepairRowStep, RecheckRowStep, PriceRowStep DEF RepairNext

\* No order of the tools over a row computes its returns from a price it no
\* longer has, reads its filing twice for nothing, sends it back and forth or
\* leaves an absurd price verified (backfill_us_priced.py:193-195, 320-322).
THEOREM RepairHolds == RepairSpec => []RepairsSettle
<1>1. RepairInit => RepairInv
  <2> SUFFICES ASSUME RepairInit PROVE RepairInv
    OBVIOUS
  <2>1. /\ price \in {"none", "cover", "other", "absurd"} /\ basis \in {"none", price}
        /\ \/ status = "Listed" /\ flags \in {{}, {"v2"}}
           \/ status = "NotIPO" /\ flags = {"not_ipo"}
        /\ reads = 0 /\ verdicts = 0
    BY DEF RepairInit
  <2> QED
    BY <2>1 DEF RepairInv, RepairTypes, ReturnsMatchPrice, ReadLeavesTrace, JudgedOnce,
                VerifiedLeavesReach, RecheckCandidate
<1>2. RepairInv => RepairsSettle
  <2> SUFFICES ASSUME RepairInv PROVE RepairsSettle
    OBVIOUS
  <2>1. ReadOnce
    BY DEF RepairInv, RepairTypes, ReadLeavesTrace, ReadOnce, Unclear
  <2>2. VerdictsSettle
    BY DEF RepairInv, RepairTypes, VerdictsSettle
  <2> QED
    BY <2>1, <2>2 DEF RepairInv, VerifiedLeavesReach, RepairsSettle, VerifiedIsPlausible
<1> QED
  BY <1>1, <1>2, RepairStep, PTL DEF RepairSpec
-----------------------------------------------------------------------------
(* The cache of prospectus pages.                                          *)

\* What a status or a result says of an archive and its file of pages.
Warranted(r, answer, file, failed) ==
  /\ r = "NOT_PUBLISHED" => answer = "missing"
  /\ r = "PERMANENT" => answer = "refused"
  /\ r = "INVALID" => answer = "bad" \/ failed
  /\ r = "CACHED" => file # "none"

Fresh(s) == page[s] = "none" /\ known[s] \notin Done /\ stateFile[s] \notin Done

CacheTypes ==
  /\ archive \in [Symbols -> {"good", "missing", "refused", "bad"}]
  /\ page \in [Symbols -> {"none", "torn", "whole"}]
  /\ known \in [Symbols -> Statuses \cup {"PENDING"}]
  /\ stateFile \in [Symbols -> Statuses \cup {"PENDING"}]
  /\ todo \subseteq Symbols /\ inPool \subseteq Symbols /\ childKills \in Nat
  /\ stumbled \subseteq Symbols

\* The pool has finitely many children, and results of its own only.
PoolFits ==
  /\ IsFiniteSet(inPool) /\ Cardinality(inPool) <= PoolSize
  /\ workers \in Nat /\ 1 <= workers /\ workers <= PoolSize
  /\ DOMAIN results \subseteq inPool /\ todo \cap inPool = {}
  /\ broken => Reading = {}

StatusesHold ==
  \A s \in Symbols : /\ Warranted(known[s], archive[s], page[s], s \in stumbled)
                     /\ Warranted(stateFile[s], archive[s], page[s], s \in stumbled)

ResultsHold ==
  \A s \in DOMAIN results :
    results[s] \in Statuses \cup {"crashed"} /\ Warranted(results[s], archive[s], page[s], s \in stumbled)

\* What is queued or being read is neither on disk nor done.
QueueIsFresh == \A s \in todo \cup Reading : Fresh(s)

TornHasCause == \A s \in Symbols : page[s] = "torn" => childKills > 0 \/ s \in stumbled

\* A run that goes on has every symbol without a status ahead of it, and only
\* one that was killed leaves a state file that is torn.
RunIsAhead ==
  /\ tornState => run = "killed"
  /\ run = "on" => \A s \in Symbols : known[s] = "PENDING" => s \in todo \cup inPool
  /\ FinishedIsComplete

CacheInv ==
  /\ CacheTypes /\ PoolFits /\ StatusesHold /\ ResultsHold /\ QueueIsFresh /\ TornHasCause
  /\ RunIsAhead

\* Nothing has been read.
LEMMA NoResults == DOMAIN <<>> = {}
OBVIOUS

LEMMA CacheStarts == CacheInit => CacheInv
<1> SUFFICES ASSUME CacheInit PROVE CacheInv
  OBVIOUS
<1>1. /\ CacheTypes /\ StatusesHold /\ QueueIsFresh /\ TornHasCause /\ RunIsAhead
  BY DEF CacheInit, NoStatus, CacheTypes, StatusesHold, Warranted, QueueIsFresh, Reading, Fresh,
         TornHasCause, RunIsAhead, FinishedIsComplete
<1>2. PoolFits /\ ResultsHold
  BY NoResults, CacheAssumption, FS_EmptySet DEF CacheInit, PoolFits, ResultsHold, Reading
<1> QED
  BY <1>1, <1>2 DEF CacheInv

\* Pages come only of what was being read, where there were none, so every
\* status and result stays warranted.
LEMMA PagesComeNew ==
  ASSUME CacheInv, UNCHANGED <<archive, known, stateFile>>, stumbled \subseteq stumbled',
         page' \in [Symbols -> {"none", "torn", "whole"}],
         \A s \in Symbols : page'[s] = page[s] \/ s \in Reading
  PROVE  /\ StatusesHold'
         /\ \A s \in DOMAIN results : Warranted(results[s], archive[s], page'[s], s \in stumbled')
         /\ \A s \in todo \cup Reading : s \notin Reading => Fresh(s)'
<1>1. /\ CacheTypes /\ PoolFits /\ StatusesHold /\ ResultsHold /\ QueueIsFresh
  BY DEF CacheInv
<1>2. ASSUME NEW s \in Reading PROVE known[s] # "CACHED" /\ stateFile[s] # "CACHED"
  BY <1>1 DEF QueueIsFresh, Fresh, Done
<1>3. StatusesHold'
  BY <1>1, <1>2 DEF StatusesHold, Warranted
<1>4. ASSUME NEW s \in DOMAIN results PROVE Warranted(results[s], archive[s], page'[s], s \in stumbled')
  <2>1. s \in Symbols /\ s \notin Reading
    BY <1>1 DEF Reading, PoolFits, CacheTypes
  <2> QED
    BY <2>1, <1>1, <1>4 DEF ResultsHold, Warranted
<1>5. ASSUME NEW s \in todo \cup Reading, s \notin Reading PROVE Fresh(s)'
  BY <1>1, <1>5 DEF QueueIsFresh, Fresh, CacheTypes
<1> QED
  BY <1>3, <1>4, <1>5

\* A child that ends is no longer reading, and what it says is so.
LEMMA ResultStep ==
  ASSUME CacheInv, NEW s \in Reading, ~broken, NEW r \in Statuses \cup {"crashed"},
         results' = WithResult(s, r), stumbled' \in {stumbled, stumbled \cup {s}},
         UNCHANGED <<archive, known, stateFile, tornState, todo, inPool, workers, broken, run, childKills>>,
         page' \in [Symbols -> {"none", "torn", "whole"}],
         \A x \in Symbols : page'[x] = page[x] \/ x = s,
         page'[s] = "torn" => page[s] = "torn" \/ s \in stumbled',
         Warranted(r, archive[s], page'[s], s \in stumbled')
  PROVE  CacheInv'
<1>1. /\ CacheTypes /\ PoolFits /\ StatusesHold /\ ResultsHold /\ QueueIsFresh /\ TornHasCause
      /\ RunIsAhead
  BY DEF CacheInv
<1>2. s \in Symbols /\ stumbled \subseteq stumbled' /\ stumbled' \subseteq Symbols
  BY <1>1 DEF CacheTypes, Reading
<1>6. /\ StatusesHold'
      /\ \A x \in DOMAIN results : Warranted(results[x], archive[x], page'[x], x \in stumbled')
      /\ \A x \in todo \cup Reading : x \notin Reading => Fresh(x)'
  BY <1>2, PagesComeNew
<1>7. DOMAIN results' = DOMAIN results \cup {s} /\ Reading' = Reading \ {s}
  BY DEF Reading, WithResult
<1>8. CacheTypes' /\ TornHasCause'
  BY <1>1, <1>2 DEF CacheTypes, TornHasCause
<1>9. PoolFits' /\ RunIsAhead'
  BY <1>1, <1>7 DEF PoolFits, Reading, RunIsAhead, FinishedIsComplete
<1>10. ResultsHold'
  <2> SUFFICES ASSUME NEW x \in DOMAIN results'
               PROVE  /\ results'[x] \in Statuses \cup {"crashed"}
                      /\ Warranted(results'[x], archive[x], page'[x], x \in stumbled')
    BY DEF ResultsHold
  <2>1. CASE x = s
    BY <2>1, <1>7 DEF WithResult
  <2>2. CASE x # s
    BY <2>2, <1>1, <1>6, <1>7 DEF ResultsHold, WithResult
  <2> QED
    BY <2>1, <2>2
<1>11. QueueIsFresh'
  <2> SUFFICES ASSUME NEW x \in todo \cup (Reading \ {s}) PROVE Fresh(x)'
    BY <1>7 DEF QueueIsFresh
  <2>1. x # s /\ x \in Symbols
    BY <1>1 DEF PoolFits, Reading, CacheTypes
  <2> QED
    BY <2>1, <1>1 DEF QueueIsFresh, Fresh
<1> QED
  BY <1>6, <1>8, <1>9, <1>10, <1>11 DEF CacheInv

\* A child that has its answer, and one that its machine fails.
LEMMA ChildEndsStep ==
  ASSUME CacheInv, NEW s \in Symbols, ChildEnds(s) \/ ChildStumbles(s)
  PROVE  CacheInv'
<1>1. CacheTypes
  BY DEF CacheInv
<1>2. CASE ChildEnds(s)
  <2>1. PICK r \in Outcome(archive[s]) :
          /\ results' = WithResult(s, r)
          /\ page' = IF r = "CACHED" THEN [page EXCEPT ![s] = "whole"] ELSE page
    BY <1>2 DEF ChildEnds
  <2>2. /\ r \in Statuses \cup {"crashed"}
        /\ r = "NOT_PUBLISHED" => archive[s] = "missing"
        /\ r = "PERMANENT" => archive[s] = "refused"
        /\ r = "INVALID" => archive[s] = "bad"
    BY <1>1, <2>1 DEF CacheTypes, Outcome, Statuses
  <2>3. /\ page' \in [Symbols -> {"none", "torn", "whole"}]
        /\ \A x \in Symbols : page'[x] = page[x] \/ x = s
        /\ r = "CACHED" => page'[s] = "whole"
        /\ page'[s] = "torn" => page[s] = "torn"
    BY <1>1, <2>1 DEF CacheTypes
  <2>4. Warranted(r, archive[s], page'[s], s \in stumbled')
    BY <2>2, <2>3 DEF Warranted
  <2> QED
    BY <1>2, <2>1, <2>2, <2>3, <2>4, ResultStep DEF ChildEnds
<1>3. CASE ChildStumbles(s)
  <2>1. PICK r \in {"INVALID", "CACHED"} :
          /\ results' = WithResult(s, r)
          /\ page' \in {[page EXCEPT ![s] = "torn"]} \cup IF r = "INVALID" THEN {page} ELSE {}
    BY <1>3 DEF ChildStumbles
  <2>2. r \in Statuses \cup {"crashed"} /\ s \in stumbled'
    BY <1>3 DEF Statuses, ChildStumbles
  <2>3. /\ page' \in [Symbols -> {"none", "torn", "whole"}]
        /\ \A x \in Symbols : page'[x] = page[x] \/ x = s
        /\ r = "CACHED" => page'[s] = "torn"
    BY <1>1, <2>1 DEF CacheTypes
  <2>4. Warranted(r, archive[s], page'[s], s \in stumbled')
    BY <2>1, <2>2, <2>3 DEF Warranted
  <2> QED
    BY <1>3, <2>1, <2>2, <2>3, <2>4, ResultStep DEF ChildStumbles
<1> QED
  BY <1>2, <1>3

\* A file that is left half written is of a child that was reading.
LEMMA LeftoversAreNew ==
  ASSUME CacheInv, NEW f \in Leftovers
  PROVE  /\ f \in [Symbols -> {"none", "torn", "whole"}]
         /\ \A s \in Symbols : f[s] = page[s] \/ s \in Reading
BY DEF Leftovers

\* A child that is killed stops all: none is reading any more.
LEMMA ChildKilledStep == ASSUME CacheInv, ChildKilled PROVE CacheInv'
<1>1. /\ CacheTypes /\ PoolFits /\ StatusesHold /\ ResultsHold /\ QueueIsFresh /\ TornHasCause
      /\ RunIsAhead
  BY DEF CacheInv
<1>2. /\ childKills' = childKills + 1 /\ broken' = TRUE /\ page' \in Leftovers
      /\ results' = [x \in inPool |-> IF x \in DOMAIN results THEN results[x] ELSE "crashed"]
      /\ UNCHANGED <<archive, stumbled, known, stateFile, tornState, todo, inPool, workers, run>>
  BY DEF ChildKilled
<1>3. /\ page' \in [Symbols -> {"none", "torn", "whole"}]
      /\ \A s \in Symbols : page'[s] = page[s] \/ s \in Reading
  BY <1>2, LeftoversAreNew
<1>4. /\ StatusesHold'
      /\ \A s \in DOMAIN results : Warranted(results[s], archive[s], page'[s], s \in stumbled)
      /\ \A s \in todo \cup Reading : s \notin Reading => Fresh(s)'
  BY <1>2, <1>3, PagesComeNew
<1>5. DOMAIN results' = inPool /\ Reading' = {}
  BY <1>2 DEF Reading
<1>6. CacheTypes' /\ TornHasCause'
  BY <1>1, <1>2, <1>3 DEF CacheTypes, TornHasCause
<1>7. PoolFits' /\ RunIsAhead'
  BY <1>1, <1>2, <1>5 DEF PoolFits, RunIsAhead, FinishedIsComplete
<1>8. ResultsHold'
  <2> SUFFICES ASSUME NEW s \in inPool
               PROVE  /\ results'[s] \in Statuses \cup {"crashed"}
                      /\ Warranted(results'[s], archive[s], page'[s], s \in stumbled)
    BY <1>2, <1>5 DEF ResultsHold
  <2>1. CASE s \in DOMAIN results
    BY <2>1, <1>1, <1>2, <1>4 DEF ResultsHold
  <2>2. CASE s \notin DOMAIN results
    BY <2>2, <1>2 DEF Warranted
  <2> QED
    BY <2>1, <2>2
<1>9. QueueIsFresh'
  BY <1>1, <1>2, <1>4, <1>5 DEF QueueIsFresh, PoolFits, Reading
<1> QED
  BY <1>4, <1>6, <1>7, <1>8, <1>9 DEF CacheInv

\* A run that is killed takes its children with it.
LEMMA RunKilledStep == ASSUME CacheInv, RunKilled PROVE CacheInv'
<1>1. /\ CacheTypes /\ PoolFits /\ StatusesHold /\ ResultsHold /\ QueueIsFresh /\ TornHasCause
      /\ RunIsAhead
  BY DEF CacheInv
<1>2. /\ childKills' = childKills + 1 /\ run' = "killed" /\ page' \in Leftovers
      /\ inPool' = {} /\ results' = <<>>
      /\ UNCHANGED <<archive, stumbled, known, stateFile, todo, workers, broken>>
  BY DEF RunKilled
<1>3. /\ page' \in [Symbols -> {"none", "torn", "whole"}]
      /\ \A s \in Symbols : page'[s] = page[s] \/ s \in Reading
  BY <1>2, LeftoversAreNew
<1>4. /\ StatusesHold'
      /\ \A s \in todo \cup Reading : s \notin Reading => Fresh(s)'
  BY <1>2, <1>3, PagesComeNew
<1>5. DOMAIN results' = {} /\ Reading' = {}
  BY <1>2, NoResults DEF Reading
<1>6. CacheTypes' /\ TornHasCause'
  BY <1>1, <1>2, <1>3 DEF CacheTypes, TornHasCause
<1>7. PoolFits' /\ ResultsHold' /\ RunIsAhead'
  BY <1>1, <1>2, <1>5, CacheAssumption, FS_EmptySet
  DEF PoolFits, ResultsHold, RunIsAhead, FinishedIsComplete
<1>8. QueueIsFresh'
  BY <1>1, <1>2, <1>4, <1>5 DEF QueueIsFresh, PoolFits, Reading
<1> QED
  BY <1>4, <1>6, <1>7, <1>8 DEF CacheInv

\* What a run starts with is what the files warrant.
LEMMA StartCacheStep == ASSUME CacheInv, StartCache PROVE CacheInv'
<1>1. CacheTypes /\ PoolFits /\ StatusesHold /\ TornHasCause
  BY DEF CacheInv
<1>2. /\ known' = Believed /\ todo' = {s \in Symbols : Believed[s] \notin Done}
      /\ run' = "on" /\ workers' = PoolSize /\ broken' = FALSE /\ ~tornState
      /\ inPool' = {} /\ results' = <<>>
      /\ UNCHANGED <<archive, stumbled, page, stateFile, tornState, childKills>>
  BY DEF StartCache
<1>3. \A s \in Symbols : Believed[s] = IF page[s] # "none" THEN "CACHED" ELSE stateFile[s]
  BY DEF Believed
<1>4. Believed \in [Symbols -> Statuses \cup {"PENDING"}]
  BY <1>1 DEF Believed, CacheTypes, Statuses
<1>5. DOMAIN results' = {} /\ Reading' = {}
  BY <1>2, NoResults DEF Reading
<1>6. CacheTypes' /\ TornHasCause' /\ StatusesHold'
  BY <1>1, <1>2, <1>3, <1>4 DEF CacheTypes, TornHasCause, StatusesHold, Warranted
<1>7. PoolFits' /\ ResultsHold'
  BY <1>2, <1>5, CacheAssumption, FS_EmptySet DEF PoolFits, ResultsHold
<1>8. QueueIsFresh'
  BY <1>2, <1>3, <1>5 DEF QueueIsFresh, Fresh, Done
<1>9. RunIsAhead'
  BY <1>2, <1>4 DEF RunIsAhead, FinishedIsComplete, Done
<1> QED
  BY <1>6, <1>7, <1>8, <1>9 DEF CacheInv

\* A child that is submitted finds room.
LEMMA SubmitStep == ASSUME CacheInv, NEW s \in Symbols, Submit(s) PROVE CacheInv'
<1>1. /\ CacheTypes /\ PoolFits /\ StatusesHold /\ ResultsHold /\ QueueIsFresh /\ TornHasCause
      /\ RunIsAhead
  BY DEF CacheInv
<1>2. /\ run = "on" /\ s \in todo /\ Cardinality(inPool) < workers /\ ~broken
      /\ workers' \in {workers, 1}
      /\ UNCHANGED <<archive, stumbled, page, known, stateFile, tornState, results, broken, run, childKills>>
      /\ \/ todo' = todo /\ inPool' = inPool
         \/ todo' = todo \ {s} /\ inPool' = inPool \cup {s}
  BY DEF Submit
<1>3. Cardinality(inPool) \in Nat /\ IsFiniteSet(inPool)
  BY <1>1, FS_CardinalityType DEF PoolFits
<1>4. IsFiniteSet(inPool') /\ Cardinality(inPool') <= PoolSize
  <2>1. /\ IsFiniteSet(inPool \cup {s})
        /\ Cardinality(inPool \cup {s}) \in {Cardinality(inPool), Cardinality(inPool) + 1}
    BY <1>3, FS_AddElement
  <2> QED
    BY <1>1, <1>2, <1>3, <2>1, CacheAssumption DEF PoolFits
<1>5. Reading' \subseteq Reading \cup {s} /\ todo' \cup Reading' \subseteq todo \cup Reading
  BY <1>2 DEF Reading
<1>6. CacheTypes' /\ StatusesHold' /\ ResultsHold' /\ TornHasCause'
  BY <1>1, <1>2 DEF CacheTypes, StatusesHold, ResultsHold, TornHasCause
<1>7. PoolFits'
  BY <1>1, <1>2, <1>4, CacheAssumption DEF PoolFits
<1>8. QueueIsFresh'
  BY <1>1, <1>2, <1>5 DEF QueueIsFresh, Fresh
<1>9. RunIsAhead'
  BY <1>1, <1>2 DEF RunIsAhead, FinishedIsComplete
<1> QED
  BY <1>6, <1>7, <1>8, <1>9 DEF CacheInv

\* A result that is taken becomes the symbol's status.
LEMMA CollectStep == ASSUME CacheInv, NEW s \in Symbols, Collect(s) PROVE CacheInv'
<1>1. /\ CacheTypes /\ PoolFits /\ StatusesHold /\ ResultsHold /\ QueueIsFresh /\ TornHasCause
      /\ RunIsAhead
  BY DEF CacheInv
<1>2. /\ s \in DOMAIN results /\ run \in {"on", "stopping"}
      /\ known' = [known EXCEPT ![s] = StatusOf(results[s])] /\ stateFile' = known'
      /\ inPool' = inPool \ {s}
      /\ results' = [x \in DOMAIN results \ {s} |-> results[x]]
      /\ UNCHANGED <<archive, stumbled, page, tornState, todo, workers, broken, run, childKills>>
  BY DEF Collect
<1>3. /\ StatusOf(results[s]) \in Statuses
      /\ Warranted(StatusOf(results[s]), archive[s], page[s], s \in stumbled)
  BY <1>1, <1>2 DEF ResultsHold, StatusOf, Warranted, Statuses
<1>4. /\ known' \in [Symbols -> Statuses \cup {"PENDING"}] /\ known'[s] = StatusOf(results[s])
      /\ \A x \in Symbols : x # s => known'[x] = known[x]
  BY <1>1, <1>2, <1>3 DEF CacheTypes
<1>5. DOMAIN results' = DOMAIN results \ {s} /\ Reading' = Reading /\ s \notin todo \cup Reading
  BY <1>1, <1>2 DEF Reading, PoolFits
<1>6. CacheTypes' /\ TornHasCause'
  BY <1>1, <1>2, <1>4 DEF CacheTypes, TornHasCause
<1>7. StatusesHold'
  BY <1>1, <1>2, <1>3, <1>4 DEF StatusesHold
<1>8. ResultsHold'
  BY <1>1, <1>2, <1>5 DEF ResultsHold
<1>9. PoolFits'
  <2>1. IsFiniteSet(inPool \ {s}) /\ Cardinality(inPool \ {s}) <= Cardinality(inPool)
    BY <1>1, FS_Subset DEF PoolFits
  <2>2. Cardinality(inPool) \in Nat /\ Cardinality(inPool \ {s}) \in Nat
    BY <2>1, <1>1, FS_CardinalityType DEF PoolFits
  <2> QED
    BY <1>1, <1>2, <1>5, <2>1, <2>2, CacheAssumption DEF PoolFits
<1>10. QueueIsFresh'
  BY <1>1, <1>2, <1>4, <1>5 DEF QueueIsFresh, Fresh, CacheTypes, Reading
<1>11. RunIsAhead'
  <2>1. \A x \in Symbols : known'[x] = "PENDING" => x # s /\ known[x] = "PENDING"
    BY <1>3, <1>4 DEF Statuses
  <2> QED
    BY <1>1, <1>2, <2>1 DEF RunIsAhead, FinishedIsComplete
<1> QED
  BY <1>6, <1>7, <1>8, <1>9, <1>10, <1>11 DEF CacheInv

\* A run that ends, by itself or by an exception, writes what it knows.
LEMMA EndsStep ==
  ASSUME CacheInv, SubmitRaises \/ CacheEnds \/ MemoryStop \/ RemoveState
  PROVE  CacheInv'
<1>1. /\ CacheTypes /\ PoolFits /\ StatusesHold /\ ResultsHold /\ QueueIsFresh /\ TornHasCause
      /\ RunIsAhead
  BY DEF CacheInv
<1>2. CASE SubmitRaises
  <2>1. /\ run = "on" /\ run' = "raised" /\ stateFile' = known /\ inPool' = {} /\ results' = <<>>
        /\ UNCHANGED <<archive, stumbled, page, known, tornState, todo, workers, broken, childKills>>
    BY <1>2 DEF SubmitRaises
  <2>2. DOMAIN results' = {} /\ Reading' = {}
    BY <2>1, NoResults DEF Reading
  <2>3. CacheTypes' /\ StatusesHold' /\ TornHasCause'
    BY <1>1, <2>1 DEF CacheTypes, StatusesHold, TornHasCause
  <2>4. PoolFits' /\ ResultsHold' /\ RunIsAhead'
    BY <1>1, <2>1, <2>2, CacheAssumption, FS_EmptySet
    DEF PoolFits, ResultsHold, RunIsAhead, FinishedIsComplete
  <2>5. QueueIsFresh'
    BY <1>1, <2>1, <2>2 DEF QueueIsFresh, Fresh
  <2> QED
    BY <2>3, <2>4, <2>5 DEF CacheInv
<1>3. CASE CacheEnds
  <2>1. /\ run \in {"on", "stopping"} /\ todo = {} /\ inPool = {} /\ stateFile' = known
        /\ run' = IF run = "on" THEN "finished" ELSE "stopped"
        /\ UNCHANGED <<archive, stumbled, page, known, tornState, todo, inPool, results, workers, broken,
                       childKills>>
    BY <1>3 DEF CacheEnds
  <2>2. Reading' = {} /\ Reading = {}
    BY <2>1 DEF Reading
  <2>3. CacheTypes' /\ StatusesHold' /\ TornHasCause' /\ PoolFits' /\ ResultsHold'
    BY <1>1, <2>1, <2>2 DEF CacheTypes, StatusesHold, TornHasCause, PoolFits, ResultsHold
  <2>4. QueueIsFresh' /\ RunIsAhead'
    BY <1>1, <2>1, <2>2 DEF QueueIsFresh, RunIsAhead, FinishedIsComplete
  <2> QED
    BY <2>3, <2>4 DEF CacheInv
<1>4. CASE MemoryStop
  <2>1. /\ run = "on" /\ inPool = {} /\ todo' = {} /\ run' = "stopping"
        /\ UNCHANGED <<archive, stumbled, page, known, stateFile, tornState, inPool, results, workers, broken,
                       childKills>>
    BY <1>4 DEF MemoryStop
  <2>2. Reading' = {} /\ Reading = {}
    BY <2>1 DEF Reading
  <2>3. CacheTypes' /\ StatusesHold' /\ TornHasCause' /\ PoolFits' /\ ResultsHold'
    BY <1>1, <2>1, <2>2 DEF CacheTypes, StatusesHold, TornHasCause, PoolFits, ResultsHold
  <2>4. QueueIsFresh' /\ RunIsAhead'
    BY <1>1, <2>1, <2>2 DEF QueueIsFresh, RunIsAhead, FinishedIsComplete
  <2> QED
    BY <2>3, <2>4 DEF CacheInv
<1>5. CASE RemoveState
  <2>1. /\ tornState /\ tornState' = FALSE /\ stateFile' = NoStatus
        /\ UNCHANGED <<archive, stumbled, page, known, todo, inPool, results, workers, broken, run, childKills>>
    BY <1>5 DEF RemoveState
  <2>2. run = "killed"
    BY <1>1, <2>1 DEF RunIsAhead
  <2>3. CacheTypes' /\ StatusesHold' /\ TornHasCause' /\ PoolFits' /\ ResultsHold'
    BY <1>1, <2>1 DEF CacheTypes, StatusesHold, Warranted, NoStatus, TornHasCause, PoolFits, Reading,
                      ResultsHold
  <2>4. QueueIsFresh'
    BY <1>1, <2>1 DEF QueueIsFresh, Fresh, NoStatus, Done, Reading, PoolFits, CacheTypes
  <2>5. RunIsAhead'
    BY <1>1, <2>1, <2>2 DEF RunIsAhead, FinishedIsComplete
  <2> QED
    BY <2>3, <2>4, <2>5 DEF CacheInv
<1> QED
  BY <1>2, <1>3, <1>4, <1>5

LEMMA CacheStep == CacheInv /\ [CacheNext]_cacheVars => CacheInv'
<1> SUFFICES ASSUME CacheInv, [CacheNext]_cacheVars PROVE CacheInv'
  OBVIOUS
<1>1. CASE UNCHANGED cacheVars
  BY <1>1 DEF cacheVars, CacheInv, CacheTypes, PoolFits, StatusesHold, ResultsHold, QueueIsFresh,
              Reading, Fresh, TornHasCause, RunIsAhead, FinishedIsComplete
<1>2. CASE \E s \in Symbols : Submit(s) \/ ChildEnds(s) \/ ChildStumbles(s) \/ Collect(s)
  BY <1>2, SubmitStep, ChildEndsStep, CollectStep
<1> QED
  BY <1>1, <1>2, StartCacheStep, ChildKilledStep, RunKilledStep, EndsStep DEF CacheNext

\* Whatever is killed and whenever, a symbol is given up for what its archive
\* is, or because its child's machine failed it, what counts as cached has its
\* pages, a run that says it is finished has a status for each symbol, nothing is
\* downloaded twice and the pool stays in its bounds (build_rhp_cache.py:60-111, 122-182).
THEOREM CacheHolds == CacheSpec => []CacheIsTrue
<1>1. CacheInv => CacheIsTrue
  <2> SUFFICES ASSUME CacheInv PROVE CacheIsTrue
    OBVIOUS
  <2>1. /\ CacheTypes /\ PoolFits /\ StatusesHold /\ QueueIsFresh /\ TornHasCause /\ RunIsAhead
    BY DEF CacheInv
  <2>2. GivenUpForCause /\ CachedHasPages /\ FinishedIsComplete /\ NothingReadTwice
    BY <2>1 DEF StatusesHold, Warranted, GivenUpForCause, CachedHasPages, TornHasCause, RunIsAhead,
                QueueIsFresh, Fresh, NothingReadTwice
  <2>3. PoolIsBounded
    <3>1. IsFiniteSet(inPool) /\ Reading \subseteq inPool
      BY <2>1 DEF PoolFits, Reading
    <3>2. Cardinality(Reading) <= Cardinality(inPool)
      BY <3>1, FS_Subset
    <3>3. Cardinality(Reading) \in Nat /\ Cardinality(inPool) \in Nat
      BY <3>1, FS_Subset, FS_CardinalityType
    <3> QED
      BY <2>1, <3>2, <3>3, CacheAssumption DEF PoolFits, PoolIsBounded
  <2> QED
    BY <2>2, <2>3 DEF CacheIsTrue
<1> QED
  BY <1>1, CacheStarts, CacheStep, PTL DEF CacheSpec
-----------------------------------------------------------------------------
(* The figures of an American issuer.                                      *)

Seen == [end : Int, print : Int, listing : Int]

\* A reading holds the first print of its figure and date that its listing
\* admits.
IsFirst(f, o) ==
  /\ o.print \in PrintsOf(ConceptOf[f], o.end, o.listing)
  /\ \A p \in PrintsOf(ConceptOf[f], o.end, o.listing) : o.print <= p

FactTypes ==
  /\ monthNow \in Nat \ {0} /\ listedIn \in Nat
  /\ \A g \in printed : g.print \in Nat /\ g.print <= monthNow /\ g.end \in Int
  /\ observed \in [Figures -> SUBSET Seen] /\ ipoColumn \in [Figures -> Seen]

\* Of the prints of a figure that a listing admits there is a first.
PrintsHaveFirst ==
  \A c \in {"revenue", "cash"} : \A e, s \in Int :
    PrintsOf(c, e, s) # {} => HasFirst(PrintsOf(c, e, s))

ReadingsAreFirst ==
  \A f \in Figures :
    /\ \A o \in observed[f] : IsFirst(f, o)
    /\ ipoColumn[f] \notin {Missing, Elsewhere} => IsFirst(f, ipoColumn[f])

\* A row is read again only if nothing was found of its revenue.
RevenueIsUnread ==
  ipoColumn["revenue_m"] = Missing => \A f \in RevenueYears : observed[f] = {}

FactsInv ==
  /\ FactTypes /\ PrintsHaveFirst /\ ReadingsAreFirst /\ RevenueIsUnread
  /\ RevenueIsReadOnce /\ ColumnsAreObserved

LEMMA ConceptOfFigure ==
  ASSUME NEW f \in Figures
  PROVE  ConceptOf[f] = IF f = "cash_m" THEN "cash" ELSE "revenue"
BY DEF Figures, RevenueYears, ConceptOf

LEMMA NewestIsOne ==
  ASSUME NEW S, S \subseteq Int, NEW a \in Newest(S), NEW b \in Newest(S)
  PROVE  a = b
<1>1. a \in Int /\ b \in Int /\ a <= b /\ b <= a
  BY DEF Newest
<1> QED
  BY <1>1

LEMMA PrintIsThere ==
  ASSUME NEW c, NEW e, NEW s, NEW p
  PROVE  p \in PrintsOf(c, e, s) <=>
           \E g \in printed : g.concept = c /\ g.end = e /\ Admits(g, s) /\ g.print = p
BY DEF PrintsOf

\* What is extracted of a figure is one reading at most, dated as its name
\* says, and the first print of its date.
LEMMA ExtractedIsFirst ==
  ASSUME FactTypes, PrintsHaveFirst, NEW f \in Figures, NEW s \in Int, NEW n \in Extract(f, s)
  PROVE  /\ n \in Seen /\ n.listing = s /\ n.end \in EndOf(f, s)
         /\ IsFirst(f, n)
         /\ \A m \in Extract(f, s) : m = n
<1>1. EndsOf("revenue", s) \subseteq Int /\ EndsOf("cash", s) \subseteq Int
  BY DEF FactTypes, EndsOf
<1>2. BalanceEnds(s) \subseteq EndsOf("cash", s)
  BY DEF BalanceEnds
<1>3. EndOf(f, s) = CASE f = "revenue_m" -> Newest(EndsOf("revenue", s))
                      [] f = "revenue_prev_m" -> BeforeNewest(EndsOf("revenue", s))
                      [] f = "cash_m" -> Newest(BalanceEnds(s))
  BY DEF EndOf
<1>4. EndOf(f, s) \subseteq EndsOf(ConceptOf[f], s)
  BY <1>2, <1>3, ConceptOfFigure DEF Figures, RevenueYears, Newest, BeforeNewest
<1>5. \A a, b \in EndOf(f, s) : a = b
  <2>1. \E S \in SUBSET Int : EndOf(f, s) = Newest(S)
    <3>1. BeforeNewest(EndsOf("revenue", s)) =
            Newest(EndsOf("revenue", s) \ Newest(EndsOf("revenue", s)))
      BY DEF BeforeNewest
    <3>2. EndsOf("revenue", s) \ Newest(EndsOf("revenue", s)) \in SUBSET Int
      BY <1>1
    <3>3. BalanceEnds(s) \in SUBSET Int /\ EndsOf("revenue", s) \in SUBSET Int
      BY <1>1, <1>2
    <3>4. CASE f = "revenue_m"
      BY <3>3, <3>4, <1>3
    <3>5. CASE f = "revenue_prev_m"
      BY <3>1, <3>2, <3>5, <1>3
    <3>6. CASE f = "cash_m"
      BY <3>3, <3>6, <1>3
    <3> QED
      BY <3>4, <3>5, <3>6 DEF Figures, RevenueYears
  <2> QED
    BY <2>1, NewestIsOne
<1>6. PICK e \in EndOf(f, s) :
        n = [end |-> e, print |-> FirstPrint(PrintsOf(ConceptOf[f], e, s)), listing |-> s]
  BY DEF Extract
<1>7. e \in Int /\ PrintsOf(ConceptOf[f], e, s) # {}
  <2>1. e \in EndsOf(ConceptOf[f], s)
    BY <1>4
  <2> QED
    BY <2>1, <1>1, ConceptOfFigure DEF EndsOf, PrintsOf
<1> DEFINE P == PrintsOf(ConceptOf[f], e, s)
<1>8. HasFirst(P)
  BY <1>7, ConceptOfFigure DEF PrintsHaveFirst
<1>9. FirstPrint(P) \in P /\ \A p \in P : FirstPrint(P) <= p
  BY <1>8 DEF FirstPrint, HasFirst
<1>10. FirstPrint(P) \in Int
  BY <1>9, PrintIsThere DEF FactTypes
<1>11. n.end = e /\ n.listing = s /\ n.print = FirstPrint(P)
  BY <1>6
<1>12. n \in Seen
  BY <1>6, <1>7, <1>10 DEF Seen
<1>13. IsFirst(f, n)
  BY <1>9, <1>11 DEF IsFirst
<1>14. \A m \in Extract(f, s) : m = n
  BY <1>5, <1>6 DEF Extract
<1> QED
  BY <1>11, <1>12, <1>13, <1>14

\* Readings of the same date and listing are the same.
LEMMA FirstIsOne ==
  ASSUME FactTypes, NEW f \in Figures, NEW o \in Seen, NEW p \in Seen, IsFirst(f, o), IsFirst(f, p),
         o.end = p.end, o.listing = p.listing
  PROVE  o.print = p.print
<1>1. o.print <= p.print /\ p.print <= o.print /\ o.print \in Int /\ p.print \in Int
  BY DEF IsFirst, Seen
<1> QED
  BY <1>1

\* A report prints nothing that is earlier than what has been printed.
LEMMA FileReportStep == ASSUME FactsInv, FileReport PROVE FactsInv'
<1>1. /\ FactTypes /\ PrintsHaveFirst /\ ReadingsAreFirst /\ RevenueIsUnread
      /\ RevenueIsReadOnce /\ ColumnsAreObserved
  BY DEF FactsInv
<1>2. /\ printed \subseteq printed'
      /\ \A g \in printed' \ printed : g.print = monthNow /\ g.end \in Int
  <2>1. CASE \E concepts \in SUBSET {"revenue", "cash"}, ends \in SUBSET YearEnds :
               /\ \A e \in ends : e < monthNow
               /\ printed' = printed \cup
                    {[concept |-> c, end |-> e, print |-> monthNow] : c \in concepts, e \in ends}
    BY <2>1 DEF YearEnds
  <2>2. CASE printed' = printed \cup {[concept |-> "cash", end |-> monthNow - 1, print |-> monthNow]}
    <3>1. monthNow - 1 \in Int
      BY <1>1 DEF FactTypes
    <3> QED
      BY <2>2, <3>1
  <2> QED
    BY <2>1, <2>2 DEF FileReport
<1>3. UNCHANGED <<monthNow, listedIn, observed, ipoColumn, done>>
  BY DEF FileReport
<1>4. monthNow \in Nat /\ FactTypes'
  BY <1>1, <1>2, <1>3 DEF FactTypes
<1>5. ASSUME NEW c, NEW e, NEW s
      PROVE  /\ PrintsOf(c, e, s) \subseteq Nat
             /\ PrintsOf(c, e, s) \subseteq PrintsOf(c, e, s)'
             /\ \A p \in PrintsOf(c, e, s) : p <= monthNow
             /\ \A p \in PrintsOf(c, e, s)' : p \in PrintsOf(c, e, s) \/ p = monthNow
  BY <1>1, <1>2 DEF PrintsOf, Admits, FactTypes
<1>6. PrintsHaveFirst'
  <2> SUFFICES ASSUME NEW c \in {"revenue", "cash"}, NEW e \in Int, NEW s \in Int,
                      PrintsOf(c, e, s)' # {}
               PROVE  \E m \in PrintsOf(c, e, s)' : \A x \in PrintsOf(c, e, s)' : m <= x
    BY DEF PrintsHaveFirst, HasFirst
  <2>1. CASE PrintsOf(c, e, s) = {}
    BY <2>1, <1>4, <1>5
  <2>2. CASE PrintsOf(c, e, s) # {}
    <3>1. PICK m \in PrintsOf(c, e, s) : \A x \in PrintsOf(c, e, s) : m <= x
      BY <2>2, <1>1 DEF PrintsHaveFirst, HasFirst
    <3> QED
      BY <3>1, <1>5
  <2> QED
    BY <2>1, <2>2
<1>7. ASSUME NEW f, NEW o, IsFirst(f, o) PROVE IsFirst(f, o)'
  BY <1>4, <1>5, <1>7 DEF IsFirst
<1>8. ReadingsAreFirst'
  BY <1>1, <1>3, <1>7 DEF ReadingsAreFirst
<1>9. RevenueIsUnread' /\ RevenueIsReadOnce' /\ ColumnsAreObserved'
  BY <1>1, <1>3 DEF RevenueIsUnread, RevenueIsReadOnce, ColumnsAreObserved
<1> QED
  BY <1>4, <1>6, <1>8, <1>9 DEF FactsInv

\* A row's first reading that finds revenue is its last, and each reading of a
\* date and a listing finds what the one before it found.
LEMMA ReadFactsStep == ASSUME FactsInv, ReadFacts PROVE FactsInv'
<1>1. /\ FactTypes /\ PrintsHaveFirst /\ ReadingsAreFirst /\ RevenueIsUnread
      /\ RevenueIsReadOnce /\ ColumnsAreObserved
  BY DEF FactsInv
<1> DEFINE new(f) == Extract(f, AsOf)
<1>2. /\ ipoColumn["revenue_m"] = Missing /\ UNCHANGED <<monthNow, listedIn, printed, reports>>
      /\ observed' = [f \in Figures |->
           {o \in observed[f] : \A n \in new(f) : n.end # o.end} \cup new(f)]
      /\ ipoColumn' = [f \in Figures |->
           IF ipoColumn[f] # Missing \/ new(f) = {} THEN ipoColumn[f]
           ELSE CHOOSE n \in new(f) : TRUE]
  BY DEF ReadFacts, ToRead
<1>3. AsOf \in Nat /\ AsOf >= 1
  BY <1>1 DEF FactTypes, AsOf
<1>4. ASSUME NEW f \in Figures, NEW n \in new(f)
      PROVE  /\ n \in Seen /\ n.listing = AsOf /\ n.end \in EndOf(f, AsOf)
             /\ IsFirst(f, n)
             /\ \A m \in new(f) : m = n
  BY <1>1, <1>3, ExtractedIsFirst
<1> HIDE DEF new
<1>5. ASSUME NEW f \in Figures
      PROVE  /\ observed'[f] = {o \in observed[f] : \A n \in new(f) : n.end # o.end} \cup new(f)
             /\ ipoColumn'[f] = ipoColumn[f] \/ ipoColumn'[f] \in new(f)
             /\ ipoColumn[f] = Missing /\ new(f) # {} => ipoColumn'[f] \in new(f)
             /\ ipoColumn[f] # Missing => ipoColumn'[f] = ipoColumn[f]
  BY <1>2
<1>6. FactTypes'
  <2>1. observed' \in [Figures -> SUBSET Seen]
    BY <1>1, <1>2, <1>4 DEF FactTypes
  <2>2. ipoColumn' \in [Figures -> Seen]
    BY <1>1, <1>2, <1>4, <1>5 DEF FactTypes
  <2> QED
    BY <1>1, <1>2, <2>1, <2>2 DEF FactTypes
<1>7. PrintsHaveFirst'
  BY <1>1, <1>2 DEF PrintsHaveFirst, PrintsOf, Admits
<1>8. ASSUME NEW c, NEW e, NEW s PROVE PrintsOf(c, e, s)' = PrintsOf(c, e, s)
  BY <1>2 DEF PrintsOf, Admits
<1>9. ReadingsAreFirst'
  <2> SUFFICES ASSUME NEW f \in Figures
               PROVE  (/\ \A o \in observed[f] : IsFirst(f, o)
                       /\ ipoColumn[f] \notin {Missing, Elsewhere} => IsFirst(f, ipoColumn[f]))'
    BY DEF ReadingsAreFirst
  <2>1. \A o \in observed'[f] : IsFirst(f, o)
    BY <1>1, <1>4, <1>5 DEF ReadingsAreFirst
  <2>2. ipoColumn'[f] \notin {Missing, Elsewhere} => IsFirst(f, ipoColumn'[f])
    BY <1>1, <1>4, <1>5 DEF ReadingsAreFirst
  <2> QED
    BY <2>1, <2>2, <1>8 DEF IsFirst
<1>10. \A f \in RevenueYears : f \in Figures /\ observed'[f] = new(f)
  BY <1>1, <1>2, <1>5 DEF RevenueIsUnread, Figures
<1>11. new("revenue_prev_m") # {} => new("revenue_m") # {}
  <2>1. EndOf("revenue_m", AsOf) = Newest(EndsOf("revenue", AsOf))
        /\ EndOf("revenue_prev_m", AsOf) = BeforeNewest(EndsOf("revenue", AsOf))
    BY DEF EndOf
  <2>2. Newest(EndsOf("revenue", AsOf)) = {} => BeforeNewest(EndsOf("revenue", AsOf)) = {}
    BY DEF BeforeNewest, Newest
  <2> QED
    BY <2>1, <2>2 DEF new, Extract
<1>12. RevenueIsUnread'
  <2> SUFFICES ASSUME ipoColumn'["revenue_m"] = Missing
               PROVE  new("revenue_m") = {}
    BY <1>10, <1>11 DEF RevenueIsUnread, RevenueYears
  <2> SUFFICES ASSUME new("revenue_m") # {} PROVE FALSE
    OBVIOUS
  <2>1. "revenue_m" \in Figures
    BY DEF Figures, RevenueYears
  <2>2. ipoColumn'["revenue_m"] \in new("revenue_m")
    BY <1>2, <1>5, <2>1
  <2>3. ipoColumn'["revenue_m"].listing >= 1
    BY <1>3, <1>4, <2>1, <2>2
  <2> QED
    BY <2>3 DEF Missing
<1>13. RevenueIsReadOnce'
  <2>1. \A f \in RevenueYears : \A o, p \in observed'[f] : o = p
    BY <1>4, <1>10
  <2> SUFFICES ASSUME NEW o \in new("revenue_m"), NEW p \in new("revenue_prev_m")
               PROVE  p.end < o.end /\ p.listing = o.listing
    BY <1>10, <2>1 DEF RevenueIsReadOnce, RevenueYears
  <2>2. {"revenue_m", "revenue_prev_m"} \subseteq Figures
    BY DEF Figures, RevenueYears
  <2>3. o.listing = p.listing /\ o.end \in Int /\ p.end \in Int
    BY <1>4, <2>2 DEF Seen
  <2>4. o.end \in Newest(EndsOf("revenue", AsOf)) /\ p.end \in BeforeNewest(EndsOf("revenue", AsOf))
    <3>1. o.end \in EndOf("revenue_m", AsOf) /\ p.end \in EndOf("revenue_prev_m", AsOf)
      BY <1>4, <2>2
    <3> QED
      BY <3>1 DEF EndOf
  <2>5. p.end <= o.end /\ p.end # o.end
    BY <2>4 DEF Newest, BeforeNewest
  <2> QED
    BY <2>3, <2>5
<1>14. ColumnsAreObserved'
  <2> SUFFICES ASSUME NEW f \in Figures, ipoColumn'[f] \notin {Missing, Elsewhere}
               PROVE  \E o \in observed'[f] :
                        /\ o.end = ipoColumn'[f].end
                        /\ o.listing = ipoColumn'[f].listing => o.print = ipoColumn'[f].print
    BY DEF ColumnsAreObserved
  <2>1. CASE ipoColumn'[f] \in new(f)
    BY <2>1, <1>5
  <2>2. CASE ipoColumn'[f] = ipoColumn[f]
    <3>1. PICK o \in observed[f] :
            /\ o.end = ipoColumn[f].end
            /\ o.listing = ipoColumn[f].listing => o.print = ipoColumn[f].print
      BY <2>2, <1>1 DEF ColumnsAreObserved
    <3>2. CASE \A n \in new(f) : n.end # o.end
      BY <2>2, <3>1, <3>2, <1>5
    <3>3. CASE \E n \in new(f) : n.end = o.end
      <4>1. PICK n \in new(f) : n.end = ipoColumn[f].end
        BY <3>1, <3>3
      <4>2. n \in Seen /\ IsFirst(f, n) /\ ipoColumn[f] \in Seen /\ IsFirst(f, ipoColumn[f])
        BY <1>1, <1>4, <2>2 DEF FactTypes, ReadingsAreFirst
      <4>3. n.listing = ipoColumn[f].listing => n.print = ipoColumn[f].print
        BY <1>1, <4>1, <4>2, FirstIsOne
      <4>4. n \in observed'[f]
        BY <1>5
      <4> QED
        BY <2>2, <4>1, <4>3, <4>4
    <3> QED
      BY <3>2, <3>3
  <2> QED
    BY <2>1, <2>2, <1>5
<1> QED
  BY <1>6, <1>7, <1>9, <1>12, <1>13, <1>14 DEF FactsInv

LEMMA FactsStep == FactsInv /\ [FactsNext]_factVars => FactsInv'
<1> SUFFICES ASSUME FactsInv, [FactsNext]_factVars PROVE FactsInv'
  OBVIOUS
<1>1. /\ FactTypes /\ PrintsHaveFirst /\ ReadingsAreFirst /\ RevenueIsUnread
      /\ RevenueIsReadOnce /\ ColumnsAreObserved
  BY DEF FactsInv
<1>2. CASE MonthPasses \/ StateListingMonth \/ LoseFlags \/ UNCHANGED factVars
  <2>1. /\ UNCHANGED <<printed, observed, ipoColumn>>
        /\ monthNow' \in {monthNow, monthNow + 1} /\ listedIn' \in Nat
    BY <1>1, <1>2 DEF MonthPasses, StateListingMonth, LoseFlags, factVars, FactTypes
  <2>2. FactTypes'
    BY <1>1, <2>1 DEF FactTypes
  <2> QED
    BY <1>1, <2>1, <2>2 DEF FactsInv, PrintsHaveFirst, ReadingsAreFirst, IsFirst, PrintsOf, Admits,
                            RevenueIsUnread, RevenueIsReadOnce, ColumnsAreObserved
<1>3. CASE FillColumn
  <2>1. PICK f \in Figures : ipoColumn' = [ipoColumn EXCEPT ![f] = Elsewhere]
    BY <1>3 DEF FillColumn
  <2>2. UNCHANGED <<monthNow, listedIn, printed, reports, observed, done>>
    BY <1>3 DEF FillColumn
  <2>3. \A x \in Figures : ipoColumn'[x] \in {ipoColumn[x], Elsewhere}
    BY <1>1, <2>1 DEF FactTypes
  <2>4. Elsewhere \in Seen /\ Elsewhere # Missing
    <3>1. Elsewhere.listing = 1 /\ Missing.listing = 0
      BY DEF Elsewhere, Missing
    <3> QED
      BY <3>1 DEF Elsewhere, Seen
  <2>5. FactTypes'
    BY <1>1, <2>1, <2>2, <2>4 DEF FactTypes
  <2>6. PrintsHaveFirst' /\ \A c, e, s : PrintsOf(c, e, s)' = PrintsOf(c, e, s)
    <3>1. \A c, e, s : PrintsOf(c, e, s)' = PrintsOf(c, e, s)
      BY <2>2 DEF PrintsOf, Admits
    <3> QED
      BY <1>1, <3>1 DEF PrintsHaveFirst
  <2>7. ReadingsAreFirst'
    BY <1>1, <2>2, <2>3, <2>6 DEF ReadingsAreFirst, IsFirst
  <2>8. RevenueIsUnread'
    BY <1>1, <2>2, <2>3, <2>4 DEF RevenueIsUnread, Figures, RevenueYears
  <2>9. RevenueIsReadOnce' /\ ColumnsAreObserved'
    BY <1>1, <2>2, <2>3 DEF RevenueIsReadOnce, ColumnsAreObserved
  <2> QED
    BY <2>5, <2>6, <2>7, <2>8, <2>9 DEF FactsInv
<1> QED
  BY <1>2, <1>3, FileReportStep, ReadFactsStep DEF FactsNext

\* The figures of a row agree with one another, with the earliest print that
\* the listing admits and with the row's columns, whatever is filed, restated
\* and corrected, for any fiscal year and lag (xbrl_financials.py:19).
THEOREM FiguresHold == FactsSpec => []FiguresAgree
<1>1. FactsInit => FactsInv
  BY DEF FactsInit, FactsInv, FactTypes, PrintsHaveFirst, PrintsOf, ReadingsAreFirst, RevenueIsUnread,
         RevenueIsReadOnce, ColumnsAreObserved, Figures, RevenueYears, Seen, Missing, Elsewhere
<1>2. FactsInv => FiguresAgree
  <2> SUFFICES ASSUME FactsInv PROVE FirstPrinted
    BY DEF FactsInv, FiguresAgree
  <2> QED
    BY PrintIsThere DEF FactsInv, ReadingsAreFirst, IsFirst, FirstPrinted
<1> QED
  BY <1>1, <1>2, FactsStep, PTL DEF FactsSpec
(* The deploy scripts. *)

Stages ==
  Working \cup {"new", "reclaim", "remake", "refused", "killed", "failed", "deployed", "rolled_back"}
ScriptRuns ==
  [at : Stages, kind : {"deploy", "rollback"}, target : Revisions, previous : Revisions]

\* The lock means what it should: no directory was taken for stale.
Trusted == flock \/ reclaims = 0

DeployTypes ==
  /\ flock \in BOOLEAN /\ lock \in Scripts \cup {NoScript} /\ reclaims \in Nat
  /\ script \in [Scripts -> ScriptRuns]
  /\ head \in Revisions /\ image \in Revisions /\ running \in Revisions \cup {NoRevision}
  /\ schema \in Nat

\* What a script at its step knows of the stack.
Fits(x) ==
  /\ x.at \in {"build", "backup", "migrate"} => x.kind = "deploy"
  /\ x.at \in {"build", "backup", "migrate", "up"} => head = x.target
  /\ x.at \in {"backup", "migrate"} \/ (x.at = "up" /\ x.kind = "deploy") => image = head
  /\ x.at = "migrate" => schema \in backups
  /\ x.at = "up" /\ x.kind = "deploy" => schema = Migrations[image]
  /\ x.at = "health" => running = x.target

\* A script at work has the lock, and what it knows holds.
WhoeverWorksKnows == \A s \in Scripts : script[s].at \in Working => lock = s /\ Fits(script[s])

\* A script that takes a directory for stale does so without flock.
Reclaiming ==
  \A s \in Scripts : /\ script[s].at \in {"reclaim", "remake"} => ~flock
                     /\ script[s].at = "remake" => reclaims > 0

DeployInv == DeployTypes /\ Reclaiming /\ NeverBehind /\ (Trusted => WhoeverWorksKnows)

LEMMA DeployStart == DeployInit => DeployInv
BY DeployAssumption
   DEF DeployInit, DeployInv, DeployTypes, Reclaiming, NeverBehind, WhoeverWorksKnows, NotStarted, ScriptRuns,
       Stages, Working

\* The ways a script's own record changes.
LEMMA Moving ==
  ASSUME DeployTypes, NEW s \in Scripts, NEW at \in Stages, MoveTo(s, at)
  PROVE  \E x \in ScriptRuns : /\ script' = [script EXCEPT ![s] = x] /\ x.at = at
                               /\ x.kind = script[s].kind /\ x.target = script[s].target
<1> DEFINE x == [script[s] EXCEPT !.at = at]
<1>1. x \in ScriptRuns /\ x.at = at /\ x.kind = script[s].kind /\ x.target = script[s].target
  BY DEF DeployTypes, ScriptRuns
<1>2. script' = [script EXCEPT ![s] = x]
  BY DEF MoveTo
<1> QED
  BY <1>1, <1>2

LEMMA Ending ==
  ASSUME NEW s \in Scripts, NEW at \in Stages, Ends(s, at)
  PROVE  \E x \in ScriptRuns : script' = [script EXCEPT ![s] = x] /\ x.at = at
<1> DEFINE x == [NotStarted EXCEPT !.at = at]
<1>1. x \in ScriptRuns /\ x.at = at
  BY DeployAssumption DEF NotStarted, ScriptRuns, Stages
<1>2. script' = [script EXCEPT ![s] = x]
  BY DEF Ends
<1> QED
  BY <1>1, <1>2

LEMMA Calling ==
  ASSUME DeployTypes, NEW s \in Scripts, NEW at \in Stages, Called(s, at)
  PROVE  \E x \in ScriptRuns : script' = [script EXCEPT ![s] = x] /\ x.at = at
<1>1. PICK kind \in {"deploy", "rollback"}, r \in Revisions :
        script' = [script EXCEPT ![s] = [@ EXCEPT !.at = at, !.kind = kind, !.target = r]]
  BY DEF Called
<1> DEFINE x == [script[s] EXCEPT !.at = at, !.kind = kind, !.target = r]
<1>2. x \in ScriptRuns /\ x.at = at
  BY DEF DeployTypes, ScriptRuns
<1>3. script' = [script EXCEPT ![s] = x]
  BY <1>1
<1> QED
  BY <1>2, <1>3

\* One script moves: at work, or without a word to the stack and the lock of
\* those who are.
LEMMA OneScriptMoves ==
  ASSUME DeployInv, NEW s \in Scripts, NEW x \in ScriptRuns, script' = [script EXCEPT ![s] = x],
         flock' = flock, reclaims' \in Nat, reclaims' >= reclaims, lock' \in Scripts \cup {NoScript},
         head' \in Revisions, image' \in Revisions, running' \in Revisions \cup {NoRevision},
         schema' \in Nat, NeverBehind',
         x.at \in {"reclaim", "remake"} => ~flock, x.at = "remake" => reclaims' > 0,
         Trusted' => \/ script[s].at \in Working
                     \/ UNCHANGED stackVars /\ (lock' = lock \/ lock = NoScript),
         Trusted' /\ x.at \in Working => lock' = s /\ Fits(x)'
  PROVE  DeployInv'
<1>1. DeployTypes'
  BY DEF DeployInv, DeployTypes
<1>2. script'[s] = x /\ \A q \in Scripts : q # s => script'[q] = script[q]
  BY DEF DeployInv, DeployTypes
<1>3. Reclaiming'
  BY <1>2 DEF DeployInv, Reclaiming, DeployTypes
<1>4. ASSUME Trusted' PROVE WhoeverWorksKnows'
  <2>1. Trusted /\ WhoeverWorksKnows
    BY <1>4 DEF Trusted, DeployInv, DeployTypes
  <2>2. ASSUME NEW q \in Scripts, script'[q].at \in Working PROVE lock' = q /\ Fits(script[q])'
    <3>1. CASE q = s
      BY <1>2, <1>4, <2>2, <3>1 DEF Fits
    <3>2. CASE q # s
      <4>1. script'[q] = script[q] /\ lock = q /\ Fits(script[q])
        BY <1>2, <2>1, <2>2, <3>2 DEF WhoeverWorksKnows
      <4>2. script[s].at \notin Working
        BY <2>1, <3>2, <4>1 DEF WhoeverWorksKnows
      <4>3. UNCHANGED stackVars /\ lock' = lock
        BY <1>4, <4>1, <4>2, DeployAssumption
      <4> QED
        BY <4>1, <4>3 DEF Fits, stackVars
    <3> QED
      BY <3>1, <3>2
  <2> QED
    BY <2>2 DEF WhoeverWorksKnows
<1> QED
  BY <1>1, <1>3, <1>4 DEF DeployInv

\* A script at work ends, or goes back, whatever it has done to the stack.
StackTypes ==
  /\ head \in Revisions /\ image \in Revisions /\ running \in Revisions \cup {NoRevision}
  /\ schema \in Nat

LEMMA Ended ==
  ASSUME DeployInv, NEW s \in Scripts, script[s].at \in Working,
         NEW outcome \in {"failed", "deployed", "rolled_back"}, Exit(s, outcome),
         StackTypes', NeverBehind'
  PROVE  DeployInv'
<1>1. PICK x \in ScriptRuns : script' = [script EXCEPT ![s] = x] /\ x.at = outcome
  BY Ending DEF Exit, Stages
<1>2. flock' = flock /\ reclaims' = reclaims /\ lock' \in Scripts \cup {NoScript}
  BY DEF Exit, DeployInv, DeployTypes
<1>3. x.at \notin Working /\ x.at \notin {"reclaim", "remake"}
  BY <1>1 DEF Working
<1>4. reclaims' \in Nat /\ reclaims' >= reclaims
  BY <1>2 DEF DeployInv, DeployTypes
<1> QED
  BY <1>1, <1>2, <1>3, <1>4, OneScriptMoves DEF StackTypes

LEMMA Failed ==
  ASSUME DeployInv, NEW s \in Scripts,
         script[s].at \in {"checkout", "build", "backup", "migrate", "up"}, Fails(s),
         StackTypes', NeverBehind'
  PROVE  DeployInv'
<1>0. script[s].at \in Working
  BY DEF Working
<1>1. CASE Exit(s, "failed")
  BY <1>0, <1>1, Ended
<1>2. CASE MoveTo(s, "back") /\ UNCHANGED <<lockVars, kills>>
  <2>1. PICK x \in ScriptRuns : script' = [script EXCEPT ![s] = x] /\ x.at = "back"
    BY <1>2, Moving DEF DeployInv, Stages, Working
  <2>2. Trusted' => lock' = s
    BY <1>0, <1>2 DEF Trusted, DeployInv, WhoeverWorksKnows, lockVars
  <2>3. Fits(x)'
    BY <2>1 DEF Fits
  <2>4. /\ flock' = flock /\ reclaims' = reclaims /\ lock' = lock
        /\ reclaims' \in Nat /\ reclaims' >= reclaims /\ lock' \in Scripts \cup {NoScript}
    BY <1>2 DEF lockVars, DeployInv, DeployTypes
  <2> QED
    BY <1>0, <2>1, <2>2, <2>3, <2>4, OneScriptMoves DEF StackTypes
<1> QED
  BY <1>1, <1>2 DEF Fails

\* A script at work goes on to its next step.
LEMMA Proceeds ==
  ASSUME DeployInv, NEW s \in Scripts, script[s].at \in Working, UNCHANGED lockVars,
         NEW x \in ScriptRuns, script' = [script EXCEPT ![s] = x], x.at \in Working,
         StackTypes', NeverBehind', Trusted => Fits(x)'
  PROVE  DeployInv'
<1>1. Trusted' => Trusted /\ lock' = s
  BY DEF Trusted, DeployInv, WhoeverWorksKnows, lockVars
<1>2. /\ flock' = flock /\ reclaims' = reclaims /\ lock' = lock
      /\ reclaims' \in Nat /\ reclaims' >= reclaims /\ lock' \in Scripts \cup {NoScript}
  BY DEF lockVars, DeployInv, DeployTypes
<1>3. x.at \notin {"reclaim", "remake"}
  BY DEF Working
<1> QED
  BY <1>1, <1>2, <1>3, OneScriptMoves DEF StackTypes

LEMMA LockStep ==
  ASSUME DeployInv, NEW s \in Scripts, TryLock(s) \/ Reclaim(s) \/ Remake(s) \/ Kill(s)
  PROVE  DeployInv'
<1>1. /\ UNCHANGED <<stackVars, flock>> /\ NeverBehind' /\ StackTypes'
      /\ reclaims' \in {reclaims, reclaims + 1} /\ reclaims \in Nat
  BY DEF TryLock, Reclaim, Remake, Kill, stackVars, DeployInv, DeployTypes, NeverBehind, StackTypes
<1>2. reclaims' \in Nat /\ reclaims' >= reclaims
  BY <1>1
<1>3. lock' \in {lock, NoScript, s}
  BY DEF TryLock, Reclaim, Remake, Kill
<1>4. lock' \in Scripts \cup {NoScript}
  BY <1>3 DEF DeployInv, DeployTypes
<1>5. DeployTypes /\ Reclaiming /\ (Trusted => WhoeverWorksKnows)
  BY DEF DeployInv
<1>6. CASE TryLock(s)
  <2>1. CASE lock = NoScript /\ lock' = s /\ Called(s, "checkout")
    <3>1. PICK x \in ScriptRuns : script' = [script EXCEPT ![s] = x] /\ x.at = "checkout"
      BY <1>5, <2>1, Calling DEF Stages, Working
    <3>2. Fits(x)'
      BY <3>1 DEF Fits
    <3> QED
      BY <1>1, <1>2, <1>4, <2>1, <3>1, <3>2, OneScriptMoves DEF StackTypes
  <2>2. CASE ~flock /\ Called(s, "reclaim") /\ UNCHANGED lock
    <3>1. PICK x \in ScriptRuns : script' = [script EXCEPT ![s] = x] /\ x.at = "reclaim"
      BY <1>5, <2>2, Calling DEF Stages
    <3>2. x.at \notin Working
      BY <3>1 DEF Working
    <3> QED
      BY <1>1, <1>2, <1>4, <2>2, <3>1, <3>2, OneScriptMoves DEF StackTypes
  <2>3. CASE Ends(s, "refused") /\ UNCHANGED lock
    <3>1. PICK x \in ScriptRuns : script' = [script EXCEPT ![s] = x] /\ x.at = "refused"
      BY <2>3, Ending DEF Stages
    <3>2. x.at \notin Working
      BY <3>1 DEF Working
    <3> QED
      BY <1>1, <1>2, <1>4, <2>3, <3>1, <3>2, OneScriptMoves DEF StackTypes
  <2> QED
    BY <1>6, <2>1, <2>2, <2>3 DEF TryLock
<1>7. CASE Reclaim(s)
  <2>1. script[s].at = "reclaim" /\ ~flock /\ reclaims' > 0 /\ ~Trusted'
    BY <1>1, <1>5, <1>7 DEF Reclaim, OnStep, Reclaiming, Trusted
  <2>2. PICK x \in ScriptRuns : script' = [script EXCEPT ![s] = x] /\ x.at = "remake"
    BY <1>5, <1>7, Moving DEF Reclaim, Stages
  <2> QED
    BY <1>1, <1>2, <1>4, <2>1, <2>2, OneScriptMoves DEF StackTypes
<1>8. CASE Remake(s)
  <2>1. ~Trusted'
    BY <1>1, <1>2, <1>5, <1>8 DEF Remake, OnStep, Reclaiming, Trusted
  <2>2. PICK x \in ScriptRuns :
          script' = [script EXCEPT ![s] = x] /\ x.at \in {"checkout", "refused"}
    BY <1>5, <1>8, Moving, Ending DEF Remake, Stages, Working
  <2>3. x.at \notin {"reclaim", "remake"}
    BY <2>2
  <2> QED
    BY <1>1, <1>2, <1>4, <2>1, <2>2, <2>3, OneScriptMoves DEF StackTypes
<1>9. CASE Kill(s)
  <2>1. PICK x \in ScriptRuns : script' = [script EXCEPT ![s] = x] /\ x.at = "killed"
    BY <1>9, Ending DEF Kill, Stages
  <2>2. x.at \notin Working
    BY <2>1 DEF Working
  <2>3. script[s].at \in Working
    BY <1>9 DEF Kill
  <2> QED
    BY <1>1, <1>2, <1>4, <2>1, <2>2, <2>3, OneScriptMoves DEF StackTypes
<1> QED
  BY <1>6, <1>7, <1>8, <1>9

\* compose leaves web on a schema that has its migrations, or not running.
LEMMA UpIsSafe ==
  ASSUME DeployInv, NEW r \in Revisions, NEW start, Up(r, start)
  PROVE  /\ image' = r /\ running' \in {r, NoRevision} /\ schema' \in {schema, Migrations[r]}
         /\ schema' \in Nat /\ NeverBehind' /\ (start = "ok" => running' = r)
BY DeployAssumption DEF Up, DeployInv, DeployTypes, NeverBehind, Migrates

\* What the trusted script at work knows.
LEMMA Knows ==
  ASSUME DeployInv, NEW s \in Scripts, script[s].at \in Working, Trusted
  PROVE  lock = s /\ Fits(script[s])
BY DEF DeployInv, WhoeverWorksKnows

LEMMA StackStep ==
  ASSUME DeployInv, NEW s \in Scripts,
         \/ Checkout(s) \/ Decline(s) \/ StepFails(s) \/ Build(s) \/ Backup(s) \/ BackupRefused(s)
         \/ Migrate(s) \/ Restart(s) \/ Healthy(s) \/ Unhealthy(s) \/ GoBack(s)
  PROVE  DeployInv'
<1>0. /\ DeployTypes /\ StackTypes /\ NeverBehind /\ script[s] \in ScriptRuns
      /\ script[s].target \in Revisions /\ script[s].previous \in Revisions
  BY DEF DeployInv, DeployTypes, StackTypes, ScriptRuns
<1>1. ASSUME UNCHANGED stackVars PROVE StackTypes' /\ NeverBehind'
  BY <1>0, <1>1 DEF stackVars, StackTypes, NeverBehind
<1>2. CASE Checkout(s)
  <2> DEFINE x == [script[s] EXCEPT !.previous = head,
                     !.at = IF script[s].kind = "deploy" THEN "build" ELSE "up"]
  <2>1. /\ x \in ScriptRuns /\ x.target = script[s].target /\ x.kind = script[s].kind
        /\ x.at = IF script[s].kind = "deploy" THEN "build" ELSE "up"
    BY <1>0 DEF ScriptRuns, Stages, Working, StackTypes
  <2>2. script' = [script EXCEPT ![s] = x]
    BY <1>2 DEF Checkout
  <2>3. PICK y \in ScriptRuns : y = x
    BY <2>1
  <2>4. script' = [script EXCEPT ![s] = y] /\ head' = y.target /\ y.at \in Working
    BY <1>2, <2>1, <2>2, <2>3 DEF Checkout, Working
  <2>5. Fits(y)'
    BY <2>1, <2>3, <2>4 DEF Fits
  <2>6. script[s].at \in Working /\ UNCHANGED lockVars /\ StackTypes' /\ NeverBehind'
    BY <1>0, <1>2 DEF Checkout, OnStep, Working, StackTypes, NeverBehind
  <2> QED
    BY <2>4, <2>5, <2>6, Proceeds
<1>3. CASE Decline(s)
  BY <1>1, <1>3, Ended DEF Decline, OnStep, Working
<1>4. CASE StepFails(s)
  BY <1>1, <1>4, Failed DEF StepFails
<1>5. CASE Build(s)
  <2>1. PICK x \in ScriptRuns : /\ script' = [script EXCEPT ![s] = x] /\ x.at = "backup"
                                /\ x.kind = script[s].kind /\ x.target = script[s].target
    BY <1>0, <1>5, Moving DEF Build, Stages, Working
  <2>2. /\ script[s].at = "build" /\ script[s].at \in Working /\ x.at \in Working
        /\ UNCHANGED lockVars /\ StackTypes' /\ NeverBehind'
    BY <1>0, <1>5, <2>1 DEF Build, OnStep, Working, StackTypes, NeverBehind
  <2>3. Trusted => Fits(x)'
    BY <1>5, <2>1, <2>2, Knows DEF Build, Fits
  <2> QED
    BY <2>1, <2>2, <2>3, Proceeds
<1>6. CASE Backup(s)
  <2>1. PICK x \in ScriptRuns : /\ script' = [script EXCEPT ![s] = x] /\ x.at = "migrate"
                                /\ x.kind = script[s].kind /\ x.target = script[s].target
    BY <1>0, <1>6, Moving DEF Backup, Stages, Working
  <2>2. /\ script[s].at = "backup" /\ script[s].at \in Working /\ x.at \in Working
        /\ UNCHANGED lockVars /\ StackTypes' /\ NeverBehind'
    BY <1>0, <1>6, <2>1 DEF Backup, OnStep, Working, StackTypes, NeverBehind
  <2>3. Trusted => Fits(x)'
    BY <1>6, <2>1, <2>2, Knows DEF Backup, Fits
  <2> QED
    BY <2>1, <2>2, <2>3, Proceeds
<1>7. CASE BackupRefused(s)
  BY <1>1, <1>7, Ended DEF BackupRefused, OnStep, Working
<1>8. CASE Migrate(s)
  <2>1. script[s].at = "migrate" /\ script[s].at \in Working
    BY <1>8 DEF Migrate, OnStep, Working
  <2>2. CASE Migrates(image)
    <3>1. schema' = Migrations[image] /\ MoveTo(s, "up") /\ UNCHANGED <<lockVars, head, image, running>>
      BY <1>8, <2>2 DEF Migrate
    <3>2. PICK x \in ScriptRuns : /\ script' = [script EXCEPT ![s] = x] /\ x.at = "up"
                                  /\ x.kind = script[s].kind /\ x.target = script[s].target
      BY <1>0, <3>1, Moving DEF Stages, Working
    <3>3. StackTypes' /\ NeverBehind'
      BY <1>0, <2>2, <3>1, DeployAssumption DEF StackTypes, NeverBehind, Migrates
    <3>4. Trusted => Fits(x)'
      BY <2>1, <3>1, <3>2, Knows DEF Fits
    <3>5. x.at \in Working
      BY <3>2 DEF Working
    <3> QED
      BY <2>1, <3>1, <3>2, <3>3, <3>4, <3>5, Proceeds
  <2>3. CASE ~Migrates(image)
    <3>1. UNCHANGED stackVars /\ Fails(s)
      BY <1>8, <2>3 DEF Migrate, stackVars
    <3> QED
      BY <1>1, <2>1, <3>1, Failed
  <2> QED
    BY <2>2, <2>3
<1>9. CASE Restart(s)
  <2>1. script[s].at = "up" /\ script[s].at \in Working /\ head \in Revisions /\ head' = head
    BY <1>0, <1>9 DEF Restart, OnStep, Working, StackTypes
  <2>2. CASE Up(head, "ok") /\ MoveTo(s, "health") /\ UNCHANGED <<lockVars, kills>>
    <3>1. StackTypes' /\ NeverBehind' /\ running' = head
      BY <2>1, <2>2, UpIsSafe DEF StackTypes
    <3>2. PICK x \in ScriptRuns : /\ script' = [script EXCEPT ![s] = x] /\ x.at = "health"
                                  /\ x.target = script[s].target
      BY <1>0, <2>2, Moving DEF Stages, Working
    <3>3. Trusted => Fits(x)'
      BY <2>1, <3>1, <3>2, Knows DEF Fits
    <3>4. x.at \in Working /\ UNCHANGED lockVars
      BY <2>2, <3>2 DEF Working
    <3> QED
      BY <2>1, <3>1, <3>2, <3>3, <3>4, Proceeds
  <2>3. CASE Up(head, "failed") /\ Fails(s)
    <3>1. StackTypes' /\ NeverBehind'
      BY <2>1, <2>3, UpIsSafe DEF StackTypes
    <3> QED
      BY <2>1, <2>3, <3>1, Failed
  <2> QED
    BY <1>9, <2>2, <2>3 DEF Restart
<1>10. CASE Healthy(s)
  <2>1. PICK outcome \in {"deployed", "rolled_back"} : Exit(s, outcome)
    BY <1>10 DEF Healthy
  <2> QED
    BY <1>1, <1>10, <2>1, Ended DEF Healthy, OnStep, Working
<1>11. CASE Unhealthy(s)
  BY <1>1, <1>11, Ended DEF Unhealthy, OnStep, Working
<1>12. CASE GoBack(s)
  <2>1. PICK start : Up(script[s].previous, start)
    BY <1>12 DEF GoBack
  <2>2. StackTypes' /\ NeverBehind'
    BY <1>0, <1>12, <2>1, UpIsSafe DEF StackTypes, GoBack
  <2> QED
    BY <1>12, <2>2, Ended DEF GoBack, OnStep, Working
<1> QED
  BY <1>2, <1>3, <1>4, <1>5, <1>6, <1>7, <1>8, <1>9, <1>10, <1>11, <1>12

LEMMA DeployStep == DeployInv /\ [DeployNext]_deployVars => DeployInv'
<1> SUFFICES ASSUME DeployInv, [DeployNext]_deployVars PROVE DeployInv'
  OBVIOUS
<1>1. CASE LockAges \/ UNCHANGED deployVars
  BY <1>1 DEF LockAges, deployVars, stackVars, DeployInv, DeployTypes, Reclaiming, NeverBehind,
              Trusted, WhoeverWorksKnows, Fits
<1>2. ASSUME NEW s \in Scripts, Step(s) PROVE DeployInv'
  BY <1>2, LockStep, StackStep DEF Step
<1> QED
  BY <1>1, <1>2 DEF DeployNext

\* One at a time: whoever is at work has the lock.
LEMMA OneAtWork == DeployInv => OneAtATime
<1> SUFFICES ASSUME DeployInv, Trusted
             PROVE  Cardinality({s \in Scripts : script[s].at \in Working}) <= 1
  BY DEF OneAtATime, Trusted
<1> DEFINE busyOnes == {s \in Scripts : script[s].at \in Working}
<1>1. busyOnes \subseteq {lock}
  BY DEF DeployInv, WhoeverWorksKnows
<1> HIDE DEF busyOnes
<1>2. IsFiniteSet({lock}) /\ Cardinality({lock}) = 1
  BY FS_Singleton
<1>3. Cardinality(busyOnes) <= 1
  BY <1>1, <1>2, FS_Subset
<1> QED
  BY <1>3 DEF busyOnes

\* The schema moves in three steps only.
LEMMA SchemaMoves ==
  ASSUME DeployInv, [DeployNext]_deployVars, Trusted
  PROVE  \/ schema' = schema \/ schema \in backups
         \/ \E s \in Scripts : OnStep(s, "back") \/ (OnStep(s, "up") /\ script[s].kind = "rollback")
<1>1. \/ schema' = schema
      \/ \E s \in Scripts : Migrate(s) \/ Restart(s) \/ GoBack(s)
  BY DEF DeployNext, Step, deployVars, stackVars, LockAges, TryLock, Reclaim, Remake, Kill, Checkout,
         Decline, StepFails, Build, Backup, BackupRefused, Healthy, Unhealthy
<1>2. ASSUME NEW s \in Scripts, Migrate(s) PROVE schema \in backups
  BY <1>2, Knows DEF Migrate, OnStep, Working, Fits
<1>3. ASSUME NEW s \in Scripts, Restart(s), script[s].kind # "rollback" PROVE schema' = schema
  <2>1. script[s].at = "up" /\ script[s].at \in Working /\ script[s].kind = "deploy" /\ head \in Revisions
    BY <1>3 DEF Restart, OnStep, Working, DeployInv, DeployTypes, ScriptRuns
  <2>2. schema = Migrations[head]
    BY <2>1, Knows DEF Fits
  <2>3. PICK start : Up(head, start)
    BY <1>3 DEF Restart
  <2> QED
    BY <2>1, <2>2, <2>3, UpIsSafe
<1> QED
  BY <1>1, <1>2, <1>3 DEF Restart, GoBack

\* Only a script that asked for the health of its target reports it.
LEMMA ReportsHold ==
  ASSUME DeployInv, [DeployNext]_deployVars, Trusted, NEW s \in Scripts,
         script'[s].at \in {"deployed", "rolled_back"}, script'[s].at # script[s].at
  PROVE  running' = script[s].target
<1>0. script \in [Scripts -> ScriptRuns] /\ script[s] \in ScriptRuns
  BY DEF DeployInv, DeployTypes
<1>1. PICK q \in Scripts : Step(q)
  BY DEF DeployNext, deployVars, LockAges
<1>2. q = s
  <2>1. \A x \in Scripts : x # q => script'[x] = script[x]
    BY <1>0, <1>1 DEF Step, TryLock, Reclaim, Remake, Kill, Checkout, Decline, StepFails, Build, Backup,
           BackupRefused, Migrate, Restart, Healthy, Unhealthy, GoBack, Fails, Exit, Ends, MoveTo, Called
  <2> QED
    BY <2>1
<1>3. CASE Healthy(s)
  <2>1. script[s].at = "health" /\ script[s].at \in Working /\ running' = running
    BY <1>3 DEF Healthy, OnStep, Working, stackVars
  <2> QED
    BY <2>1, Knows DEF Fits
<1>4. ASSUME ~Healthy(s) PROVE FALSE
  <2>1. \E at \in Stages \ {"deployed", "rolled_back"} : MoveTo(s, at) \/ Ends(s, at) \/ Called(s, at)
             \/ script' = [script EXCEPT ![s] = [@ EXCEPT !.previous = head, !.at = at]]
    BY <1>1, <1>2, <1>4
       DEF Step, TryLock, Reclaim, Remake, Kill, Checkout, Decline, StepFails, Build, Backup,
           BackupRefused, Migrate, Restart, Unhealthy, GoBack, Fails, Exit, Stages, Working
  <2>2. PICK at \in Stages \ {"deployed", "rolled_back"} : MoveTo(s, at) \/ Ends(s, at) \/ Called(s, at)
             \/ script' = [script EXCEPT ![s] = [@ EXCEPT !.previous = head, !.at = at]]
    BY <2>1
  <2>3. script'[s].at = at
    <3>1. CASE MoveTo(s, at) \/ Ends(s, at) \/ Called(s, at)
      <4>1. PICK x \in ScriptRuns : script' = [script EXCEPT ![s] = x] /\ x.at = at
        BY <3>1, Moving, Ending, Calling DEF DeployInv
      <4> QED
        BY <1>0, <4>1
    <3>2. CASE script' = [script EXCEPT ![s] = [@ EXCEPT !.previous = head, !.at = at]]
      BY <1>0, <3>2 DEF ScriptRuns
    <3> QED
      BY <2>2, <3>1, <3>2
  <2> QED
    BY <2>2, <2>3
<1> QED
  BY <1>3, <1>4

\* The two scripts, killed and rerun, leave the stack as each of their steps
\* vouches for: one at a time, web never behind its schema, a backup before a
\* change, reports that are true.  For any scripts, revisions and failures
\* (_lock.sh:5, DEPLOYMENT.md:240, deploy.sh:88).
THEOREM DeploysHold == DeploySpec => DeploysAreSafe
<1>1. DeploySpec => []DeployInv
  BY DeployStart, DeployStep, PTL DEF DeploySpec
<1>2. DeployInv => OneAtATime /\ NeverBehind
  BY OneAtWork DEF DeployInv
<1>3. DeployInv /\ [DeployNext]_deployVars =>
        [flock \/ reclaims = 0 =>
           schema' = schema \/ schema \in backups
             \/ \E s \in Scripts :
                  OnStep(s, "back") \/ (OnStep(s, "up") /\ script[s].kind = "rollback")]_deployVars
  BY SchemaMoves DEF Trusted
<1>4. DeployInv /\ [DeployNext]_deployVars =>
        [flock \/ reclaims = 0 => \A s \in Scripts :
           (script'[s].at \in {"deployed", "rolled_back"} /\ script'[s].at # script[s].at) =>
             running' = script[s].target]_deployVars
  BY ReportsHold DEF Trusted
<1> QED
  BY <1>1, <1>2, <1>3, <1>4, PTL DEF DeploySpec, DeploysAreSafe, BackedUpFirst, ReportsAreTrue
=============================================================================

-------------------------- MODULE SourceHealthProofs --------------------------
(***************************************************************************)
(* What the site says of its sources is true of every schedule of jobs: a  *)
(* run is recorded before its source is read, and the branch never knows   *)
(* less than the site it is published with.  What the record says of an    *)
(* offering's score is true in whatever order its documents speak.  And    *)
(* the site has a place for every row, and shows an issuer by its best.    *)
(***************************************************************************)
EXTENDS SourceHealth, ScoreHistory, PagesPublish, SiteBuild, FiniteSetTheorems,
        WellFoundedInduction, TLAPS

Run == [status : {"never run", "running", "ok", "partial", "error"}, started : Nat]
Book == [run : [Feeds -> Run], read : [Feeds -> Nat]]
Shown == {"LIVE", "OPTIONAL_UNCONFIGURED", "DELAYED", "PARTIAL", "STALE", "FAILED"}

\* A book that could have been written by an hour.
Plausible(b, h) ==
  /\ b \in Book
  /\ \A f \in Feeds : /\ b.run[f].started <= h
                      /\ b.run[f].status = "ok" => b.run[f].started <= b.read[f]

\* No run of the first book is later than the second's.
Follows(b, c) == \A f \in Feeds : b.run[f].started <= c.run[f].started

\* The statuses are those of the page's own book, and the branch has caught up
\* with it; so has every job, which starts from the branch.
HealthInv ==
  /\ hourNow \in Nat /\ turn \in Nat
  /\ jobStage \in {"idle", "refresh", "pass", "build"}
  /\ jobStage = "pass" => turn \in Feeds
  /\ Plausible(book, hourNow) /\ Plausible(saved, hourNow)
  /\ sitePage.hour \in Nat /\ sitePage.hour <= hourNow
  /\ sitePage = PageOf(sitePage.book, sitePage.hour)
  /\ Plausible(sitePage.book, sitePage.hour)
  /\ Follows(sitePage.book, saved)
  /\ jobStage # "idle" => Follows(saved, book)

LEMMA FeedsAreNumbers == Feeds \subseteq Nat /\ Required \subseteq Feeds /\ Daily \in Required
  BY HealthAssumption DEF Feeds, Required, Daily, Licensed

\* What a page shows is what its book says.
LEMMA PageShows ==
  ASSUME NEW b, NEW h
  PROVE  /\ PageOf(b, h).book = b /\ PageOf(b, h).hour = h
         /\ \A f \in Feeds : PageOf(b, h).shown[f] = StatusAt(b.run[f], f, h)
  BY DEF PageOf

\* The statuses, one run at a time.
LEMMA StatusIsShown ==
  ASSUME NEW r \in Run, NEW f \in Feeds, NEW h \in Nat
  PROVE  /\ r.status = "error" => StatusAt(r, f, h) = "FAILED"
         /\ r.status = "partial" => StatusAt(r, f, h) = "PARTIAL"
         /\ r.status = "never run" =>
              StatusAt(r, f, h) = IF f = Licensed /\ ~Configured
                                  THEN "OPTIONAL_UNCONFIGURED" ELSE "FAILED"
         /\ r.status \in {"ok", "running"} =>
              StatusAt(r, f, h) = IF h - r.started <= FreshHours(f) THEN "LIVE"
                                  ELSE IF h - r.started <= DelayedFor THEN "DELAYED"
                                  ELSE "STALE"
         /\ StatusAt(r, f, h) \in Shown
<1>0. r.status \in {"never run", "running", "ok", "partial", "error"}
  BY DEF Run
<1>1. CASE r.status = "error"
  BY <1>1 DEF StatusAt, Shown
<1>2. CASE r.status = "partial"
  BY <1>2 DEF StatusAt, Shown
<1>3. CASE r.status = "never run"
  BY <1>3 DEF StatusAt, Shown
<1>4. CASE r.status \in {"ok", "running"}
  BY <1>4 DEF StatusAt, Shown
<1> QED  BY <1>0, <1>1, <1>2, <1>3, <1>4

\* The same run looks no better later.
LEMMA StatusWorsens ==
  ASSUME NEW r \in Run, NEW f \in Feeds, NEW h \in Nat, NEW k \in Nat, h <= k
  PROVE  Severity[StatusAt(r, f, k)] >= Severity[StatusAt(r, f, h)]
<1> DEFINE live(x) == x - r.started <= FreshHours(f)
           late(x) == x - r.started <= DelayedFor
<1>0. FreshFor \in Nat /\ DailyFreshFor \in Nat /\ DelayedFor \in Nat
  BY HealthAssumption
<1>1. r.started \in Nat /\ FreshHours(f) \in Nat /\ DelayedFor \in Nat /\ FreshHours(f) <= DelayedFor
  <2>1. r.started \in Nat
    BY DEF Run
  <2>2. FreshFor <= DelayedFor /\ DailyFreshFor <= DelayedFor
    BY <1>0, HealthAssumption
  <2> QED  BY <1>0, <2>1, <2>2 DEF FreshHours
<1>2. (live(k) => live(h)) /\ (late(k) => late(h)) /\ (live(h) => late(h)) /\ (live(k) => late(k))
  BY <1>1
<1>3. CASE r.status \in {"never run", "error", "partial"}
  <2>1. StatusAt(r, f, k) = StatusAt(r, f, h)
    BY <1>3, StatusIsShown
  <2>2. StatusAt(r, f, h) \in Shown
    BY StatusIsShown
  <2>3. \A s \in Shown : Severity[s] \in Nat
    BY DEF Severity, Shown
  <2> QED  BY <2>1, <2>2, <2>3
<1>4. CASE r.status \in {"ok", "running"}
  <2>1. \A x \in {h, k} : StatusAt(r, f, x) = IF live(x) THEN "LIVE"
                                          ELSE IF late(x) THEN "DELAYED" ELSE "STALE"
    BY <1>4, StatusIsShown
  <2> QED  BY <1>2, <2>1 DEF Severity
<1>5. r.status \in {"never run", "error", "partial"} \cup {"ok", "running"}
  BY DEF Run
<1> QED  BY <1>3, <1>4, <1>5

\* One of the required feeds is worst off: severities are bounded.
LEMMA SomeFeedIsWorst ==
  ASSUME NEW shown \in [Feeds -> Shown]
  PROVE  \E f \in Required : f \in Worst(shown)
<1> DEFINE sev(f) == Severity[shown[f]]
           has(n) == \E f \in Required : sev(f) = n
<1>1. \A f \in Required : sev(f) \in 0..4
  BY FeedsAreNumbers DEF Severity, Shown
<1>2. has(0) \/ has(1) \/ has(2) \/ has(3) \/ has(4)
  BY <1>1, FeedsAreNumbers
<1>3. PICK n \in 0..4 : has(n) /\ \A k \in 0..4 : has(k) => k <= n
  <2>1. CASE has(4)  BY <2>1
  <2>2. CASE ~has(4) /\ has(3)  BY <2>2
  <2>3. CASE ~has(4) /\ ~has(3) /\ has(2)  BY <2>3
  <2>4. CASE ~has(4) /\ ~has(3) /\ ~has(2) /\ has(1)  BY <2>4
  <2>5. CASE ~has(4) /\ ~has(3) /\ ~has(2) /\ ~has(1) /\ has(0)  BY <2>5
  <2> QED  BY <1>2, <2>1, <2>2, <2>3, <2>4, <2>5
<1>4. PICK f \in Required : sev(f) = n
  BY <1>3
<1>5. \A g \in Required : sev(g) <= sev(f)
  BY <1>1, <1>3, <1>4
<1> QED  BY <1>5 DEF Worst

\* So the overall status is that of the worst of them.
LEMMA OverallIsShown ==
  ASSUME NEW b \in Book, NEW h \in Nat
  PROVE  \E f \in Required : /\ PageOf(b, h).overall = PageOf(b, h).shown[f]
                              /\ f \in Worst(PageOf(b, h).shown)
<1> DEFINE shown == [f \in Feeds |-> StatusAt(b.run[f], f, h)]
<1>1. shown \in [Feeds -> Shown]
  <2>1. \A f \in Feeds : b.run[f] \in Run
    BY DEF Book
  <2> QED  BY <2>1, StatusIsShown
<1>2. (CHOOSE f \in Worst(shown) : TRUE) \in Worst(shown)
  BY <1>1, SomeFeedIsWorst
<1>3. Worst(shown) \subseteq Required
  BY DEF Worst
<1>4. /\ PageOf(b, h).shown = shown
      /\ PageOf(b, h).overall = shown[CHOOSE f \in Worst(shown) : TRUE]
  BY DEF PageOf
<1> QED  BY <1>2, <1>3, <1>4

-----------------------------------------------------------------------------
LEMMA NothingIsPlausible == Plausible(NoBook, 0)
<1> DEFINE none(f) == NoBook.run[f].started <= 0 /\ NoBook.run[f].status # "ok"
<1>1. NoBook \in Book
  BY DEF NoBook, Book, NeverRun, Run
<1>2. \A f \in Feeds : NoBook.run[f] = NeverRun
  BY DEF NoBook
<1>3. NeverRun.started <= 0 /\ NeverRun.status # "ok"
  BY DEF NeverRun
<1>4. ASSUME NEW f \in Feeds PROVE none(f)
  BY <1>2, <1>3
<1> QED  BY <1>1, <1>4 DEF Plausible

LEMMA InitHasInv == HealthInit => HealthInv
<1> SUFFICES ASSUME HealthInit PROVE HealthInv
  OBVIOUS
<1>2. Plausible(NoBook, 0)
  BY NothingIsPlausible
<1>3. Follows(NoBook, NoBook)
  <2>1. ASSUME NEW f \in Feeds PROVE NoBook.run[f].started <= NoBook.run[f].started
    <3>1. NoBook.run[f] = NeverRun
      BY DEF NoBook
    <3>2. NeverRun.started <= NeverRun.started
      BY DEF NeverRun
    <3> QED  BY <3>1, <3>2
  <2> QED  BY <2>1 DEF Follows
<1>4. sitePage = PageOf(NoBook, 0) /\ sitePage.book = NoBook /\ sitePage.hour = 0
  BY PageShows DEF HealthInit
<1>5. /\ hourNow = 0 /\ turn = 1 /\ jobStage = "idle" /\ book = NoBook /\ saved = NoBook
  BY DEF HealthInit
<1>6. sitePage = PageOf(sitePage.book, sitePage.hour)
  BY <1>4
<1>7. Plausible(sitePage.book, sitePage.hour) /\ Follows(sitePage.book, saved)
  BY <1>2, <1>3, <1>4, <1>5
<1> QED  BY <1>2, <1>4, <1>5, <1>6, <1>7 DEF HealthInv

\* Books and time.
LEMMA PlausibleLater ==
  ASSUME NEW b, NEW h \in Nat, NEW k \in Nat, h <= k, Plausible(b, h)
  PROVE  Plausible(b, k)
<1>1. ASSUME NEW f \in Feeds PROVE b.run[f].started <= k
  <2>1. b.run[f].started \in Nat /\ b.run[f].started <= h
    BY DEF Plausible, Book, Run
  <2> QED  BY <2>1
<1> QED  BY <1>1 DEF Plausible

LEMMA FollowsOn ==
  ASSUME NEW b \in Book, NEW c \in Book, NEW d \in Book
  PROVE  Follows(b, b) /\ (Follows(b, c) /\ Follows(c, d) => Follows(b, d))
<1>1. ASSUME NEW f \in Feeds
      PROVE  b.run[f].started \in Nat /\ c.run[f].started \in Nat /\ d.run[f].started \in Nat
  BY DEF Book, Run
<1> QED  BY <1>1 DEF Follows

\* A book whose entries for one feed are replaced.
Entered(b, g, r, n) ==
  [run |-> [b.run EXCEPT ![g] = r], read |-> [b.read EXCEPT ![g] = n]]

LEMMA NewEntry ==
  ASSUME NEW b, NEW h \in Nat, Plausible(b, h), NEW g \in Feeds,
         NEW r \in Run, NEW n \in Nat,
         b.run[g].started <= r.started, r.started <= h,
         r.status = "ok" => r.started <= n
  PROVE  Plausible(Entered(b, g, r, n), h) /\ Follows(b, Entered(b, g, r, n))
<1> DEFINE c == [run |-> [b.run EXCEPT ![g] = r], read |-> [b.read EXCEPT ![g] = n]]
<1>0. Entered(b, g, r, n) = c
  BY DEF Entered
<1>1. b.run \in [Feeds -> Run] /\ b.read \in [Feeds -> Nat]
  BY DEF Plausible, Book
<1>2. c \in Book
  BY <1>1 DEF Book
<1>3. ASSUME NEW f \in Feeds
      PROVE  /\ c.run[f].started <= h /\ b.run[f].started <= c.run[f].started
             /\ c.run[f].status = "ok" => c.run[f].started <= c.read[f]
  <2>1. CASE f = g
    <3>1. c.run[f] = r /\ c.read[f] = n
      BY <1>1, <2>1
    <3> QED  BY <2>1, <3>1
  <2>2. CASE f # g
    <3>1. c.run[f] = b.run[f] /\ c.read[f] = b.read[f]
      BY <1>1, <2>2
    <3>2. b.run[f].started \in Nat
      BY <1>1 DEF Run
    <3>3. /\ b.run[f].started <= h
          /\ b.run[f].status = "ok" => b.run[f].started <= b.read[f]
      BY DEF Plausible
    <3> QED  BY <3>1, <3>2, <3>3
  <2> QED  BY <2>1, <2>2
<1>4. Plausible(c, h) /\ Follows(b, c)
  BY <1>2, <1>3 DEF Plausible, Follows
<1> QED  BY <1>0, <1>4

LEMMA StepKeepsInv == HealthInv /\ [HealthNext]_healthVars => HealthInv'
<1> SUFFICES ASSUME HealthInv, [HealthNext]_healthVars PROVE HealthInv'
  OBVIOUS
<1>i. /\ hourNow \in Nat /\ turn \in Nat
      /\ jobStage \in {"idle", "refresh", "pass", "build"}
      /\ jobStage = "pass" => turn \in Feeds
      /\ Plausible(book, hourNow) /\ Plausible(saved, hourNow)
      /\ sitePage.hour \in Nat /\ sitePage.hour <= hourNow
      /\ sitePage = PageOf(sitePage.book, sitePage.hour)
      /\ Plausible(sitePage.book, sitePage.hour)
      /\ Follows(sitePage.book, saved)
      /\ jobStage # "idle" => Follows(saved, book)
  BY DEF HealthInv
<1>b. book \in Book /\ saved \in Book /\ sitePage.book \in Book
  BY <1>i DEF Plausible
<1>1. CASE HourPasses
  <2>1. hourNow' \in Nat /\ hourNow <= hourNow' /\ UNCHANGED <<jobStage, turn, book, saved, sitePage>>
    BY <1>1, <1>i DEF HourPasses
  <2>2. Plausible(book, hourNow') /\ Plausible(saved, hourNow')
    BY <1>i, <2>1, PlausibleLater
  <2>3. sitePage.hour <= hourNow'
    BY <1>i, <2>1
  <2> QED  BY <1>i, <2>1, <2>2, <2>3 DEF HealthInv
<1>2. CASE StartJob
  <2>1. /\ turn' = 1 /\ jobStage' = "refresh" /\ book' = saved
        /\ UNCHANGED <<hourNow, saved, sitePage>>
    BY <1>2 DEF StartJob
  <2>2. Follows(saved', book')
    BY <1>b, <2>1, FollowsOn
  <2> QED  BY <1>i, <2>1, <2>2 DEF HealthInv
<1>3. CASE OpenRun
  <2> DEFINE r == [status |-> "running", started |-> hourNow]
             n == book.read[turn]
  <2>1. /\ turn \in Feeds /\ jobStage = "refresh" /\ jobStage' = "pass"
        /\ book' = [book EXCEPT !.run[turn] = r]
        /\ UNCHANGED <<hourNow, turn, saved, sitePage>>
    BY <1>3 DEF OpenRun
  <2>2. r \in Run /\ n \in Nat /\ r.status # "ok" /\ r.started = hourNow
    BY <1>b, <1>i, <2>1 DEF Run, Book
  <2>3. book.run[turn].started <= r.started /\ r.started <= hourNow
    BY <1>i, <2>1, <2>2 DEF Plausible
  <2>4. book' = Entered(book, turn, r, n)
    <3>1. book = [run |-> book.run, read |-> book.read]
      BY <1>b DEF Book
    <3>2. book' = [run |-> [book.run EXCEPT ![turn] = r], read |-> book.read]
      BY <2>1, <3>1
    <3>3. [book.read EXCEPT ![turn] = n] = book.read
      BY <1>b, <2>1 DEF Book
    <3> QED  BY <3>2, <3>3 DEF Entered
  <2> HIDE DEF r, n
  <2>5. Plausible(book', hourNow) /\ Follows(book, book')
    <3>1. r.status = "ok" => r.started <= n
      BY <2>2
    <3> QED  BY <1>i, <2>1, <2>2, <2>3, <2>4, <3>1, NewEntry
  <2>6. Follows(saved, book')
    BY <1>b, <1>i, <2>1, <2>5, FollowsOn DEF Plausible
  <2> QED  BY <1>i, <2>1, <2>5, <2>6 DEF HealthInv
<1>4. CASE SkipFeed
  BY <1>4, <1>i DEF SkipFeed, HealthInv
<1>5. CASE CloseRun
  <2>1. /\ turn \in Feeds /\ jobStage = "pass" /\ jobStage' = "refresh" /\ turn' = turn + 1
        /\ UNCHANGED <<hourNow, saved, sitePage>>
    BY <1>5, <1>i DEF CloseRun
  <2>2. PICK o \in Outcomes :
          book' = [book EXCEPT !.run[turn].status = o,
                               !.read[turn] = IF o = "error" THEN @ ELSE hourNow]
    BY <1>5 DEF CloseRun
  <2> DEFINE r == [status |-> o, started |-> book.run[turn].started]
             n == IF o = "error" THEN book.read[turn] ELSE hourNow
  <2>3. book.run[turn] \in Run /\ book.read[turn] \in Nat
    BY <1>b, <2>1 DEF Book
  <2>4. book.run[turn].started \in Nat /\ book.run[turn].started <= hourNow
    BY <1>i, <2>1, <2>3 DEF Plausible, Run
  <2>5. r \in Run /\ n \in Nat /\ r.started = book.run[turn].started /\ r.status = o
    BY <1>i, <2>3, <2>4 DEF Run, Outcomes
  <2>6. r.status = "ok" => r.started <= n
    BY <2>4, <2>5
  <2>7. r.started <= hourNow /\ book.run[turn].started <= r.started
    BY <2>4, <2>5
  <2>8. book' = Entered(book, turn, r, n)
    <3>1. book = [run |-> book.run, read |-> book.read]
      BY <1>b DEF Book
    <3>2. [book.run EXCEPT ![turn].status = o] = [book.run EXCEPT ![turn] = r]
      <4>1. ASSUME NEW x \in Run
            PROVE  [x EXCEPT !.status = o] = [status |-> o, started |-> x.started]
        <5>1. x = [status |-> x.status, started |-> x.started]
          BY DEF Run
        <5> QED  BY <5>1
      <4>2. [book.run[turn] EXCEPT !.status = o] = r
        BY <2>3, <4>1
      <4> QED  BY <4>2
    <3>3. book' = [run |-> [book.run EXCEPT ![turn].status = o],
                   read |-> [book.read EXCEPT ![turn] = n]]
      BY <2>2, <3>1
    <3> QED  BY <3>2, <3>3 DEF Entered
  <2>9. Plausible(book', hourNow) /\ Follows(book, book')
    BY <1>i, <2>1, <2>5, <2>6, <2>7, <2>8, NewEntry
  <2>10. Follows(saved, book')
    BY <1>b, <1>i, <2>1, <2>9, FollowsOn DEF Plausible
  <2> QED  BY <1>i, <2>1, <2>9, <2>10 DEF HealthInv
<1>6. CASE RefreshEnds
  BY <1>6, <1>i DEF RefreshEnds, HealthInv
<1>7. CASE Publish
  <2>1. /\ jobStage = "build" /\ jobStage' = "idle" /\ turn' = 1 /\ book' = NoBook
        /\ hourNow' = hourNow
    BY <1>7 DEF Publish
  <2>2. Plausible(NoBook, hourNow)
    <3>1. Plausible(NoBook, 0)
      BY NothingIsPlausible
    <3> QED  BY <1>i, <3>1, PlausibleLater
  <2>3. CASE UNCHANGED <<saved, sitePage>>
    BY <1>i, <2>1, <2>2, <2>3 DEF HealthInv
  <2>4. CASE saved' = book /\ UNCHANGED sitePage
    <3>1. Follows(sitePage.book, book)
      BY <1>b, <1>i, <2>1, FollowsOn
    <3> QED  BY <1>i, <2>1, <2>2, <2>4, <3>1 DEF HealthInv
  <2>5. CASE saved' = book /\ sitePage' = PageOf(book, hourNow)
    <3>1. sitePage'.book = book /\ sitePage'.hour = hourNow
      BY <2>5, PageShows
    <3>2. Follows(book, book) /\ sitePage' = PageOf(sitePage'.book, sitePage'.hour)
      BY <1>b, <2>5, <3>1, FollowsOn
    <3> QED  BY <1>i, <2>1, <2>2, <2>5, <3>1, <3>2 DEF HealthInv
  <2> QED  BY <1>7, <2>3, <2>4, <2>5 DEF Publish
<1>8. CASE UNCHANGED healthVars
  BY <1>8, <1>i DEF healthVars, HealthInv
<1> QED  BY <1>1, <1>2, <1>3, <1>4, <1>5, <1>6, <1>7, <1>8 DEF HealthNext

\* The invariant of every schedule of jobs, whatever fails and whenever.
THEOREM HealthInvariant == HealthSpec => []HealthInv
<1> QED  BY InitHasInv, StepKeepsInv, PTL DEF HealthSpec

-----------------------------------------------------------------------------
\* The page's entries, as numbers and statuses.
LEMMA PageFacts ==
  ASSUME HealthInv, NEW f \in Feeds
  PROVE  LET r == sitePage.book.run[f]  n == sitePage.book.read[f]
         IN /\ r \in Run /\ n \in Nat /\ sitePage.hour \in Nat
            /\ r.started \in Nat /\ r.started <= sitePage.hour
            /\ r.status = "ok" => r.started <= n
            /\ sitePage.shown[f] = StatusAt(r, f, sitePage.hour)
<1>1. /\ Plausible(sitePage.book, sitePage.hour) /\ sitePage.hour \in Nat
      /\ sitePage = PageOf(sitePage.book, sitePage.hour)
  BY DEF HealthInv
<1>2. sitePage.shown[f] = StatusAt(sitePage.book.run[f], f, sitePage.hour)
  BY <1>1, PageShows
<1>3. sitePage.book.run[f] \in Run /\ sitePage.book.read[f] \in Nat
  BY <1>1 DEF Plausible, Book
<1>4. sitePage.book.run[f].started \in Nat
  BY <1>3 DEF Run
<1> QED  BY <1>1, <1>2, <1>3, <1>4 DEF Plausible

LEMMA PagesAreFresh == HealthInv => FreshnessIsTrue
<1> SUFFICES ASSUME HealthInv, NEW f \in Feeds
             PROVE  /\ sitePage.shown[f] = "LIVE" =>
                         Age(f) <= FreshHours(f) /\ (CutOff(f) \/ Behind(f) <= Age(f))
                    /\ sitePage.shown[f] = "DELAYED" =>
                         /\ Age(f) \in FreshHours(f) + 1..DelayedFor
                         /\ CutOff(f) \/ Behind(f) <= Age(f)
                    /\ sitePage.shown[f] = "STALE" => Age(f) > DelayedFor
  BY DEF FreshnessIsTrue
<1> DEFINE r == sitePage.book.run[f]
           n == sitePage.book.read[f]
           h == sitePage.hour
           s == sitePage.shown[f]
<1>1. /\ r \in Run /\ n \in Nat /\ h \in Nat /\ r.started \in Nat /\ r.started <= h
      /\ r.status = "ok" => r.started <= n
      /\ s = StatusAt(r, f, h)
  BY PageFacts
<1>2. FreshHours(f) \in Nat /\ DelayedFor \in Nat
  BY HealthAssumption DEF FreshHours
<1>a. Age(f) = h - r.started /\ Behind(f) = h - n /\ (CutOff(f) <=> r.status = "running")
  BY DEF Age, Behind, CutOff
<1> HIDE DEF r, n, h, s
<1>3. CASE r.status \in {"never run", "error", "partial"}
  <2>1. s \in {"OPTIONAL_UNCONFIGURED", "FAILED", "PARTIAL"}
    BY <1>1, <1>3, StatusIsShown
  <2> QED  BY <2>1 DEF s
<1>4. CASE r.status \in {"ok", "running"}
  <2>1. s = IF h - r.started <= FreshHours(f) THEN "LIVE"
            ELSE IF h - r.started <= DelayedFor THEN "DELAYED" ELSE "STALE"
    BY <1>1, <1>4, StatusIsShown
  <2>2. r.status = "running" \/ h - n <= h - r.started
    BY <1>1, <1>4
  <2>3. /\ s = "LIVE" => h - r.started <= FreshHours(f)
        /\ s = "DELAYED" => h - r.started \in FreshHours(f) + 1..DelayedFor
        /\ s = "STALE" => h - r.started > DelayedFor
    BY <1>1, <1>2, <2>1
  <2> QED  BY <1>a, <2>2, <2>3 DEF s
<1>5. r.status \in {"never run", "error", "partial"} \cup {"ok", "running"}
  BY <1>1 DEF Run
<1> QED  BY <1>3, <1>4, <1>5

LEMMA OverallIsRight == HealthInv => OverallIsWorst
<1> SUFFICES ASSUME HealthInv PROVE OverallIsWorst
  OBVIOUS
<1>1. /\ Plausible(sitePage.book, sitePage.hour) /\ sitePage.hour \in Nat
      /\ sitePage = PageOf(sitePage.book, sitePage.hour)
  BY DEF HealthInv
<1>2. PICK w \in Required : sitePage.overall = sitePage.shown[w] /\ w \in Worst(sitePage.shown)
  BY <1>1, OverallIsShown DEF Plausible
<1>3. ASSUME NEW f \in Required
      PROVE  /\ sitePage.shown[f] \in Shown \ {"OPTIONAL_UNCONFIGURED"}
             /\ Severity[sitePage.shown[f]] <= Severity[sitePage.overall]
  <2>1. f \in Feeds /\ f # Licensed
    BY FeedsAreNumbers DEF Required
  <2>2. sitePage.shown[f] = StatusAt(sitePage.book.run[f], f, sitePage.hour)
        /\ sitePage.book.run[f] \in Run /\ sitePage.hour \in Nat
    BY <2>1, PageFacts
  <2>3. sitePage.shown[f] \in Shown \ {"OPTIONAL_UNCONFIGURED"}
    <3>1. sitePage.book.run[f].status \in {"never run", "error", "partial", "ok", "running"}
      BY <2>2 DEF Run
    <3>2. sitePage.shown[f] \in {"FAILED", "PARTIAL", "LIVE", "DELAYED", "STALE"}
      BY <2>1, <2>2, <3>1, StatusIsShown
    <3> QED  BY <3>2 DEF Shown
  <2>4. Severity[sitePage.shown[f]] <= Severity[sitePage.overall]
    BY <1>2 DEF Worst
  <2> QED  BY <2>3, <2>4
<1>4. sitePage.overall \in Shown \ {"OPTIONAL_UNCONFIGURED"}
  BY <1>2, <1>3
<1>5. ASSUME NEW f \in Required
      PROVE  /\ sitePage.overall = "LIVE" => sitePage.shown[f] = "LIVE"
             /\ sitePage.shown[f] = "FAILED" => sitePage.overall = "FAILED"
  BY <1>3, <1>4 DEF Severity, Shown
<1> QED  BY <1>5 DEF OverallIsWorst

LEMMA StepsGoForward == HealthInv /\ HealthInv' /\ [HealthNext]_healthVars => SitesMoveForward
<1> SUFFICES ASSUME HealthInv, HealthInv', [HealthNext]_healthVars, sitePage' # sitePage,
                    NEW f \in Feeds
             PROVE LET before == sitePage.book.run[f]  after == sitePage'.book.run[f]
                   IN /\ after = before =>
                           Severity[sitePage'.shown[f]] >= Severity[sitePage.shown[f]]
                      /\ after.started >= before.started
  BY DEF SitesMoveForward
<1>1. Publish /\ sitePage' = PageOf(book, hourNow)
  BY DEF HealthNext, HourPasses, StartJob, OpenRun, SkipFeed, CloseRun, RefreshEnds, Publish,
         healthVars
<1>2. /\ Plausible(book, hourNow) /\ Plausible(saved, hourNow) /\ hourNow \in Nat
      /\ Plausible(sitePage.book, sitePage.hour)
      /\ sitePage.hour \in Nat /\ sitePage.hour <= hourNow
      /\ Follows(sitePage.book, saved) /\ (jobStage # "idle" => Follows(saved, book))
  BY DEF HealthInv
<1>3. Follows(sitePage.book, book)
  <2>1. book \in Book /\ saved \in Book /\ sitePage.book \in Book
    BY <1>2 DEF Plausible
  <2> QED  BY <1>1, <1>2, <2>1, FollowsOn DEF Publish
<1>4. /\ sitePage'.book = book /\ sitePage'.hour = hourNow
      /\ sitePage'.shown[f] = StatusAt(book.run[f], f, hourNow)
  BY <1>1, PageShows
<1>5. /\ sitePage.shown[f] = StatusAt(sitePage.book.run[f], f, sitePage.hour)
      /\ sitePage.book.run[f] \in Run /\ sitePage.book.run[f].started \in Nat
  BY PageFacts
<1>6. book.run[f] \in Run /\ book.run[f].started \in Nat
  BY <1>2 DEF Plausible, Book, Run
<1>7. sitePage.book.run[f].started <= book.run[f].started
  BY <1>3 DEF Follows
<1>8. sitePage'.book.run[f].started >= sitePage.book.run[f].started
  BY <1>4, <1>5, <1>6, <1>7
<1>9. ASSUME sitePage'.book.run[f] = sitePage.book.run[f]
      PROVE  Severity[sitePage'.shown[f]] >= Severity[sitePage.shown[f]]
  <2>1. book.run[f] = sitePage.book.run[f]
    BY <1>4, <1>9
  <2> QED  BY <1>2, <1>4, <1>5, <2>1, StatusWorsens
<1> QED  BY <1>8, <1>9

\* For every number of feeds, every limit and every schedule of jobs and
\* failures: what the site calls fresh or late had a run within that time, and
\* was read since unless that run was cut off; its overall status is that of the
\* worst required feed, and a later site never goes back to an earlier run
\* (build_pages.py:214-255, refresh_data.py:46-120, pages.yml:103-172).
THEOREM HealthHolds == HealthSpec => HealthIsTrue
<1>1. HealthInv => FreshnessIsTrue /\ OverallIsWorst
  BY PagesAreFresh, OverallIsRight
<1>2. HealthInv /\ HealthInv' /\ [HealthNext]_healthVars => SitesMoveForward
  BY StepsGoForward
<1>3. HealthSpec => [](FreshnessIsTrue /\ OverallIsWorst)
  BY <1>1, HealthInvariant, PTL
<1>4. HealthSpec => [][SitesMoveForward]_healthVars
  BY <1>2, HealthInvariant, PTL DEF HealthSpec
<1> QED  BY <1>3, <1>4 DEF HealthIsTrue
-----------------------------------------------------------------------------
(* The score of an offering and its record.                                *)

Others(p) == {x \in Stated : SourceOf[x] # SourceOf[p]}

\* A flag is that of the last statement that concerned its row: of its own
\* document, against all the others, or of another source's, which still says
\* what it said.
FlagIsHeard(p) ==
  IF prov[p].conflict THEN \E x \in Others(p) : Differ(prov[p].value, prov[x].value)
  ELSE Others(p) = {} \/ \E x \in Others(p) : ~Differ(prov[p].value, prov[x].value)

\* The document that spoke last was compared with all the others.
FlagIsCurrent(p) ==
  prov[p].conflict <=> \E x \in Others(p) : Differ(prov[p].value, prov[x].value)

FlagsAreHeard ==
  /\ \A p \in Stated : FlagIsHeard(p)
  /\ Stated # {} => \E p \in Stated : FlagIsCurrent(p)

ScoreTypes ==
  /\ prov \in [Urls -> [value : Nat, conflict : BOOLEAN]]
  /\ facts \in [filing : {"none", "secondary", "primary"}, missing : {0, 2}, flags : {0, 1}]
  /\ context \subseteq {"peers", "regime"} /\ pillars \in {0, 1} /\ age \in Nat

Scores == [conf : Int, pillars : {0, 1}, rec : {"no_recommendation", "invest", "watch"}]

ScoreInv ==
  ScoreTypes /\ last \in Scores /\ FlagsAreHeard /\ RecordIsCurrent /\ SnapshotsDiffer

LEMMA ConflictsCount ==
  ASSUME ScoreTypes
  PROVE  /\ Conflicts \in Nat
         /\ Conflicts > 0 <=> \E p \in Stated : prov[p].conflict
<1> DEFINE C == {p \in Stated : prov[p].conflict}
<1>1. IsFiniteSet(C)
  <2>1. C \subseteq Urls
    BY DEF Stated
  <2> QED
    BY <2>1, ScoreAssumption, FS_Subset
<1>2. Cardinality(C) \in Nat /\ (Cardinality(C) = 0 <=> C = {})
  BY <1>1, FS_CardinalityType, FS_EmptySet
<1>3. Conflicts = Cardinality(C)
  BY DEF Conflicts
<1> HIDE DEF C
<1>4. Conflicts \in Nat /\ (Conflicts > 0 <=> C # {})
  BY <1>2, <1>3
<1> QED
  BY <1>4 DEF C

LEMMA DifferIsSymmetric ==
  \A v, w \in Nat : Differ(v, w) \in BOOLEAN /\ (Differ(v, w) <=> Differ(w, v))
BY DEF Differ

\* A row that agrees with some row of another source, all of which agree with p.
LEMMA PricesBetween ==
  ASSUME ScoreTypes, NEW p \in Stated, NEW y \in Stated,
         \A x \in Others(p) : ~Differ(prov[p].value, prov[x].value),
         Others(y) # {} => \E x \in Others(y) : ~Differ(prov[y].value, prov[x].value),
         SourceOf[y] = SourceOf[p],
         NEW o \in Others(y), Differ(prov[y].value, prov[o].value)
  PROVE  \E x, m, z \in Stated : /\ Differ(prov[x].value, prov[z].value)
                                 /\ ~Differ(prov[x].value, prov[m].value)
                                 /\ ~Differ(prov[m].value, prov[z].value)
<1>1. Others(y) = Others(p) /\ Others(y) \subseteq Stated
  BY DEF Others
<1>2. PICK x \in Others(y) : ~Differ(prov[y].value, prov[x].value)
  OBVIOUS
<1>3. \A q \in Stated : prov[q].value \in Nat
  BY DEF ScoreTypes, Stated
<1>4. ~Differ(prov[x].value, prov[p].value) /\ ~Differ(prov[p].value, prov[o].value)
  BY <1>1, <1>2, <1>3, DifferIsSymmetric
<1>5. CASE Differ(prov[x].value, prov[o].value)
  BY <1>1, <1>4, <1>5
<1>6. CASE ~Differ(prov[x].value, prov[o].value)
  BY <1>1, <1>2, <1>6
<1> QED
  BY <1>5, <1>6

\* The flags are those of disputed prices, and where none is set the prices that
\* dispute one another have one between them.
LEMMA FlagsAreReal == ASSUME ScoreTypes, FlagsAreHeard PROVE ConflictsAreReal
<1>1. ASSUME NEW p \in Stated, prov[p].conflict
      PROVE  \E o \in Stated : SourceOf[o] # SourceOf[p] /\ Differ(prov[p].value, prov[o].value)
  BY <1>1 DEF FlagsAreHeard, FlagIsHeard, Others
<1>2. ASSUME NEW q \in Stated, NEW o \in Stated, SourceOf[q] # SourceOf[o],
             Differ(prov[q].value, prov[o].value), \A x \in Stated : ~prov[x].conflict
      PROVE  \E x, y, z \in Stated : /\ Differ(prov[x].value, prov[z].value)
                                     /\ ~Differ(prov[x].value, prov[y].value)
                                     /\ ~Differ(prov[y].value, prov[z].value)
  <2>1. PICK p \in Stated : FlagIsCurrent(p)
    BY DEF FlagsAreHeard
  <2>2. \A x \in Others(p) : ~Differ(prov[p].value, prov[x].value)
    BY <2>1, <1>2 DEF FlagIsCurrent
  <2>3. q \in Others(o) /\ o \in Others(q)
    BY <1>2 DEF Others
  <2>4. \A y \in Stated : Others(y) # {} => \E x \in Others(y) : ~Differ(prov[y].value, prov[x].value)
    BY <1>2 DEF FlagsAreHeard, FlagIsHeard
  <2>5. prov[q].value \in Nat /\ prov[o].value \in Nat /\ prov[p].value \in Nat
    BY DEF ScoreTypes, Stated
  <2>6. CASE SourceOf[q] = SourceOf[p]
    BY <2>2, <2>3, <2>4, <2>6, <1>2, PricesBetween
  <2>7. CASE SourceOf[o] = SourceOf[p]
    <3>1. Differ(prov[o].value, prov[q].value)
      BY <1>2, <2>5, DifferIsSymmetric
    <3> QED
      BY <2>2, <2>3, <2>4, <2>7, <3>1, PricesBetween
  <2>8. CASE SourceOf[q] # SourceOf[p] /\ SourceOf[o] # SourceOf[p]
    <3>1. ~Differ(prov[p].value, prov[q].value) /\ ~Differ(prov[p].value, prov[o].value)
      BY <2>2, <2>8 DEF Others
    <3>2. ~Differ(prov[q].value, prov[p].value)
      BY <2>5, <3>1, DifferIsSymmetric
    <3> QED
      BY <1>2, <3>1, <3>2
  <2> QED
    BY <2>6, <2>7, <2>8
<1> QED
  BY <1>1, <1>2, ConflictsCount DEF ConflictsAreReal

\* Whatever document speaks, its flag and those it sets are right.
LEMMA PriceIsHeard ==
  ASSUME ScoreTypes, FlagsAreHeard, NEW p \in Urls, NEW v \in Prices, prov' = WithPrice(p, v)
  PROVE  FlagsAreHeard' /\ prov' \in [Urls -> [value : Nat, conflict : BOOLEAN]]
<1> DEFINE others == Others(p)
           flag == \E x \in others : Differ(v, prov[x].value)
<1>1. /\ prov' = [o \in Urls |->
           IF o = p THEN [value |-> v, conflict |-> flag]
           ELSE IF o \in others THEN [prov[o] EXCEPT !.conflict = Differ(v, prov[o].value)]
           ELSE prov[o]]
      /\ p \notin others /\ others \subseteq Urls
  BY DEF WithPrice, Others, Stated
<1> HIDE DEF others, flag
<1>2. prov'[p].value = v /\ (prov'[p].conflict <=> flag)
  BY <1>1
<1> v \in Nat /\ v > 0
  BY ScoreAssumption
<1>3. ASSUME NEW o \in Urls, o # p
      PROVE  /\ prov'[o].value = prov[o].value
             /\ o \in others => (prov'[o].conflict <=> Differ(v, prov[o].value))
             /\ o \notin others => prov'[o].conflict = prov[o].conflict
  BY <1>1, <1>3 DEF ScoreTypes
<1>4. prov' \in [Urls -> [value : Nat, conflict : BOOLEAN]]
  <2>1. flag \in BOOLEAN /\ \A o \in Urls : Differ(v, prov[o].value) \in BOOLEAN
    BY DEF flag, Differ
  <2> QED
    BY <1>1, <2>1 DEF ScoreTypes
<1>5. Stated' = Stated \cup {p}
  BY <1>2, <1>3 DEF Stated
<1>6. Others(p)' = others /\ \A o \in Stated : Others(o) \subseteq Others(o)'
  BY <1>5 DEF Others, others
<1>7. FlagIsCurrent(p)'
  <2>1. \A x \in others : prov'[x].value = prov[x].value
    BY <1>1, <1>3
  <2> QED
    BY <1>2, <1>6, <2>1 DEF FlagIsCurrent, flag
<1>8. ASSUME NEW o \in Stated' PROVE FlagIsHeard(o)'
  <2>1. CASE o = p
    <3>1. \A x \in others : prov'[x].value = prov[x].value
      BY <1>1, <1>3
    <3> QED
      BY <2>1, <3>1, <1>2, <1>6 DEF FlagIsHeard, flag
  <2>2. CASE o # p /\ o \in others
    <3>1. p \in Others(o)'
      BY <2>2, <1>5 DEF Others, others
    <3>2. prov[o].value \in Nat /\ prov'[o].value = prov[o].value
          /\ (prov'[o].conflict <=> Differ(v, prov[o].value))
      BY <2>2, <1>1, <1>3 DEF ScoreTypes
    <3>3. prov'[o].conflict <=> Differ(prov'[o].value, prov'[p].value)
      BY <3>2, <1>2, DifferIsSymmetric
    <3> QED
      BY <3>1, <3>3 DEF FlagIsHeard
  <2>3. CASE o # p /\ o \notin others
    <3>1. o \in Stated /\ SourceOf[o] = SourceOf[p] /\ FlagIsHeard(o)
      BY <2>3, <1>5 DEF FlagsAreHeard, Others, others
    <3>2. Others(o)' = Others(o) /\ p \notin Others(o)
      BY <3>1, <1>5 DEF Others
    <3>3. \A x \in Others(o) : prov'[x].value = prov[x].value
      BY <3>2, <1>3 DEF Others, Stated
    <3>4. prov'[o].value = prov[o].value /\ prov'[o].conflict = prov[o].conflict
      BY <2>3, <3>1, <1>3 DEF Stated
    <3> QED
      BY <3>1, <3>2, <3>3, <3>4 DEF FlagIsHeard
  <2> QED
    BY <2>1, <2>2, <2>3
<1> QED
  BY <1>4, <1>5, <1>7, <1>8 DEF FlagsAreHeard

LEMMA PenaltiesAreNat ==
  ASSUME ScoreTypes, NEW c \in Nat
  PROVE  /\ FreshnessPenalty \in Nat
         /\ AtMost(280, 35 * facts.flags) \in Nat /\ (AtMost(280, 35 * facts.flags) = 0 <=> facts.flags = 0)
         /\ AtMost(250, 80 * c) \in Nat /\ (AtMost(250, 80 * c) = 0 <=> c = 0)
<1>1. age > 7 => (120 * (age - 7)) \div 53 \in Nat
  <2>1. age > 7 => 120 * (age - 7) \in Nat
    BY DEF ScoreTypes
  <2>2. \A n \in Nat : n \div 53 \in Nat
    OBVIOUS
  <2> QED
    BY <2>1, <2>2
<1>2. FreshnessPenalty \in Nat
  BY <1>1 DEF ScoreTypes, FreshnessPenalty, AtMost
<1>3. facts.flags \in {0, 1}
  BY DEF ScoreTypes
<1> QED
  BY <1>2, <1>3 DEF AtMost

\* The score the row has.
Current == Score(Confidence(Conflicts))

ScoreIsTyped == Current \in Scores

LEMMA CurrentIsTyped == ScoreTypes => ScoreIsTyped
<1> SUFFICES ASSUME ScoreTypes PROVE ScoreIsTyped
  OBVIOUS
<1>1. Conflicts \in Nat
  BY ConflictsCount
<1>2. /\ FreshnessPenalty \in Nat /\ AtMost(280, 35 * facts.flags) \in Nat
      /\ AtMost(250, 80 * Conflicts) \in Nat
  BY <1>1, PenaltiesAreNat
<1>3. facts.missing \in Nat
  BY DEF ScoreTypes
<1>4. Confidence(Conflicts) \in Int
  BY <1>2, <1>3 DEF Confidence, Fields
<1> QED
  BY <1>4 DEF Current, Score, Scores, ScoreIsTyped, ScoreTypes

LEMMA NextIsTyped == ScoreTypes' => ScoreIsTyped'
BY CurrentIsTyped, PTL

\* Confidence falls short of the whole by what the reasons name, and only then.
LEMMA ReasonsAreComplete == ASSUME ScoreTypes PROVE ReasonsExplain
<1> DEFINE f == AtMost(280, 35 * facts.flags)
           k == AtMost(250, 80 * Conflicts)
           s == FreshnessPenalty
           m == facts.missing
<1>1. Conflicts \in Nat
  BY ConflictsCount
<1>2. /\ f \in Nat /\ k \in Nat /\ s \in Nat
      /\ f = 0 <=> facts.flags = 0
      /\ k = 0 <=> Conflicts = 0
  BY <1>1, PenaltiesAreNat
<1>3. m \in {0, 2} /\ facts.flags \in {0, 1}
      /\ facts.filing \in {"none", "secondary", "primary"}
  BY DEF ScoreTypes
<1>4. Confidence(Conflicts) =
        68 * (10 - m - (IF facts.filing = "none" THEN 1 ELSE 0))
          + (IF facts.filing = "primary" THEN 320 ELSE 230) - f - k - s
  BY DEF Confidence, Fields
<1>5. Reasons(Conflicts) \subseteq {"peers", "regime"} <=>
        facts.filing = "primary" /\ ~(m > 0) /\ ~(s > 0) /\ ~(Conflicts > 0) /\ ~(facts.flags > 0)
  BY DEF Reasons
<1> HIDE DEF f, k, s, m
<1>6. Reasons(Conflicts) \subseteq {"peers", "regime"} <=> facts.filing = "primary" /\ m = 0 /\ s = 0 /\ k = 0 /\ f = 0
  BY <1>1, <1>2, <1>3, <1>5
<1>7. Confidence(Conflicts) = 1000 <=> facts.filing = "primary" /\ m = 0 /\ s = 0 /\ k = 0 /\ f = 0
  BY <1>2, <1>3, <1>4
<1> QED
  BY <1>6, <1>7 DEF ReasonsExplain

\* A score that is said not to have moved is the last one, to a tenth; one that
\* is said to have moved is another.
LEMMA MovedIsSo ==
  ASSUME NEW score, score.conf \in Int, last.conf \in Int, NEW moved \in Moved(score)
  PROVE  /\ moved \in BOOLEAN
         /\ moved = FALSE => /\ score.rec = last.rec /\ score.pillars = last.pillars
                             /\ score.conf - last.conf \in -1..1
         /\ moved = TRUE => score # last
<1> DEFINE tenths == score.conf - last.conf
           differ == <<score.rec, score.pillars>> # <<last.rec, last.pillars>>
<1>1. Moved(score) = IF differ \/ tenths \notin -1..1 THEN {TRUE}
                     ELSE IF tenths = 0 THEN {FALSE} ELSE BOOLEAN
  BY DEF Moved
<1>2. score = last => tenths = 0 /\ ~differ
  OBVIOUS
<1>3. ~differ => score.rec = last.rec /\ score.pillars = last.pillars
  OBVIOUS
<1>4. tenths \in Int
  OBVIOUS
<1> HIDE DEF tenths, differ
<1>5. moved \in BOOLEAN /\ (moved = FALSE => ~differ /\ tenths \in -1..1)
  BY <1>1
<1>6. moved = TRUE => score # last
  BY <1>1, <1>2
<1> QED
  BY <1>3, <1>5, <1>6 DEF tenths

\* A mention records the score if it moved by more than a tenth; what it
\* records without an event it has not recorded before.
LEMMA RecordFollows ==
  ASSUME ScoreInv, ScoreTypes', NEW changed \in SUBSET {"subscription", "band", "filing", "peers", "regime", "price"},
         NEW moved \in Moved(Current'),
         IF EventStage(changed, moved) = "none" THEN UNCHANGED <<last, repeated>>
         ELSE /\ last' = Current'
              /\ repeated' = (Current' = last
                              /\ EventStage(changed, moved) \notin {"filing", "price_band_set"})
  PROVE  RecordIsCurrent' /\ SnapshotsDiffer' /\ last' \in {last, Current'}
<1>1. Current'.conf \in Int /\ last.conf \in Int
  BY NextIsTyped DEF ScoreInv, Scores, ScoreIsTyped
<1>2. /\ moved \in BOOLEAN
      /\ moved = FALSE => /\ Current'.rec = last.rec /\ Current'.pillars = last.pillars
                          /\ Current'.conf - last.conf \in -1..1
      /\ moved = TRUE => Current' # last
  BY <1>1, MovedIsSo
<1>3. EventStage(changed, moved) = "none" => moved = FALSE
  BY <1>2 DEF EventStage
<1>4. EventStage(changed, moved) \notin {"none", "filing", "price_band_set"} => moved = TRUE
  BY <1>2 DEF EventStage
<1>5. ASSUME /\ Current'.rec = last'.rec /\ Current'.pillars = last'.pillars
             /\ Current'.conf - last'.conf \in -1..1
      PROVE  RecordIsCurrent'
  BY <1>5 DEF RecordIsCurrent, Current
<1>6. CASE EventStage(changed, moved) = "none"
  <2>1. UNCHANGED <<last, repeated>>
    BY <1>6
  <2> QED
    BY <2>1, <1>2, <1>3, <1>5, <1>6 DEF ScoreInv, SnapshotsDiffer
<1>7. CASE EventStage(changed, moved) # "none"
  <2>1. last' = Current'
    BY <1>7
  <2>2. Current'.conf - last'.conf \in -1..1
    BY <1>1, <2>1
  <2>3. ~repeated'
    BY <1>2, <1>4, <1>7
  <2> QED
    BY <1>5, <2>1, <2>2, <2>3 DEF SnapshotsDiffer
<1> QED
  BY <1>6, <1>7

LEMMA MentionStep == ASSUME ScoreInv, Mention PROVE ScoreInv'
<1>1. PICK changed \in {{}, {"subscription"}, {"band"}, {"filing"}, {"peers", "regime"}, {"price"}} :
        /\ context' = context \cup (changed \cap {"peers", "regime"})
        /\ pillars' \in IF changed \in {{}, {"filing"}, {"price"}} THEN {pillars} ELSE 0..1
        /\ IF "filing" \in changed
           THEN \E f \in {"secondary", "primary"} :
                  f # facts.filing /\ facts' = [facts EXCEPT !.filing = f, !.missing = 0, !.flags = 0]
           ELSE facts' = facts
        /\ IF "price" \in changed
           THEN \E p \in Urls, v \in Prices : prov' = WithPrice(p, v)
           ELSE prov' = prov
        /\ age' = IF changed = {} THEN age ELSE 0
        /\ LET score == Score(Confidence(Conflicts))'
           IN \E moved \in Moved(score) :
                LET stage == EventStage(changed, moved)
                IN IF stage = "none" THEN UNCHANGED <<last, repeated>>
                   ELSE /\ last' = score
                        /\ repeated' = (score = last /\ stage \notin {"filing", "price_band_set"})
  BY DEF Mention
<1>2. ScoreTypes /\ FlagsAreHeard
  BY DEF ScoreInv
<1>3. FlagsAreHeard' /\ prov' \in [Urls -> [value : Nat, conflict : BOOLEAN]]
  <2>1. CASE prov' = prov
    BY <2>1, <1>2 DEF FlagsAreHeard, FlagIsHeard, FlagIsCurrent, Others, Stated, ScoreTypes
  <2>2. CASE \E p \in Urls, v \in Prices : prov' = WithPrice(p, v)
    BY <2>2, <1>2, PriceIsHeard
  <2> QED
    BY <1>1, <2>1, <2>2
<1>4. /\ facts' \in [filing : {"none", "secondary", "primary"}, missing : {0, 2}, flags : {0, 1}]
      /\ context' \subseteq {"peers", "regime"} /\ pillars' \in {0, 1} /\ age' \in Nat
  <2>1. facts' \in [filing : {"none", "secondary", "primary"}, missing : {0, 2}, flags : {0, 1}]
    BY <1>1, <1>2 DEF ScoreTypes
  <2>2. pillars' \in {0, 1}
    BY <1>1, <1>2 DEF ScoreTypes
  <2>3. age' \in Nat
    BY <1>1, <1>2 DEF ScoreTypes
  <2>4. context' \subseteq {"peers", "regime"}
    BY <1>1, <1>2 DEF ScoreTypes
  <2> QED
    BY <2>1, <2>2, <2>3, <2>4
<1>5. ScoreTypes'
  BY <1>3, <1>4 DEF ScoreTypes
<1>6. RecordIsCurrent' /\ SnapshotsDiffer' /\ last' \in {last, Current'}
  <2>1. PICK moved \in Moved(Current') :
          IF EventStage(changed, moved) = "none" THEN UNCHANGED <<last, repeated>>
          ELSE /\ last' = Current'
               /\ repeated' = (Current' = last
                               /\ EventStage(changed, moved) \notin {"filing", "price_band_set"})
    BY <1>1 DEF Current
  <2>2. changed \in SUBSET {"subscription", "band", "filing", "peers", "regime", "price"}
    BY <1>1
  <2> QED
    BY <1>5, <2>1, <2>2, RecordFollows
<1>7. last' \in Scores
  BY <1>5, <1>6, NextIsTyped DEF ScoreInv, ScoreIsTyped
<1> QED
  BY <1>3, <1>5, <1>6, <1>7 DEF ScoreInv

LEMMA ScoreStep == ScoreInv /\ [ScoreNext]_scoreVars => ScoreInv'
<1> SUFFICES ASSUME ScoreInv, [ScoreNext]_scoreVars PROVE ScoreInv'
  OBVIOUS
<1>1. CASE UNCHANGED scoreVars
  BY <1>1 DEF scoreVars, ScoreInv, ScoreTypes, FlagsAreHeard, FlagIsHeard, FlagIsCurrent, Others, Stated,
              RecordIsCurrent, SnapshotsDiffer, Score, Confidence, Conflicts, FreshnessPenalty
<1>2. CASE FlagRow \/ DaysGo
  <2>1. mentioned' = FALSE /\ UNCHANGED <<prov, context, pillars, last, repeated>>
    BY <1>2 DEF FlagRow, DaysGo
  <2>2. ScoreTypes'
    <3>1. CASE FlagRow
      <4>1. facts.missing \in {0, 2}
        BY <3>1 DEF FlagRow, ScoreInv, ScoreTypes
      <4>3. PICK m \in {0, 2} : facts' = [facts EXCEPT !.flags = 1, !.missing = m]
        BY <3>1, <4>1 DEF FlagRow
      <4>4. facts' \in [filing : {"none", "secondary", "primary"}, missing : {0, 2}, flags : {0, 1}]
        BY <4>3 DEF ScoreInv, ScoreTypes
      <4> QED
        BY <2>1, <3>1, <4>4 DEF FlagRow, ScoreInv, ScoreTypes
    <3>2. CASE DaysGo
      BY <3>2, ScoreAssumption DEF DaysGo, ScoreInv, ScoreTypes
    <3> QED
      BY <1>2, <3>1, <3>2
  <2>3. FlagsAreHeard'
    BY <2>1 DEF ScoreInv, FlagsAreHeard, FlagIsHeard, FlagIsCurrent, Others, Stated
  <2> QED
    BY <2>1, <2>2, <2>3 DEF ScoreInv, RecordIsCurrent, SnapshotsDiffer
<1> QED
  BY <1>1, <1>2, MentionStep DEF ScoreNext

\* The conflicts, the reasons and the snapshots of an offering are those of its
\* row, for any documents and sources, in whatever order they speak
\* (scoring.py:141, pipeline.py:266).
THEOREM HistoryHolds == ScoreSpec => []HistoryIsTrue
<1>1. ScoreInit => ScoreInv
  <2> SUFFICES ASSUME ScoreInit PROVE ScoreInv
    OBVIOUS
  <2>1. ScoreTypes /\ Stated = {} /\ ~repeated /\ ~mentioned
    BY DEF ScoreInit, ScoreTypes, Stated, NoRow
  <2>2. Conflicts = 0
    <3>1. {p \in Stated : prov[p].conflict} = {}
      BY <2>1
    <3> QED
      BY <3>1, FS_EmptySet DEF Conflicts
  <2>3. last = Current
    BY <2>2 DEF ScoreInit, Current
  <2>4. last \in Scores
    BY <2>1, <2>3, CurrentIsTyped DEF ScoreIsTyped
  <2> QED
    BY <2>1, <2>4 DEF ScoreInv, FlagsAreHeard, RecordIsCurrent, SnapshotsDiffer
<1>2. ScoreInv => HistoryIsTrue
  BY FlagsAreReal, ReasonsAreComplete DEF ScoreInv, HistoryIsTrue
<1> QED
  BY <1>1, <1>2, ScoreStep, PTL DEF ScoreSpec
(* The publication. *)

\* What a run has of the dataset at each of its steps.
RunFits(r) ==
  /\ fetchFailures = 0 /\ job[r] \in Steps => branch.rows \subseteq data[r]
  /\ job[r] \in {"built", "persisted"} => data[r] # {}
  /\ job[r] = "persisted" => branch.rows = data[r]

\* One run is under way, and it has what the branch has.
PagesInv ==
  /\ job \in [Runs -> Steps \cup {"new", "done", "failed", "superseded"}]
  /\ data \in [Runs -> SUBSET Offerings] /\ current \subseteq Offerings
  /\ branch \in [exists : BOOLEAN, rows : SUBSET Offerings]
  /\ fetchFailures \in Nat
  /\ \A r, q \in Runs : job[r] \in Steps /\ job[q] \in Steps => r = q
  /\ \A r \in Runs : RunFits(r)
  /\ fetchFailures = 0 => site \subseteq branch.rows

LEMMA PagesStart == PagesInit => PagesInv
BY DEF PagesInit, PagesInv, RunFits, NoBranch, Steps

\* Of the runs only the one that moves changes.
LEMMA OthersStay ==
  ASSUME NEW r \in Runs, NEW from, NEW to, NEW rows, PagesInv, Moves(r, from, to, rows),
         NEW q \in Runs, q # r
  PROVE  job'[q] = job[q] /\ data'[q] = data[q]
BY DEF PagesInv, Moves

LEMMA MoverMoves ==
  ASSUME NEW r \in Runs, NEW from, NEW to, NEW rows, PagesInv, Moves(r, from, to, rows)
  PROVE  job[r] = from /\ job'[r] = to /\ data'[r] = rows
BY DEF PagesInv, Moves

\* What each step does to the tables, as far as the invariant goes.
LEMMA PagesMove ==
  ASSUME PagesInv, NEW r \in Runs, NEW from, NEW to \in Steps \cup {"done", "failed", "superseded"},
         NEW rows \in SUBSET Offerings, Moves(r, from, to, rows),
         to \in Steps => from \in Steps \/ Slot,
         branch' \in [exists : BOOLEAN, rows : SUBSET Offerings],
         branch'.rows = branch.rows \/ from \in Steps,
         fetchFailures' \in Nat, fetchFailures' = 0 => fetchFailures = 0,
         fetchFailures' = 0 => site' \subseteq branch'.rows,
         RunFits(r)'
  PROVE  PagesInv'
<1>1. job' \in [Runs -> Steps \cup {"new", "done", "failed", "superseded"}]
  BY DEF PagesInv, Moves
<1>2. data' \in [Runs -> SUBSET Offerings] /\ current' \subseteq Offerings
  BY DEF PagesInv, Moves
<1>3. \A x, y \in Runs : job'[x] \in Steps /\ job'[y] \in Steps => x = y
  BY OthersStay, MoverMoves DEF PagesInv, Slot
<1>4. ASSUME NEW q \in Runs PROVE RunFits(q)'
  <2>1. CASE q = r BY <2>1
  <2>2. CASE q # r
    <3>1. job'[q] = job[q] /\ data'[q] = data[q] BY <2>2, OthersStay
    <3>2. RunFits(q) BY DEF PagesInv
    <3>3. CASE job[q] \notin Steps BY <3>1, <3>3 DEF RunFits, Steps
    <3>4. CASE job[q] \in Steps
      <4>1. from \notin Steps BY <2>2, <3>4, MoverMoves DEF PagesInv
      <4>2. branch'.rows = branch.rows BY <4>1
      <4> QED BY <3>1, <3>2, <4>2 DEF RunFits
    <3> QED BY <3>3, <3>4
  <2> QED BY <2>1, <2>2
<1> QED BY <1>1, <1>2, <1>3, <1>4 DEF PagesInv

RunStep(r) ==
  \/ Restore(r) \/ Refresh(r) \/ BuildSite(r) \/ Persist(r) \/ Deploy(r)
  \/ Fail(r) \/ Superseded(r)

LEMMA RunStepKeeps ==
  ASSUME PagesInv, NEW r \in Runs, RunStep(r)
  PROVE  PagesInv'
<1>a. RunFits(r) /\ branch.rows \in SUBSET Offerings /\ data[r] \in SUBSET Offerings
    /\ branch \in [exists : BOOLEAN, rows : SUBSET Offerings] /\ fetchFailures \in Nat
  BY DEF PagesInv
<1>b. fetchFailures = 0 => site \subseteq branch.rows BY DEF PagesInv
<1>3. ASSUME Restore(r) PROVE PagesInv'
  <2>1. CASE Moves(r, "new", "restored", branch.rows) /\ UNCHANGED fetchFailures
    <3>1. RunFits(r)' BY <1>3, <2>1, MoverMoves DEF RunFits, Restore
    <3> QED BY <1>3, <1>a, <1>b, <2>1, <3>1, PagesMove DEF Restore, Steps
  <2>2. CASE Moves(r, "new", "restored", {}) /\ fetchFailures' = fetchFailures + 1
    <3>1. fetchFailures' # 0 /\ fetchFailures' \in Nat BY <1>a, <2>2
    <3>2. RunFits(r)' BY <1>3, <2>2, <3>1, MoverMoves DEF RunFits, Restore
    <3> QED BY <1>3, <1>a, <2>2, <3>1, <3>2, PagesMove DEF Restore, Steps
  <2> QED BY <1>3, <2>1, <2>2 DEF Restore
<1>4. ASSUME Refresh(r) PROVE PagesInv'
  <2>1. PICK fetched \in SUBSET current : Moves(r, "restored", "refreshed", data[r] \cup fetched)
    BY <1>4 DEF Refresh
  <2>2. data[r] \cup fetched \in SUBSET Offerings BY <1>a DEF PagesInv
  <2>3. RunFits(r)' BY <1>4, <1>a, <2>1, MoverMoves DEF RunFits, Refresh, Steps
  <2> QED BY <1>4, <1>a, <1>b, <2>1, <2>2, <2>3, PagesMove DEF Refresh, Steps
<1>5. ASSUME BuildSite(r) PROVE PagesInv'
  <2>1. RunFits(r)' BY <1>5, <1>a, MoverMoves DEF RunFits, BuildSite, Steps
  <2> QED BY <1>5, <1>a, <1>b, <2>1, PagesMove DEF BuildSite, Steps
<1>6. ASSUME Persist(r) PROVE PagesInv'
  <2>1. branch' \in [exists : BOOLEAN, rows : SUBSET Offerings] /\ branch'.rows = data[r]
    BY <1>6, <1>a DEF Persist
  <2>2. RunFits(r)' BY <1>6, <1>a, <2>1, MoverMoves DEF RunFits, Persist, Steps
  <2>3. fetchFailures' = 0 => site' \subseteq branch'.rows
    BY <1>6, <1>a, <1>b, <2>1, MoverMoves DEF RunFits, Persist, Steps
  <2> QED BY <1>6, <1>a, <2>1, <2>2, <2>3, PagesMove DEF Persist, Steps
<1>7. ASSUME Deploy(r) PROVE PagesInv'
  <2>1. RunFits(r)' BY <1>7, MoverMoves DEF RunFits, Deploy, Steps
  <2>2. site' \subseteq branch'.rows BY <1>7, <1>a, MoverMoves DEF RunFits, Deploy
  <2> QED BY <1>7, <1>a, <2>1, <2>2, PagesMove DEF Deploy, Steps
<1>8. ASSUME Fail(r) PROVE PagesInv'
  <2>1. PICK from \in Steps : Moves(r, from, "failed", {}) /\ UNCHANGED <<branch, site, fetchFailures>>
    BY <1>8 DEF Fail
  <2>2. RunFits(r)' BY <2>1, MoverMoves DEF RunFits, Steps
  <2>3. {} \in SUBSET Offerings /\ "failed" \notin Steps BY DEF Steps
  <2>4. /\ branch' \in [exists : BOOLEAN, rows : SUBSET Offerings] /\ branch'.rows = branch.rows
        /\ fetchFailures' \in Nat /\ (fetchFailures' = 0 => fetchFailures = 0)
        /\ (fetchFailures' = 0 => site' \subseteq branch'.rows)
    BY <1>a, <1>b, <2>1
  <2> QED BY <2>1, <2>2, <2>3, <2>4, PagesMove
<1>9. ASSUME Superseded(r) PROVE PagesInv'
  <2>1. Moves(r, "new", "superseded", {}) /\ UNCHANGED <<branch, site, fetchFailures>>
    BY <1>9 DEF Superseded
  <2>2. RunFits(r)' BY <2>1, MoverMoves DEF RunFits, Steps
  <2>3. {} \in SUBSET Offerings /\ "superseded" \notin Steps BY DEF Steps
  <2>4. /\ branch' \in [exists : BOOLEAN, rows : SUBSET Offerings] /\ branch'.rows = branch.rows
        /\ fetchFailures' \in Nat /\ (fetchFailures' = 0 => fetchFailures = 0)
        /\ (fetchFailures' = 0 => site' \subseteq branch'.rows)
    BY <1>a, <1>b, <2>1
  <2> QED BY <2>1, <2>2, <2>3, <2>4, PagesMove
<1> QED
  BY <1>3, <1>4, <1>5, <1>6, <1>7, <1>8, <1>9 DEF RunStep

LEMMA PagesStep == PagesInv /\ [PagesNext]_pagesVars => PagesInv'
<1> SUFFICES ASSUME PagesInv, [PagesNext]_pagesVars PROVE PagesInv' OBVIOUS
<1>1. CASE List BY <1>1 DEF List, PagesInv, RunFits
<1>2. CASE Unlist BY <1>2 DEF Unlist, PagesInv, RunFits
<1>3. CASE UNCHANGED pagesVars BY <1>3 DEF pagesVars, PagesInv, RunFits
<1>4. ASSUME NEW r \in Runs, RunStep(r) PROVE PagesInv' BY <1>4, RunStepKeeps
<1> QED BY <1>1, <1>2, <1>3, <1>4 DEF PagesNext, RunStep

\* In one step, too, nothing is taken away and no site is emptied.
LEMMA PagesKeep ==
  ASSUME PagesInv, [PagesNext]_pagesVars
  PROVE  /\ fetchFailures = 0 => branch.rows \subseteq branch'.rows /\ site \subseteq site'
         /\ site # {} => site' # {}
<1>1. CASE UNCHANGED <<branch, site>>
  BY <1>1
<1>2. ASSUME NEW r \in Runs, Persist(r)
      PROVE  site' = site /\ (fetchFailures = 0 => branch.rows \subseteq branch'.rows)
  BY <1>2, MoverMoves DEF Persist, PagesInv, RunFits, Steps
<1>3. ASSUME NEW r \in Runs, Deploy(r)
      PROVE  /\ branch' = branch /\ site' # {}
             /\ fetchFailures = 0 => site \subseteq site'
  BY <1>3, MoverMoves DEF Deploy, PagesInv, RunFits, Steps
<1>4. \/ UNCHANGED <<branch, site>>
      \/ \E r \in Runs : Persist(r) \/ Deploy(r)
  BY DEF PagesNext, pagesVars, List, Unlist, Restore, Refresh, BuildSite, Fail, Superseded
<1> QED
  BY <1>1, <1>2, <1>3, <1>4

\* The published site and its dataset survive failed, dropped and late runs, for
\* any offerings, and any number of runs and of failed fetches (pages.yml:4-13).
THEOREM SiteHolds == PagesSpec => SiteSurvives
<1>1. PagesSpec => []PagesInv
  BY PagesStart, PagesStep, PTL DEF PagesSpec
<1>2. PagesInv => SiteIsPersisted
  BY DEF PagesInv, SiteIsPersisted
<1>3. PagesInv /\ [PagesNext]_pagesVars =>
        [fetchFailures = 0 => branch.rows \subseteq branch'.rows /\ site \subseteq site']_pagesVars
  BY PagesKeep
<1>4. PagesInv /\ [PagesNext]_pagesVars => [site # {} => site' # {}]_pagesVars
  BY PagesKeep
<1> QED
  BY <1>1, <1>2, <1>3, <1>4, PTL DEF PagesSpec, SiteSurvives, NothingIsForgotten, NeverEmptied

-----------------------------------------------------------------------------
(* The pages: every row in one place, an issuer with one record, pages apart. *)

LEMMA LeastId ==
  ASSUME NEW S \in SUBSET Nat, S # {}
  PROVE  \E x \in S : \A y \in S : x <= y
<1> DEFINE R == OpToRel(<, Nat)
<1>1. IsWellFoundedOn(R, Nat)
  BY NatLessThanWellFounded
<1>2. \A x, y \in Nat : <<y, x>> \in R <=> y < x
  BY DEF OpToRel
<1> HIDE DEF R
<1>3. PICK x \in S : \A y \in S : ~(<<y, x>> \in R)
  BY <1>1, WFMin, Zenon
<1>4. ASSUME NEW y \in S PROVE x <= y
  <2>1. x \in Nat /\ y \in Nat /\ ~(<<y, x>> \in R)
    BY <1>3
  <2> QED
    BY <2>1, <1>2
<1> QED
  BY <1>4

\* What keys are made of.
Tokens == Nat \cup {Max(RowIds)}

RowTypes ==
  /\ table \in [RowIds -> Record]
  /\ richness \in [RowIds -> {0, 1}]
  /\ base \in [RowIds -> Seq(Tokens)]

LEMMA RowsAreNumbers == RowIds \subseteq Nat
  BY SiteAssumption

\* The best of the records of an issuer is kept.
LEMMA BestIsKept ==
  ASSUME RowTypes, NEW rows \in SUBSET RowIds, NEW r \in rows
  PROVE  \E x \in Kept(rows) : SameIssuer(x, r) /\ (x = r \/ Better(x, r))
<1>1. CASE r \in Kept(rows)
  BY <1>1 DEF SameIssuer
<1>2. CASE r \notin Kept(rows)
  <2> DEFINE B == {x \in rows : SameIssuer(x, r) /\ Better(x, r)}
             Rich == {x \in B : richness[x] = 1}
             Top == IF Rich # {} THEN Rich ELSE B
  <2>1. B # {} /\ issuerOf[r] # "nameless"
    BY <1>2 DEF Kept
  <2>2. B \in SUBSET Nat /\ B \subseteq RowIds
    BY RowsAreNumbers
  <2>3. Top \in SUBSET Nat /\ Top # {} /\ Top \subseteq B
    BY <2>1, <2>2
  <2>4. PICK x \in Top : \A y \in Top : x <= y
    <3> HIDE DEF Top
    <3> QED
      BY <2>3, LeastId
  <2>5. x \in rows /\ SameIssuer(x, r) /\ Better(x, r)
    BY <2>3, <2>4
  <2>6. ASSUME NEW y \in rows \ {x}, SameIssuer(y, x), Better(y, x)
        PROVE  FALSE
    <3>1. /\ {x, y, r} \subseteq Nat /\ {richness[x], richness[y], richness[r]} \subseteq {0, 1}
      BY <2>5, RowsAreNumbers DEF RowTypes
    <3>2. SameIssuer(y, r) /\ Better(y, r)
      BY <2>5, <2>6, <3>1 DEF SameIssuer, Better
    <3>3. y \in B
      BY <3>2, <2>6
    <3>4. y \in Top
      BY <3>1, <3>3, <2>4, <2>6 DEF Better
    <3>5. x <= y
      BY <2>4, <3>4
    <3>6. richness[x] = richness[y]
      BY <3>4, <2>4, <3>1, <2>6 DEF Better
    <3> QED
      BY <3>1, <3>5, <3>6, <2>6 DEF Better
  <2>7. x \in Kept(rows)
    BY <2>5, <2>6 DEF Kept
  <2> QED
    BY <2>5, <2>7
<1> QED
  BY <1>1, <1>2

LEMMA OneBest ==
  ASSUME RowTypes, NEW rows \in SUBSET RowIds, NEW x \in Kept(rows), NEW y \in Kept(rows),
         SameIssuer(x, y), issuerOf[x] # "nameless"
  PROVE  x = y
<1>1. x \in rows /\ y \in rows /\ ~(x # y /\ Better(x, y)) /\ ~(x # y /\ Better(y, x))
  BY DEF Kept, SameIssuer
<1>2. x \in Nat /\ y \in Nat /\ richness[x] \in {0, 1} /\ richness[y] \in {0, 1}
  BY <1>1, RowsAreNumbers DEF RowTypes
<1> QED
  BY <1>1, <1>2 DEF Better

LEMMA RowStatus ==
  ASSUME RowTypes, NEW r \in RowIds
  PROVE  /\ table[r].status \in Active \cup {"Withdrawn", "Listed", "NotIPO"}
         /\ table[r].age \in {"ahead", "young", "old", "unknown"}
BY DEF RowTypes, Record

\* A row is in one of six places.
LEMMA Placed == RowTypes => EveryRowHasItsPlace
<1> SUFFICES ASSUME RowTypes, NEW r \in RowIds
             PROVE  Cardinality({i \in 1..6 : r \in <<Upcoming, Withdrawn, History, OutOfWindow, Unparseable, Excluded>>[i]}) = 1
  BY DEF EveryRowHasItsPlace
<1> DEFINE places == <<Upcoming, Withdrawn, History, OutOfWindow, Unparseable, Excluded>>
           at == {i \in 1..6 : r \in places[i]}
<1>1. /\ Upcoming \subseteq StillUpcoming /\ StillUpcoming \subseteq Candidates
      /\ History \subseteq InWindow
  BY DEF Upcoming, StillUpcoming, History, Kept
<1>2. \E i \in 1..6 : at = {i}
  <2>1. CASE table[r].status \in Active
    <3>1. r \notin Withdrawn /\ r \notin InWindow /\ r \notin OutOfWindow /\ r \notin Unparseable
      BY <2>1 DEF Withdrawn, With, InWindow, OutOfWindow, Unparseable, Dated, Active
    <3>2. r \in Excluded <=> r \notin Upcoming
      BY <2>1, <1>1, <3>1 DEF Excluded, Candidates, StillUpcoming, With, Active
    <3>3. r \notin History
      BY <1>1, <3>1
    <3>4. at = IF r \in Upcoming THEN {1} ELSE {6}
      BY <3>1, <3>2, <3>3
    <3> QED
      BY <3>4
  <2>2. CASE table[r].status = "Withdrawn"
    <3>1. r \notin With(Active) /\ r \notin With({"NotIPO"}) /\ r \in Withdrawn
          /\ r \notin InWindow /\ r \notin OutOfWindow /\ r \notin Unparseable
      BY <2>2 DEF Withdrawn, With, InWindow, OutOfWindow, Unparseable, Dated, Active
    <3>2. r \notin Candidates /\ r \notin Excluded
      BY <3>1, <1>1 DEF Excluded, Candidates
    <3>3. r \notin History /\ r \notin Upcoming
      BY <1>1, <3>1, <3>2
    <3>4. at = {2}
      BY <3>1, <3>2, <3>3
    <3> QED
      BY <3>4
  <2>3. CASE table[r].status = "NotIPO"
    <3>1. r \notin With(Active) /\ r \in With({"NotIPO"}) /\ r \notin Withdrawn
          /\ r \notin InWindow /\ r \notin OutOfWindow /\ r \notin Unparseable
      BY <2>3 DEF Withdrawn, With, InWindow, OutOfWindow, Unparseable, Dated, Active
    <3>2. r \notin Candidates /\ r \in Excluded
      BY <3>1 DEF Excluded, Candidates
    <3>3. r \notin History /\ r \notin Upcoming
      BY <1>1, <3>1, <3>2
    <3>4. at = {6}
      BY <3>1, <3>2, <3>3
    <3> QED
      BY <3>4
  <2>4. CASE table[r].status = "Listed"
    <3>1. r \notin With(Active) /\ r \notin With({"NotIPO"}) /\ r \notin Withdrawn
      BY <2>4 DEF Withdrawn, With, Active
    <3>2. r \notin Candidates /\ r \notin Upcoming /\ r \notin StillUpcoming
      BY <3>1, <1>1 DEF Candidates
    <3>3. r \in Excluded <=> r \in InWindow /\ r \notin History
      BY <3>1, <3>2 DEF Excluded
    <3>4. CASE table[r].age = "young"
      <4>1. r \in InWindow /\ r \notin OutOfWindow /\ r \notin Unparseable
        BY <2>4, <3>4 DEF InWindow, OutOfWindow, Unparseable, Dated, With
      <4>2. at = IF r \in History THEN {3} ELSE {6}
        BY <3>1, <3>2, <3>3, <4>1
      <4> QED
        BY <4>2
    <3>5. CASE table[r].age \in {"old", "ahead"}
      <4>1. r \notin InWindow /\ r \in OutOfWindow /\ r \notin Unparseable /\ r \notin History
        BY <2>4, <3>5, <1>1 DEF InWindow, OutOfWindow, Unparseable, Dated, With
      <4>2. at = {4}
        BY <3>1, <3>2, <3>3, <4>1
      <4> QED
        BY <4>2
    <3>6. CASE table[r].age = "unknown"
      <4>1. r \notin InWindow /\ r \notin OutOfWindow /\ r \in Unparseable /\ r \notin History
        BY <2>4, <3>6, <1>1 DEF InWindow, OutOfWindow, Unparseable, Dated, With
      <4>2. at = {5}
        BY <3>1, <3>2, <3>3, <4>1
      <4> QED
        BY <4>2
    <3> QED
      BY <3>4, <3>5, <3>6, RowStatus
  <2> QED
    BY <2>1, <2>2, <2>3, <2>4, RowStatus
<1> HIDE DEF at
<1> QED
  <2>1. Cardinality(at) = 1
    BY <1>2, FS_Singleton
  <2> QED
    BY <2>1 DEF at

LEMMA OneRecord == RowTypes => OneRecordPerIssuer
<1> SUFFICES ASSUME RowTypes, NEW x \in RowIds, NEW y \in RowIds, x # y,
                    SameIssuer(x, y), issuerOf[x] # "nameless"
             PROVE  /\ {x, y} \cap Upcoming # {} => table[x].status # "Listed" \/ x \in Unparseable
                    /\ ~({x, y} \subseteq Upcoming \/ {x, y} \subseteq History)
  BY DEF OneRecordPerIssuer
<1>1. /\ Upcoming \subseteq StillUpcoming /\ StillUpcoming \subseteq With(Active)
      /\ StillUpcoming \in SUBSET RowIds /\ InWindow \in SUBSET RowIds
  BY DEF Upcoming, StillUpcoming, Kept, Candidates, With, InWindow, Dated
<1>2. ~({x, y} \subseteq Upcoming \/ {x, y} \subseteq History)
  <2>1. CASE x \in Upcoming /\ y \in Upcoming
    BY <2>1, <1>1, OneBest DEF Upcoming
  <2>2. CASE x \in History /\ y \in History
    BY <2>2, <1>1, OneBest DEF History
  <2> QED
    BY <2>1, <2>2
<1>3. ASSUME {x, y} \cap Upcoming # {}, table[x].status = "Listed", x \notin Unparseable
      PROVE  FALSE
  <2>1. x \in InWindow \cup OutOfWindow
    BY <1>3, RowStatus DEF InWindow, OutOfWindow, Unparseable, Dated, With
  <2>2. x \notin Upcoming
    BY <1>3, <1>1 DEF With, Active
  <2>3. y \in StillUpcoming
    BY <1>3, <2>2, <1>1
  <2> QED
    BY <2>1, <2>3 DEF StillUpcoming, ListedAlready
<1> QED
  BY <1>2, <1>3

LEMMA SomeStay == RowTypes => SomeRecordStays
<1> SUFFICES ASSUME RowTypes, NEW r \in StillUpcoming \cup InWindow
             PROVE  \E x \in Upcoming \cup History : SameIssuer(x, r) /\ (x = r \/ Better(x, r))
  BY DEF SomeRecordStays
<1>1. StillUpcoming \in SUBSET RowIds /\ InWindow \in SUBSET RowIds
  BY DEF StillUpcoming, Candidates, With, InWindow, Dated
<1>2. CASE r \in StillUpcoming
  BY <1>1, <1>2, BestIsKept DEF Upcoming
<1>3. CASE r \in InWindow
  BY <1>1, <1>3, BestIsKept DEF History
<1> QED
  BY <1>2, <1>3

\* Keys with one more token are told apart by the key and the token.
LEMMA OneMore ==
  ASSUME NEW S, NEW s \in Seq(S), NEW t \in Seq(S), NEW x, NEW y
  PROVE  /\ Append(s, x) # s
         /\ Append(s, x) = Append(t, y) => s = t /\ x = y
<1>1. Len(Append(s, x)) = Len(s) + 1 /\ Len(Append(t, y)) = Len(t) + 1
      /\ Len(s) \in Nat /\ Len(t) \in Nat
  OBVIOUS
<1>2. Append(s, x) # s
  BY <1>1
<1>3. ASSUME Append(s, x) = Append(t, y) PROVE s = t /\ x = y
  <2>1. Len(s) = Len(t)
    BY <1>1, <1>3
  <2>2. Append(s, x)[Len(s) + 1] = x /\ Append(t, y)[Len(t) + 1] = y
    OBVIOUS
  <2>3. \A i \in 1..Len(s) : s[i] = t[i]
    <3> TAKE i \in 1..Len(s)
    <3>1. Append(s, x)[i] = s[i] /\ Append(t, y)[i] = t[i]
      BY <2>1
    <3> QED
      BY <3>1, <1>3
  <2> QED
    BY <2>1, <2>2, <2>3, <1>3
<1> QED
  BY <1>2, <1>3

LEMMA Apart == RowTypes => PagesAreApart
<1> SUFFICES ASSUME RowTypes, NEW x \in Published, NEW y \in Published, x # y, Slug(x) = Slug(y)
             PROVE  base[x] # base[y] /\ (base[x] = Append(base[y], y) \/ base[y] = Append(base[x], x))
  BY DEF PagesAreApart
<1>1. Published \subseteq RowIds
  BY DEF Published, Upcoming, Withdrawn, History, Kept, StillUpcoming, Candidates, With, InWindow, Dated
<1>2. base[x] \in Seq(Tokens) /\ base[y] \in Seq(Tokens) /\ x \in Nat /\ y \in Nat
  BY <1>1, RowsAreNumbers DEF RowTypes
<1>3. /\ Slug(x) = base[x] \/ Slug(x) = Append(base[x], x)
      /\ Slug(y) = base[y] \/ Slug(y) = Append(base[y], y)
  BY DEF Slug
<1>4. ~(Slug(x) = Append(base[x], x) /\ Slug(y) = Append(base[y], y))
  BY <1>2, OneMore
<1>5. base[x] # base[y]
  <2>1. SUFFICES ASSUME base[x] = base[y] PROVE FALSE
    OBVIOUS
  <2>2. CASE x < y
    <3>1. Slug(y) = Append(base[y], y)
      BY <2>1, <2>2 DEF Slug
    <3>2. Slug(x) = base[x]
      BY <3>1, <1>3, <1>4
    <3>3. Append(base[y], y) # base[y]
      BY <1>2, OneMore
    <3> QED
      BY <3>1, <3>2, <3>3, <2>1
  <2>3. CASE y < x
    <3>1. Slug(x) = Append(base[x], x)
      BY <2>1, <2>3 DEF Slug
    <3>2. Slug(y) = base[y]
      BY <3>1, <1>3, <1>4
    <3>3. Append(base[x], x) # base[x]
      BY <1>2, OneMore
    <3> QED
      BY <3>1, <3>2, <3>3, <2>1
  <2> QED
    BY <2>2, <2>3, <1>2
<1> QED
  BY <1>3, <1>4, <1>5

LEMMA RowsInitial == SiteInit => RowTypes
<1> SUFFICES ASSUME SiteInit PROVE RowTypes
  OBVIOUS
<1>1. table \in [RowIds -> Record]
  <2>1. PICK s \in {"Filed", "Closed", "NotIPO"} :
          table = [r \in RowIds |-> [status |-> s, age |-> "young", flagged |-> FALSE]]
    BY DEF SiteInit
  <2>2. [status |-> s, age |-> "young", flagged |-> FALSE] \in Record
    BY DEF Record, Active
  <2> QED
    BY <2>1, <2>2
<1>2. richness \in [RowIds -> {0, 1}]
  BY DEF SiteInit
<1>3. base \in [RowIds -> Seq(Tokens)]
  <2>1. <<0>> \in Seq(Tokens) /\ <<0, Max(RowIds)>> \in Seq(Tokens)
        /\ \A r \in RowIds : <<r>> \in Seq(Tokens)
    BY RowsAreNumbers DEF Tokens
  <2>2. \/ base = [r \in RowIds |-> <<0>>] \/ base = [r \in RowIds |-> <<r>>]
        \/ base = [r \in RowIds |-> IF r = Min(RowIds) THEN <<0, Max(RowIds)>> ELSE <<0>>]
    BY DEF SiteInit
  <2> QED
    BY <2>1, <2>2
<1> QED
  BY <1>1, <1>2, <1>3 DEF RowTypes

LEMMA RowsStep == RowTypes /\ [SiteNext]_siteVars => RowTypes'
<1> SUFFICES ASSUME RowTypes, [SiteNext]_siteVars PROVE RowTypes'
  OBVIOUS
<1>1. CASE UNCHANGED siteVars
  BY <1>1 DEF siteVars, RowTypes
<1>2. ASSUME NEW r \in RowIds, RowMoves(r) \/ RowAges(r) \/ RowFlagged(r) PROVE RowTypes'
  <2>1. richness' = richness /\ base' = base
    BY <1>2 DEF RowMoves, RowAges, RowFlagged, Becomes
  <2>2. CASE RowMoves(r)
    <3>1. PICK s \in {"Priced", "Withdrawn", "Listed", "NotIPO"}, a \in {"ahead", "young", "unknown"} : Becomes(r, s, a)
      BY <2>2 DEF RowMoves
    <3>2. [status |-> s, age |-> a, flagged |-> FALSE] \in Record
      BY DEF Record, Active
    <3> QED
      BY <2>1, <3>1, <3>2 DEF Becomes, RowTypes
  <2>3. CASE RowAges(r)
    <3>1. PICK a \in {"young", "old"} : table' = [table EXCEPT ![r].age = a]
      BY <2>3 DEF RowAges
    <3>2. [table[r] EXCEPT !.age = a] \in Record
      BY DEF RowTypes, Record
    <3> QED
      BY <2>1, <3>1, <3>2 DEF RowTypes
  <2>4. CASE RowFlagged(r)
    <3>1. table' = [table EXCEPT ![r].flagged = TRUE]
      BY <2>4 DEF RowFlagged
    <3>2. [table[r] EXCEPT !.flagged = TRUE] \in Record
      BY DEF RowTypes, Record
    <3> QED
      BY <2>1, <3>1, <3>2 DEF RowTypes
  <2> QED
    BY <1>2, <2>2, <2>3, <2>4
<1> QED
  BY <1>1, <1>2 DEF SiteNext

\* What the site says of the rows and where, for any rows, issuers and keys:
\* every row has its place, an issuer is upcoming or listed once and by its best
\* record, and no two pages share an address but where a key ends in a number.
THEOREM SiteTellsAll == SiteSpec => []SiteIsComplete
<1>1. RowTypes => SiteIsComplete
  BY Placed, OneRecord, SomeStay, Apart DEF SiteIsComplete
<1> QED
  BY <1>1, RowsInitial, RowsStep, PTL DEF SiteSpec
=============================================================================

---------------------------- MODULE SourceHealth ----------------------------
(***************************************************************************)
(* What the published site says of the health of its sources: the runs the *)
(* passes of scripts/refresh_data.py record in one job after another, and  *)
(* the statuses scripts/build_pages.py derives from the latest of them.    *)
(* The feeds of every refresh come first, in the order of refresh_all,     *)
(* then the licensed one, then the daily reports.                          *)
(***************************************************************************)
EXTENDS Integers

CONSTANTS
  Frequent,       \* number of feeds of every refresh
  Configured,     \* secondary_enrichment_url is set
  FreshFor,       \* hours: 4
  DailyFreshFor,  \* hours, of the daily reports: 30
  DelayedFor,     \* hours: 48
  LastHour,       \* bound
  MaxJobs         \* bound

ASSUME HealthAssumption ==
  /\ Frequent \in Nat /\ Configured \in BOOLEAN /\ {LastHour, MaxJobs} \subseteq Nat
  /\ {FreshFor, DailyFreshFor, DelayedFor} \subseteq Nat
  /\ FreshFor <= DailyFreshFor /\ DailyFreshFor <= DelayedFor

Licensed == Frequent + 1
Daily == Frequent + 2
Feeds == 1..Daily
Required == Feeds \ {Licensed}

Outcomes == {"ok", "partial", "error"}
NeverRun == [status |-> "never run", started |-> 0]
NoBook == [run |-> [f \in Feeds |-> NeverRun], read |-> [f \in Feeds |-> 0]]

VARIABLES
  hourNow,
  jobs,      \* started
  jobStage,  \* of the job: "idle", "refresh", "pass" or "build"
  turn,      \* the feed whose turn it is
  full,      \* FULL_REFRESH
  book,      \* data/ipo.db of the job: each feed's latest run, when it was last read
  saved,     \* data/ipo.db of the data-state branch
  sitePage   \* the site: its statuses, the book and the hour it was built from

healthVars == <<hourNow, jobs, jobStage, turn, full, book, saved, sitePage>>

Severity == [LIVE |-> 0, OPTIONAL_UNCONFIGURED |-> 0, DELAYED |-> 1, PARTIAL |-> 2,
             STALE |-> 3, FAILED |-> 4]

\* The daily reports are fresh for longer.
FreshHours(f) == IF f = Daily THEN DailyFreshFor ELSE FreshFor

\* Mutant: an error is looked for in the runs that are no longer fresh only.
StatusAtLate(latest, f, h) ==
  CASE latest = NeverRun /\ f = Licensed /\ ~Configured -> "OPTIONAL_UNCONFIGURED"
    [] latest = NeverRun /\ ~(f = Licensed /\ ~Configured) -> "FAILED"
    [] latest # NeverRun /\ h - latest.started <= FreshHours(f) -> "LIVE"
    [] latest # NeverRun /\ h - latest.started > FreshHours(f) /\ latest.status = "error" -> "FAILED"
    [] latest # NeverRun /\ h - latest.started > FreshHours(f) /\ latest.status = "partial" -> "PARTIAL"
    [] OTHER -> IF h - latest.started <= DelayedFor THEN "DELAYED" ELSE "STALE"

\* source_status: errors and warnings count whatever their age, a run that is
\* still open counts by its age alone.
StatusAt(latest, f, h) ==
  CASE latest.status = "never run" ->
         IF f = Licensed /\ ~Configured THEN "OPTIONAL_UNCONFIGURED" ELSE "FAILED"
    [] latest.status = "error" -> "FAILED"
    [] latest.status = "partial" -> "PARTIAL"
    [] latest.status \in {"ok", "running"} ->
         IF h - latest.started <= FreshHours(f) THEN "LIVE"
         ELSE IF h - latest.started <= DelayedFor THEN "DELAYED"
         ELSE "STALE"

\* pipeline_status: the required feeds that are worst off.
Worst(shown) ==
  {f \in Required : \A g \in Required : Severity[shown[g]] <= Severity[shown[f]]}

\* The page of a book built at an hour.
PageOf(b, h) ==
  LET shown == [f \in Feeds |-> StatusAt(b.run[f], f, h)]
  IN [shown |-> shown, overall |-> shown[CHOOSE f \in Worst(shown) : TRUE],
      book |-> b, hour |-> h]

HealthInit ==
  /\ hourNow = 0 /\ jobs = 0 /\ jobStage = "idle" /\ turn = 1 /\ full = FALSE
  /\ book = NoBook /\ saved = NoBook /\ sitePage = PageOf(NoBook, 0)

HourPasses ==
  /\ hourNow < LastHour /\ hourNow' = hourNow + 1
  /\ UNCHANGED <<jobs, jobStage, turn, full, book, saved, sitePage>>

\* A job restores the dataset (PagesPublish has the fetch that fails).
StartJob ==
  /\ jobs < MaxJobs /\ jobs' = jobs + 1
  /\ jobStage = "idle" /\ jobStage' = "refresh" /\ turn' = 1
  /\ full' \in BOOLEAN /\ book' = saved
  /\ UNCHANGED <<hourNow, saved, sitePage>>

Due(f) == (f = Licensed => Configured) /\ (f = Daily => full)

\* The pass commits its run before it asks the source anything.
OpenRun ==
  /\ jobStage = "refresh" /\ turn \in Feeds /\ Due(turn) /\ jobStage' = "pass"
  /\ book' = [book EXCEPT !.run[turn] = [status |-> "running", started |-> hourNow]]
  /\ UNCHANGED <<hourNow, jobs, turn, full, saved, sitePage>>

SkipFeed ==
  /\ jobStage = "refresh" /\ turn \in Feeds /\ ~Due(turn) /\ turn' = turn + 1
  /\ UNCHANGED <<hourNow, jobs, jobStage, full, book, saved, sitePage>>

\* Mutant: _fail lacks its rollback, and what the pass had read is kept.
CloseRunAsOk ==
  /\ jobStage = "pass" /\ jobStage' = "refresh" /\ turn' = turn + 1
  /\ \E o \in Outcomes :
       book' = [book EXCEPT !.run[turn].status = IF o = "error" THEN "ok" ELSE o,
                            !.read[turn] = IF o = "error" THEN @ ELSE hourNow]
  /\ UNCHANGED <<hourNow, jobs, full, saved, sitePage>>

\* _finish, without or with warnings, and _fail, whose rollback leaves what
\* earlier passes read.
CloseRun ==
  /\ jobStage = "pass" /\ jobStage' = "refresh" /\ turn' = turn + 1
  /\ \E o \in Outcomes :
       book' = [book EXCEPT !.run[turn].status = o,
                            !.read[turn] = IF o = "error" THEN @ ELSE hourNow]
  /\ UNCHANGED <<hourNow, jobs, full, saved, sitePage>>

\* The refresh is over, raises outside a pass, or is killed, a run left open:
\* the step is marked continue-on-error and the site is built all the same.
RefreshEnds ==
  /\ jobStage \in {"refresh", "pass"} /\ jobStage' = "build"
  /\ UNCHANGED <<hourNow, jobs, turn, full, book, saved, sitePage>>

\* Mutant: the site is deployed although the dataset was not persisted.
PublishFirst ==
  /\ jobStage = "build" /\ jobStage' = "idle" /\ turn' = 1 /\ full' = FALSE /\ book' = NoBook
  /\ \/ UNCHANGED <<saved, sitePage>>
     \/ saved' = book /\ UNCHANGED sitePage
     \/ sitePage' = PageOf(book, hourNow) /\ UNCHANGED saved
  /\ UNCHANGED <<hourNow, jobs>>

\* Built, persisted and deployed; the job may fail before either.  Its runner
\* goes with it.
Publish ==
  /\ jobStage = "build" /\ jobStage' = "idle" /\ turn' = 1 /\ full' = FALSE /\ book' = NoBook
  /\ \/ UNCHANGED <<saved, sitePage>>
     \/ saved' = book /\ UNCHANGED sitePage
     \/ saved' = book /\ sitePage' = PageOf(book, hourNow)
  /\ UNCHANGED <<hourNow, jobs>>

HealthNext ==
  HourPasses \/ StartJob \/ OpenRun \/ SkipFeed \/ CloseRun \/ RefreshEnds \/ Publish
HealthSpec == HealthInit /\ [][HealthNext]_healthVars

-----------------------------------------------------------------------------
Behind(f) == sitePage.hour - sitePage.book.read[f]
Age(f) == sitePage.hour - sitePage.book.run[f].started
CutOff(f) == sitePage.book.run[f].status = "running"

\* "LIVE / DELAYED / STALE ... per source based on the real last-successful-run
\* timestamp" (docs/GITHUB_PAGES.md:185).  Not so when a pass is killed midway:
\* its run stays "running", and source_status goes by when it was started.
FreshMeansRead ==
  \A f \in Feeds :
    /\ sitePage.shown[f] = "LIVE" => Behind(f) <= FreshHours(f)
    /\ sitePage.shown[f] = "DELAYED" => Behind(f) <= DelayedFor

\* What the statuses do say: the latest run of a feed was started that long ago,
\* and if it came to its end the source was read since.
FreshnessIsTrue ==
  \A f \in Feeds :
    /\ sitePage.shown[f] = "LIVE" =>
         Age(f) <= FreshHours(f) /\ (CutOff(f) \/ Behind(f) <= Age(f))
    /\ sitePage.shown[f] = "DELAYED" =>
         Age(f) \in FreshHours(f) + 1..DelayedFor /\ (CutOff(f) \/ Behind(f) <= Age(f))
    /\ sitePage.shown[f] = "STALE" => Age(f) > DelayedFor

\* "worst status among the REQUIRED sources" (docs/GITHUB_PAGES.md:62).
OverallIsWorst ==
  /\ sitePage.overall = "LIVE" => \A f \in Required : sitePage.shown[f] = "LIVE"
  /\ \A f \in Required : sitePage.shown[f] = "FAILED" => sitePage.overall = "FAILED"

\* A later site goes by later runs of a feed, or by the run the earlier one
\* knew, which only looks worse with time: no job that is lost before it deploys
\* takes the site back.
SitesMoveForward ==
  sitePage' # sitePage =>
    \A f \in Feeds :
      LET before == sitePage.book.run[f]  after == sitePage'.book.run[f]
      IN /\ after = before => Severity[sitePage'.shown[f]] >= Severity[sitePage.shown[f]]
         /\ after.started >= before.started

HealthIsTrue ==
  [](FreshnessIsTrue /\ OverallIsWorst) /\ [][SitesMoveForward]_healthVars
=============================================================================

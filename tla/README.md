# IPO Intelligence: TLA+ models and proofs

IPO Intelligence is a FastAPI web process, a single-threaded worker process and
a PostgreSQL database.  The web process takes waitlist sign-ups, lets invited
leads in and serves a dashboard of scored IPOs; the worker ingests IPOs from
public sources, scores them, refreshes market performance, grades predictions,
and delivers e-mail and a Google Sheets mirror of the waitlist from outbox
tables.  Beside them a GitHub workflow refreshes a dataset of its own and
publishes a static site from it, and operators deploy, back up and run backfill
scripts.  The processes share nothing but a database, and every operation is a
database transaction (or several): almost everything that is hard about this
program is what one transaction reads, what another commits meanwhile, and what
is left when it dies.

This directory models those parts in TLA+, checks the models with TLC on small
instances, and proves the most important results with TLAPS for all instances.

## 1. Inventory

| Component | State | Operations | Interacts with | Hard because |
|---|---|---|---|---|
| E-mail queue (`services/email_queue.py`) | `email_messages` | `enqueue`, `process_queue` | web handlers and the alert pass enqueue; worker and admin endpoint process; providers; webhooks | external effect inside a transaction, concurrent passes, crash, quota, backoff |
| E-mail providers (`services/email_provider.py`) | none | `send` of four transports | queue | lost answers, retries inside `send` |
| Provider webhooks (`services/webhooks.py`) | rows of the queue, suppression of leads | `handle_event` | queue | reordered, late, repeated events |
| Alert queueing (`services/alerts.py`) | none of its own | `send_pending` | score snapshots, queue | one transaction over many inserts that may roll back |
| Weekly digest (`services/newsletter.py`) | `last_digest_at` | `queue_weekly_digests` | queue | two clocks that must agree |
| Waitlist and preferences (`main.py`) | `waitlist_leads` | sign up, return, unsubscribe, preferences | queue, sheets outbox, Clerk | several commits per request |
| Sheets outbox (`services/sheets_sync.py`) | `sheets_sync_outbox` | `enqueue`, `process_outbox`, `retry_failed` | worker, admin endpoint, Google Sheets | at-least-once append, bounded window, lost updates |
| Worker loop (`worker.py`, `services/heartbeat.py`) | `worker_heartbeat`, the cycle | cycles, polls, shutdown | everything above | failure of one job beside the success of another |
| Ingestion pipeline (`services/pipeline.py`, `identity.py`) | `ipos`, `score_snapshots`, `source_provenance`, `ingestion_runs` | `upsert_ipo`, the passes, `reconcile_lifecycle`, `resolve_india_symbols`, `refresh_all` | worker, admin endpoint, workflow | status must not regress, two refreshes at once, order of documents |
| Source adapters (`sec.py`, `nse.py`, `nse_master.py`, `market_regime.py`) | caches in memory | fetch and classify | pipeline | stale caches, identity over time |
| Prediction outcomes (`services/outcomes.py`, `forward_grading.py`) | `prediction_outcomes` | `sync_prediction_outcomes` | snapshots, performance | grading once, of the right horizon |
| NSE bhavcopy store (`services/nse_bhavcopy.py`) | `price_bars`, ledger of days | `ingest_days`, `backfill_new_listings`, `prune_bars` | performance | missing days, pruning |
| Performance refresh (`services/performance.py`) | `performance_snapshots` | `refresh_one`, `refresh_many` | bars, market source | bounded selection, retry |
| Rate limiter (`services/ratelimit.py`) | buckets in memory | `hit`, `clear` | web threads | unsynchronised threads, sweep |
| Beta access (`services/auth.py`, `clerk_auth.py`, handlers) | login tokens, sessions, access status | create, redeem, invite, disable, revoke | web threads | single use, order of legal calls |
| Scoring (`scoring.py`), red flags, contradictions | a row's score, conflicts, snapshots | score, flag, record | pipeline | floating point, order of documents |
| Filing extraction (`xbrl_financials.py` and others) | figures and observations of a row | pick, store | backfills | restatements, what was known when |
| Model evaluation (`model_eval.py`, `walkforward.py`) | none | dataset, folds, metrics, gate | observations | look-ahead |
| Deployment (`deploy.sh`, `rollback.sh`, `_lock.sh`) | working tree, images, lock directory | deploy, roll back | operator | partial failure, stale locks |
| Backups (`backup_loop.sh`, `backup_postgres.py`) | dump files | dump, rename, prune | operator | kills at every step |
| Static publication (`pages.yml`, `refresh_data.py`, `build_pages.py`) | data branch, site | restore, refresh, build, persist, deploy | GitHub | late, dropped and failed runs |
| Maintenance scripts (`scripts/backfill_*`, `repair_*`, `build_rhp_cache.py`) | cursors, flags, state files | bounded resumable passes | rows of `ipos` | kills, starvation, tools that undo each other |
| E-mail templates, UI, migrations | none, or generated | | | not modelled |

`PROJECT.json` lists the components with the extent to which each is modelled,
and the hazards of this code line by line with the properties that would catch
them.

## 2. The modules

| Module | Models |
|---|---|
| `EmailQueue` | the queue table, leads, processors' sessions and the provider |
| `EmailDelivery` | what the queue promises about one message, abstractly |
| `EmailConsent` | `EmailQueue` with the history of who was opted out since when |
| `EmailWebhooks` | `EmailQueue` beside the provider's events |
| `AlertQueueing` | the worker's alert pass and `enqueue`'s rollback |
| `WeeklyDigest` | the digest pass: due by elapsed days, keyed by ISO week |
| `SheetsOutbox` | the outbox table, the worker's pass, the admin's retry, the spreadsheet |
| `SignUp` | sign-up requests, the Clerk webhook, and the rows a lead must have |
| `WorkerLoop` | cycles, polls, signals, restarts, the heartbeat row |
| `BetaAccess` | one lead's invitation, links, sessions and disables under two handlers that read, look up and commit apart |
| `RateLimiter` | `SlidingWindowLimiter.hit`, statement by statement, on threads |
| `IpoLifecycle` | the passes that write the status of a row, in sessions that may overlap |
| `PredictionLedger` | `IpoLifecycle` with the grading of its forward predictions |
| `EdgarFeed` | one US registrant: daily indexes, facts, filings, and its row |
| `SymbolResolution` | the symbol and ISIN of one Indian issuer against NSE's masters |
| `ScoreHistory` | conflicts between documents, confidence, and when a score is recorded |
| `Comparatives` | which figures of SEC's companyfacts a row is given |
| `PointInTime` | which observations count as known at the listing |
| `ModelGate` | folds, metrics and the gate of the research model |
| `Bhavcopy` | the ledger of price files and the bars, with pruning |
| `PerformanceRefresh` | which listed rows a bounded performance pass takes |
| `BackfillWalk` | the resumable walk over EDGAR's days |
| `ListingRepair` | one priced row under the tools that judge and price it again |
| `BackfillPasses` | the bounded daily passes over rows |
| `RhpCache` | the pool of child processes that caches prospectus pages |
| `SourceHealth` | the runs of the feeds and what the site says of them |
| `SiteBuild` | which rows are published, in which list, at which address |
| `PagesPublish` | the workflow's jobs around the data branch |
| `DeployRollback` | the two scripts under their lock, with kills and failures |
| `Backups` | the two dump writers |
| `*Proofs` | theorems (section 5) |
| `MC*` | small instances for TLC |

The modules of one component are composed by `EXTENDS`: `EmailConsent` and
`EmailWebhooks` over `EmailQueue` (and both in `MCEmailEvents`),
`PredictionLedger` over `IpoLifecycle`.  Components that share no state are only
run side by side, see section 3.

### EmailQueue

A row is `row[m]` for a message `m`, that is, for a `(lead, template,
dedupe_key)` triple; status `"none"` stands for an absent row, which is how the
unique constraint appears.  `known`, `consented`, `suppressed` are the columns
of `waitlist_leads` that delivery reads.  `sentToday` stands for `sent_at >=
today_start` and `cooling` for a backoff that has not elapsed: time is only
`NewDay` and `BackoffOver`.

`sess[p]` is the open transaction of processor `p` inside `process_queue`: the
rows selected and not visited (`todo`), what was read of them when they were
selected (`seen`, `hot`), the last lead looked up (`loaded`, with its
attributes: the identity map is weak and keeps a lead only while the loop's
variable refers to it), and what the pass has decided and not committed
(`result`, `mailId`).  `written` are flushed rows, whose row locks the
transaction holds.  One iteration of the loop is `SkipBackoff`, `Withhold`,
`HoldForQuota`, or `BeginSend` followed by one of the provider's answers;
`FinishPass` is the commit and `Abort` everything that ends a pass without one:
kill, lost connection, exception, deadlock victim.  `Commit` overwrites only
the columns the session changed, as the ORM's UPDATE does under READ COMMITTED.

The provider is `Accepted`, `AnswerLost` (accepted, but the answer timed out),
`Unavailable`, `Refused` and `DisabledSend`; the Resend transport posts up to
`PostRetries` times inside one `send`.  `mails[m]` counts accepted mails, and the
history variable `lost[m]` those that no row will ever record.

Left out: the render-failure branch (it looks for a lead, IPO or snapshot that
was deleted, and no code deletes them); the monthly quota (the same check as
the daily one); a provider answer without a message id; the SQLite development
database (transactions there are serialized). A return to the waitlist does not
queue a second welcome mail: the row of the first one still exists, so its
`enqueue` is the rejected insert and changes nothing (`Rejoin`).  Welcome mails
are sent without consent on purpose (`msg.template != "welcome"` in the code);
only they have priority 0.

### EmailWebhooks

`fate[<<m, k>>]` is what became of the `k`-th accepted mail of `m` at the
provider.  Any event it may already have sent can be handled at any time, any
number of times.  `HookRead` and `HookWrite` are the two halves of
`handle_event` around which the worker's commit can fall; the endpoint is a
coroutine that never awaits between them, so one event is handled at a time.
An attribute that does not change is not written.

### AlertQueueing and WeeklyDigest

Alerts are records keyed like the unique constraint.  `inserted` holds the rows
flushed and not committed; `Enqueue` of an alert that is already in the table
empties it: that is the `db.rollback()` in `enqueue`.  `window` is history:
what the pass set out to do.  The verdict of `_material_kind` on a snapshot and
of the red-flag rules on an IPO are free choices.  `ENABLE_EMAIL` is on.  The
digest pass meets the same rollback if a lead that is due (seven days since the
last digest) has a digest of the same ISO week already, so the model keeps both
clocks: the cutoff judged when the pass began and the week of each stamp.

### SheetsOutbox

`status`, `attempts` and `born` are columns of an outbox row; `cooling` is a
backoff that has not elapsed.  `pass` is the open transaction of
`process_outbox`.  Unlike `process_queue` it flushes nothing before its commit
(`autoflush=False`), so it holds no lock while it calls the Sheets API:
`FinishPass` writes only the columns whose value differs from the one it read,
over whatever `retry_failed` has committed in the meantime.  `retry_failed`
itself is two steps, the select and the update by primary key.  `sheet[l]`
counts the lead's rows in the spreadsheet, and the history variables
`unrecorded` and `reopened` count the two ways a recorded row stops being the
only one.  Sheets is configured (without it a pass does nothing); the branch for
a lead that no longer exists is left out, because no code deletes leads.

### SignUp

A request runs the statements of `waitlist` one at a time: the lookup of the
lead, the insert with its own commit, the insert of the welcome mail, the
lookup and the insert of the outbox row, the commit.  The Clerk webhook runs
`sync_identity` and the same outbox `enqueue` beside it; the server is one
process, and the webhook is a coroutine that blocks it, so `hook` is one event
at a time.  `InFlight` is how PostgreSQL serializes inserts with one unique key:
the second waits, and fails if the first commits.  `lead[e]` keeps who created
the row.  `Crash` kills every open handler.

### WorkerLoop

`at` is the job the process is in.  A job ends or raises; `main` catches what a
cycle raises, and every beat of the heartbeat is written through a session that
may be lost with the failure it should report (`obscured`).  `cycle` counts
modulo the number of cycles in a day, as the code's `% 4` and `% 96` only look
at that.  A signal sets a flag that only the loop's checkpoints read: between the
jobs of `run_once` nobody looks at it, and `late` collects what is begun after it.

### BetaAccess and RateLimiter

A handler of `BetaAccess` reads the lead, the link or the session in one step
and commits in another, and its UPDATE holds only the columns it changed in the
row it had read: that is how two handlers can undo one another.  A disable (and a
logout) has a third step between the two, the SELECT of the sessions it will
revoke (`FindSessions`); what is opened after it is not among them, and `old` is
the sessions a disable had found.  `RateLimiter` follows `hit` on threads that
share a dictionary without a lock, with at most one call on a shared object in a
step: the get, the insertion and the move to the end; the sweep's iteration, key
by key, and its deletions; each expired hit, the test, the append; each test of
the size and each eviction.  A key that is gone raises KeyError and an iteration
under which the dictionary has changed (`torn`) RuntimeError; either ends the call.
Its histories are the accepted hits, the clients that were evicted (`evicted`)
or whose calls raced (`raced`), and the buckets whose calls died in their trim
(`untrimmed`).

### IpoLifecycle and PredictionLedger

Every ingestion pass has one shape: load rows into a session, talk to a source,
decide by what was loaded, commit the columns that changed.  `sess` holds the
loaded rows, so a pass of another session can commit in between; `overlapped`
records that two sessions have had a pass open at once.  `Rank` is the order of
statuses of `identity.py`; three writers (the history, the masters and
`reconcile_lifecycle`) do not consult it.  `PredictionLedger` adds
`prediction_outcomes`, graded from the price windows that are observable.

### EdgarFeed, SymbolResolution, ScoreHistory, Comparatives

Each follows one row through what its sources say of it.  In `EdgarFeed` filings
are named by their day, and the quarter's listing is cached by the process as in
`sec.py`; in `SymbolResolution` shares list, split, change boards and give up
symbols, and the other issuer may bear the same canonical name; in
`ScoreHistory` documents state and restate one of three prices, of which only the
first and the last differ by more than the tolerance, and confidence is counted in
tenths of a percent as the rounded score shows it; in `Comparatives` reports
restate earlier fiscal years and the row reads them once.

### PointInTime and ModelGate

`PointInTime` is the dataset: every observation has the period it is about and
the day its document was filed, and `Feature` is what `model_eval.py` would take
as of the listing.  `ModelGate` is what is then done with it: rows by listing
year, predictions in percent, areas and gains in thousandths.

### Bhavcopy and PerformanceRefresh

A day's file is posted before or after the refresh of that day, and one commit
writes the ledger's day and its bars, or no bars if the file cannot be unpacked.
`unpruned` is history: the bars there would be without `prune_bars`; `lost` are the
days recorded as read whose bars were not all stored.  In `PerformanceRefresh` time is counted in
passes, and a row's place in the order is its age.

### The scripts

`BackfillWalk`, `ListingRepair`, `BackfillPasses` and `RhpCache` model scripts
that do a bounded amount of work, commit as they go, and are started again: what
they leave behind when killed is their only state.  In `BackfillPasses` a row may
fail (and be rolled back), or raise what the script does not catch, which ends the
run; in `RhpCache` a child may be killed, or failed by its own memory or disk, which
the script takes for a broken document.  `DeployRollback` knows a
revision by the number of its migrations; `compose up` rebuilds what it names
and what that depends on, runs the migrate service and starts web only if that
succeeded.  In `PagesPublish` a dataset is the set of offerings it holds.
`SourceHealth` has one clock in hours and the feeds in the order of
`refresh_all`.  `SiteBuild` evaluates the selection rules over every small table.

## 3. The runs

| Run | Instance | Shows |
|---|---|---|
| `queue_refines` | the worker, 3 messages of a lead, mail perhaps disabled at first, 1 fault | accounting of mails, daily limit, types; implements `EmailDelivery` |
| `events` | worker and admin over a welcome mail and an alert of one lead; and passes that do not overlap beside webhooks, up to 3 mails, 2 faults | opting out binds later passes, receipts are real, one sender per row, events never misstate a mail's outcome |
| `service` | the worker's queue with 4 waiting rows and a window of 3; two handlers on one lead's access; three rows of the site | the backlog drains, access is granted only by what grants it, the site is complete |
| `worker` | the outbox (2 leads, 4 faults, 1 retry), the alert pass (3 snapshots, 2 in reach), the digest (nearly 3 weeks), the loop, the backfill passes (4 rows) | accounting and mirroring of leads, alerts are queued, digests do not collide, the loop goes on, every row is tried |
| `pipeline` | an Indian IPO, one that turns out to be none, a US one; worker and one admin refresh, 1 failing pass; 3 rows under performance passes of 1, 2 failures; samples of 4 listings in two-day years; 2 reports of 3 months | statuses never go back, one outcome per issue, predictions are judged in the end; rows are served as far as there are places; the evaluation is honest; a row's figures agree |
| `safety` | fourteen components, each on an instance of its own (see `safety.cfg`) | the safety properties of sign-ups, the limiter, deployment, backups, publication, backfills, EDGAR, scores, dataset, symbols, prices and health |
| `queue_two_mails`, `alerts_dropped`, `edgar_cached`, `outcomes_frozen`, `rollback_down`, `health_cut_off` | small instances of the same models | the disagreements of section 6 |

*Instances side by side.*  `MCService`, `MCWorker`, `MCPredictionLedger`, `MCSafety`
and `MCEmailEvents` hold several components that share no variable.  A variable
`scope`, chosen at first and never changed, names the one a behaviour is about;
the others stay in their initial states.  The state space is the sum of the
components', and every property is checked of the behaviours in which its
component moves.  Where the initial states of a component that does not move are
many, the MC module fixes one of them for the other scopes.

*Bounds.*  Every `Max...` constant and every last day or hour caps faults,
outside events or the clock, never the program's own work.  They are chosen so
that the interesting case occurs and one more than it: two processors, handlers,
threads or sessions, because every guard concerns one party and another; two
attempts, for a first, a last and a forbidden third; a daily limit of one mail,
exceeded by a second; windows one smaller than the backlog; four outbox faults,
which reach the third attempt that a retry in the middle of a pass allows; two
snapshots within reach of three, so that one leaves; a digest clock of two weeks
and three quarters, for a digest in each of three ISO weeks; two symbols over
three days, enough for a symbol to be given up and taken over; three
revisions, so that a rollback can go past a migration and a failed deploy can
fall back on one that works; three documents of two sources, two of which agree; a
limiter with room for one client and one hit, so that a second is always too many;
one place in a performance pass, three passes until a snapshot is stale and three
rows, one of which may have ended and asks for the place every time; two
reports, for a print and its restatement.  `service.cfg` starts the queue from a
backlog, a reachable state, to keep the window's order in view.

*Symmetry* is used in `queue_refines` (two alerts that differ in nothing) and in
`events` and `queue_two_mails` (processors), where no liveness is checked.

*Fairness.*  The worker's loop returns to both outbox tables every
`EMAIL_POLL_SECONDS` whatever a refresh cycle does (exceptions are caught in
`main`), and every provider and Sheets call has a timeout: hence weak fairness of
a pass's steps.  Clocks advance: `BackoffOver`, `NewDay`.  The loop's own steps
and the restart by the container engine (`restart: unless-stopped`) are fair, and
so are the worker's refreshes in `PredictionLedger`, the performance passes and
the daily backfills, which the schedule repeats.  No fairness is assumed of the
admin endpoints' use, of a provider's or a source's success, of any lead, or of
a file being posted.  Liveness properties excuse what the code gives up by
design: a row with as many faults as attempts, stuck rows that fill a window.

## 4. What is checked

*Mail.*  `ReceiptIsReal`, `OneSenderPerRow`, `OptOutHolds` for concurrent passes.
`MailsAccountedFor`, `QuotaRespected`, `DeliverySpec`, `EventsAreKept` for passes
that do not overlap: they do not hold once the admin endpoint runs beside the
worker, section 6 shows the root of it.  `QuotaRespected` is stated without
webhooks: a row that becomes `DELAYED` or `BOUNCED` drops out of the day's count
by design of `_counts_since`.  `EventuallyMailed` under the fairness above.
`NewAlertsAreQueued`: a pass none of whose alerts is in the table queues all of
them.  `DigestsNeverCollide`: seven days after a digest it is another ISO week.

*Leads.*  `EveryLeadIsMirrored` and `SignUpsAloneAreWelcomed` when handlers do
not die: a process that dies between the two commits of a sign-up leaves a lead
without either row for good, and nothing in the program promises otherwise.
`AppendsAccountedFor`: a lead's spreadsheet row is duplicated only by an append
whose answer or whose pass was lost, or when a retry that had read the row as
FAILED overwrites the SYNCED a pass committed since.  `EventuallySynced`.
`AccessIsGranted`: a link opens one session unless two requests redeem it at once,
no session that a disable had found signs anybody in again, and only an enable, or
a handler that had read the lead before, readmits a disabled lead.
`LimiterIsFair`: the dictionary holds no more clients than `max_keys`, the calls
under way and those that died in their trim since it was last within its capacity;
no rejection without cause; no window over its budget unless the client was
evicted or its calls raced.

*The worker.*  `LoopKeepsRunning`: a worker told to stop begins no new cycle and no
e-mail poll, only the jobs left of its cycle or the sheets poll of its round; no
failure is hidden while it sleeps; and the loop goes on.  `EveryRowIsTried` for the
backfills, as long as rows that are stuck leave room in the window, and but for the
rows behind one that ends the run.

*Offerings.*  `StatusMovesForward` unless two refreshes overlapped;
`OneOutcome`: no forward prediction is added to an issue that has been graded (nor
claimed to be older than the listing); `PredictionsAreJudged`;
`RegistrantIsJudged`: a status has the filing that justifies it, listed days have
been read, and a document that is not read again was judged by what was read with
it; `IdentityIsExact`: what a pass writes
is of the row's own issuer and stays under the next pass; `HistoryIsTrue`:
a conflict flag has a disagreement behind it and a disagreement a flag, unless
prices between the two make it pass; confidence falls short exactly when a reason is
given, the peers and the regime apart; the last snapshot is the row's score;
`FiguresAgree`: the stored figures are of first prints and of one another's
fiscal year; `PredictsFromThePast`: the model sees of a row nothing filed after its
listing, and of the market nothing after it (the close of the day itself only
where the listing date was corrected to an earlier one); `EvaluationIsHonest`: a fold
learns from rows that listed before those it predicts, which is a promise about the
outcome of the listing day and none about that of twelve months; metrics agree with
their definitions; the gate does not close on better evidence.

*Prices.*  `BarsAreKept`: the bars of a day are stored before it leaves the window
but on days the ledger wrongly closes (section 6), listings get their bar, and
repeated pruning leaves the returns alone.  `RowsAreServed`: a row never attempted
is served in the end, and so is a stale or fruitless one as long as there are
places for all (`HasPlace`).

*Operations.*  `DeploysAreSafe`, `DumpsAreGood`, `SiteSurvives`, `SiteIsComplete`,
`WalkCloses`, `RepairsSettle`, each under kills at every step.  `CacheIsTrue`: an archive
is given up for what it is, but where the child's own memory or disk failed it.
`HealthIsTrue`: a status is the age of the feed's latest run, and, if that run came to
its end, the source was read since; that LIVE means read is `FreshMeansRead`, which
the run `health_cut_off` shows false.

Each property has a mutant beside the definition it changes (operators marked
"Mutant:"), a plausible slip in that code that makes TLC find it violated.

## 5. What is proved

Every safety invariant, action property and refinement that a passing run checks
is also a theorem, for every value of the constants that the named assumptions
allow (`ASSUME ...Assumption` in the module that declares the constants; most say
only that a number is a natural number or a set finite).  The proofs assume no
fairness.  Each argument is an inductive invariant: the property alone says
nothing of what an open session, a handler or a half-finished script still
holds, and a step that commits it could break the property.

**`EmailQueueProofs`** – any messages, leads, limits and delays.

| Theorem | Property | Argument |
|---|---|---|
| `TypeCorrect` | `TypeOK` | `TypeInv`: a QUEUED row has attempts left, and so had what a session selected or tried.  Without the second half the bound on attempts is not inductive: it is the session's reading that is committed. |
| `OneSender` | `OneSenderPerRow` | `Locks`: a row in the provider call is flushed by its session, and no two sessions have flushed one row. |
| `ReceiptsAreReal` | `ReceiptIsReal` | `Receipts`: a session that has decided SENT holds the id of a mail the provider accepted, before it commits it. |
| `OptOutBinds` | `OptOutHolds` | `Consent`, `Recalls`: what a pass remembers of a lead is no older than its start. |
| `MailsAccounted` | `MailsAccountedFor` | `SoloInv`: with one processor, whatever its pass has selected or decided is still QUEUED in the table. |
| `ImplementsDelivery` | `DeliverySpec` | the refinement: `SoloInv` makes every step one of `EmailDelivery` or a stutter. |
| `LimitHolds` | `QuotaRespected` | what is recorded for the day and what the pass has sent and not recorded stay together within the limit: `Quota`. |
| `EventsHold` | `EventsAreKept` | `HookInv`: `SoloInv` again, with the events that fit the mails they are about and the statuses that are true of them. |

The last four have the hypothesis that there is one processor.  It is the
deployment's intention (one worker), not an assumption of the module: the run
`queue_two_mails` shows that they do not hold without it.

**`SheetsOutboxProofs`** – `TypeCorrect`; `AppendsAccounted`, by an invariant that
counts for every lead the rows of the sheet against the recorded, the unrecorded
and the reopened ones and says what a pass under way may still believe
(`PassFits`); `DigestsDiffer`, by `StampsAdvance` (a stamp is the time of the
digest of its ISO week) and `QueuedBefore`.  `CleanPassesComplete` is the safety half
of `NewAlertsAreQueued`: as long as an alert pass has met nothing of the table, all
it set out to enqueue is still before it or flushed (`NothingDropped`).
`LoopIsOrderly` is that of `LoopKeepsRunning`: a late pass is the sheets poll after
an e-mail poll (`LateFits`).

**`SignUpProofs`** – `TypeCorrect`, `LeadsAreMirrored` (`MirrorInv`: a lead without its
outbox row has a handler that has still to write it), `SignUpsAreWelcomed`
(`WelcomeInv`).  `AccessInvariant` and `AccessHolds`: `AccessInv` says that a link which
opened a session is used up, that one which no two requests share is redeemed by
one handler at most (`LinksAreTheirs`), that what a disable had found is over for
good (`OldAreOver`), and that whatever a handler has read of a lead since disabled
was read before the disable (`ReadsAreDated`).
`LimiterHolds`: `RateInv`, the largest invariant of the project.  Its parts:
no two clients share a bucket; since some moment at which the dictionary was
within its capacity, every client it has gained has a call that will trim for it
or died doing so (`Roomy`); no call has been rejected without cause; and for a
client whose calls do not race, its bucket is the tail of the calls accepted of
it and what has left the bucket has expired (`Remembered`), with what each
statement of the call under way has read of it (`CallFits`).  Sizes of sets are
compared by injections and surjections.

**`LifecycleProofs`** – `LifeInvariant`: unless two refreshes have overlapped, what an
open session has loaded is the committed row (`NobodyElseWrites`).  From it
`StatusesMoveForward`, for three of the writers do not compare ranks and go by
what they loaded, and `OneOutcomeHolds`.

**`SymbolProofs`** – `SymbolInvariant`, `ResolutionIsExact`: what the masters can
hold under the symbol of an issue, and which ISIN a row can carry.  `PastHolds`:
every year of the dataset fits the listing it is for, and every regime the one it
was written for (`RegimeFits`).
`RegistrantsAreJudged`: `EdgarInv` says what the row, the filings read and the
cached listings can be to one another (`Judged`, `ListedDaysAreRead`).

**`SourceHealthProofs`** – `HealthInvariant`, `HealthHolds`: which runs a job, the
saved dataset and the site may hold, how old they are, and when a source was last
read (`Plausible`).  `HistoryHolds`: the document that spoke last was compared
with all the others (`FlagsAreHeard`).  `SiteHolds`: at most one run of the
workflow is under way, and its dataset contains what the branch holds.
`SiteTellsAll`: the best record of an issuer exists and is unique because the last
tie is broken by the id.

**`MaintenanceProofs`** – `BackupsHold`; `WalkHolds` (every day before the
next one was scanned once and by the runs that died, and until a first run dies
with rows stored every run goes for the same end: `DaysAreScanned`, `OneEnd`);
`RepairHolds` (a row that has been read carries a flag of it, one that is Listed has
been judged at most once, a verified one is out of the tools' reach); `CacheHolds`
(what the pool's children, the run and its state file say is warranted by the
archives and the pages, and a run that goes on has all that is pending still
before it: `RunIsAhead`); `FiguresHold` (a
column comes from a first print of its fiscal year); `DeploysHold` (`DeployInv`:
while the lock can be trusted, a script at work holds it and what it knows of
revisions, images and the database is true, which is never behind the running
code).

**`MarketProofs`** – `BarsHold`: a day that left the window unread takes as many
failed downloads as the window has days, and a pruned bar is one no return reads
(`GoneIsUseless`).  `EvaluationHolds`: the rank formula of the area under the curve
is the count of ordered pairs; the sum of ranks is a recursive function, and the
induction is by a least counterexample (`WFMin`), since no prover can instantiate
the library's induction theorems.

*Only model-checked.*  The liveness properties `EventuallyMailed`,
`NewAlertsAreQueued`, `PredictionsAreJudged`, `RowsAreServed`, `EventuallySynced`,
`LoopKeepsRunning` and `EveryRowIsTried`: liveness under fairness, and ENABLED, are out
of the prover's reach.

## 6. Where the program disagrees with its documentation

Six runs have a counterexample by design, each to a sentence of the repository.

| Run | The sentence | What happens |
|---|---|---|
| `queue_two_mails` | models.py:376, alert delivery is idempotent | the unique constraint makes *enqueueing* idempotent; `process_queue` claims no row (email_queue.py:80), so the worker's pass and the admin endpoint mail one row twice |
| `alerts_dropped` | README.md:86, the worker sends material alerts | `enqueue` rolls the whole session back when one alert exists (email_queue.py:28) and loses the new ones before it, on every pass |
| `rollback_down` | DEPLOYMENT.md:234, rolling back past an additive migration is safe | `compose up` runs the migrate service with the rolled-back image, which does not know the database's revision; web is not started (rollback.sh:58, and deploy.sh:47 behind `\|\| true`) |
| `outcomes_frozen` | models.py:236, the row is updated as windows become observable | a graded prediction is skipped for good (outcomes.py:95) |
| `edgar_cached` | sec.py:335-338, a day is never silently skipped | the quarter's listing is cached for the life of the worker (sec.py:322), so indexes published later count as not yet published |
| `health_cut_off` | GITHUB_PAGES.md:185-186, LIVE and DELAYED go by "the real last-successful-run timestamp" | a pass that is killed leaves its run "running", and `source_status` goes by the start of that run (build_pages.py:231), so a source that was not read is shown LIVE |

Smaller observations met while modelling, none of which a run depends on:

*Mail and leads.*  Mails switched off use up attempts.  Permanently failed outbox
rows fill the window of the pass (sheets_sync.py:28,94).  A Clerk event between
the lookup and the insert of a sign-up costs the lead its welcome mail
(main.py:298-303).  Login tokens outlive a disable.  A session opened between a
disable's SELECT of the sessions and its commit is not revoked, and works again once
the lead is enabled (main.py:620-623, auth.py:90; db.py:24 turns autoflush off).  A
late `email.sent` overwrites BOUNCED, COMPLAINED and FAILED, and
`email.delivery_delayed` DELIVERED (webhooks.py:50-60).  A call of the limiter ends in
KeyError or RuntimeError (a 500) when another thread changes the dictionary under it
(ratelimit.py:60,72-73,80-82); calls that die so in their trim have counted their
hit and leave the dictionary above `max_keys` until the next call that trims; racing
calls of one client append out of order, and a late hit shields expired ones behind
it.

*Worker and pipeline.*  The heartbeat is beaten as successful at the start of a
job (heartbeat.py:26), which clears the last error.  A failure in the cycle that
runs the daily jobs skips them for a day.  Up to six jobs of a cycle still begin
after a SIGTERM, so the kill that follows after some ten seconds can hit any of
them, which the handler is there to avoid (worker.py:17-21,41-68).  A forward
prediction can be written after the first session, until a source reports the
listing, so "written before the outcome was known" (outcomes.py:6) is not assured.
A registration of no IPO that mentions the past IPO, and whose companyfacts could
not be read, stays Filed and is not read again (sec.py:281-285), though
pipeline.py:356 says that it has been classified.  A row that is Withdrawn or Not
IPO never becomes Listed again; a Listed row whose registrant files 10-Qs or a
follow-on S-1 turns Not IPO and leaves the history.  `upsert_ipo` replaces
`data_flags` wholly (pipeline.py:324).  A 424B4 changes the filing's URL, so its
S-1 is enriched anew on every pass.  The "several master rows" branch cannot be
reached, as `_distinct` has removed them (nse_master.py:165); monthly reports put
the ISIN of a bond back that the repair replaces; a row with an outdated ISIN and
a symbol is not cross-checked again; UNRESOLVED and CONFLICTING flags go stale.

*Prices.*  The worker asks for today's bhavcopy before NSE posts it and may record
the day as a holiday for good (nse_bhavcopy.py:13).  A file that cannot be
unpacked is recorded as read with no rows (nse_bhavcopy.py:71, 177-181), and a day
that `backfill_new_listings` reads first, for its ISINs alone, counts as read for
all (refresh_data.py:64-65); none of the three is read again.  A forced re-read
that fails demotes an ok day.  Pruned returns equal the unpruned ones except where
a stock's first bar is not of its listing day, or trading was suspended for long.
A series that ended is always stale and is fetched first on every pass
(performance.py:8-9).  With more rows asking than places the order by
`updated_at`, which every service renews (models.py:175), serves the same rows
again and again and starves the others.

*Scores and the model.*  `freshness_penalty` speaks of refreshes, but `updated_at`
only moves when a field changes, so an unchanged row loses confidence after
seven days.  Bookkeeping flags cost 3.5 points each.  The 4 % tolerance is not
transitive: a price between two that disagree clears the flags of both.  The reasons
can name missing peers or regime at a confidence of 100 % (scoring.py:158-166), where
"empty list means nothing is holding confidence back" (scoring.py:141).  A listing date
that is corrected to an earlier day keeps the regime computed for the old one, with the
close of the listing day itself (market_regime.py:63-66,76; model_eval.py:108-109),
where both modules say "strictly before" (market_regime.py:9-10, model_eval.py:73);
one corrected to a later day keeps a stale regime.  `_facts` takes the first taxonomy with data, so an issuer that goes
from IFRS to US-GAAP gets restated prints.  Companyfacts are read once per row; a row read
while Filed uses the filing date as its listing; the years of `revenue_m` and
`revenue_prev_m` need not be adjacent.  Twelve-month labels of rows listed in year
Y-1 are not known when year-Y rows list and are trained on, though model_eval.py:2
says "Leakage-safe"; the segment gate can close when the full area rises, and the
production tier may pass while screening fails.

*Publication.*  PARTIAL and FAILED are shown whatever the age of the run; the
failures of the past-issues feed appear nowhere. An already listed issuer is shown
as upcoming when the listed record's date cannot be parsed (build_pages.py:201); a
permalink moves when the row of lowest id leaves the site; a key that ends in a
number may share a page (build_pages.py:320).  A failed `git fetch` of the data
branch is taken for a first run, and the forced push then overwrites the history.

*Scripts.*  A first backfill that is killed records no target end, and the next one takes
the rows it left as the window's end (backfill_us_priced.py:77-82); it also scans its
days again (line 16 says never).  A download that failed in a completed day is not
retried.  `recheck_not_ipo_rows` changes a price and keeps the returns.  Flagged
US rows without revenue fill the window for ever, and rows behind starve.  An archive
on which zipfile or pypdf raises an error of its own (`BadZipFile`, `PdfReadError`) ends
the run of `backfill_india_rhp.py` at its row every day, where line 81 says "recorded,
not retried daily", and the rows behind it are never tried.  A killed pool child ends
`build_rhp_cache`'s run; a kill in mid-write leaves a torn page that counts as
cached; a MemoryError or a full disk in a child records a good archive as
INVALID_DOCUMENT, for good (build_rhp_cache.py:104).  A deploy that dies after its checkout leaves HEAD at a revision that never
ran, to which the next one falls back, and migrates without a backup
(deploy.sh:65-67); so does `rollback.sh` when it is used to go forward.  Two scripts can
reclaim one stale lock, and the first to exit removes the other's.

## 7. What is not modelled

- E-mail templates, page texts, browser code, generated migrations, endpoints
  that only read: formatting, without a state.
- The regular expressions that find figures in a prospectus, the HTML and JSON
  of the sources, cryptography (Clerk, svix): taken as given, with every verdict
  they can return.
- The regression, the sub-scores and `_bisect_better`: floating-point arithmetic over one
  record; TLA+ has no floats and nothing here has an order of steps.
- One-time repair scripts, run by hand on a quiet database.
- The render-failure branch of the queue and the missing-lead branch of the outbox
  wait for a deleted row, and no code deletes one.

One hazard has no property: a crash between the commit of a lead and that of its
welcome mail and sheet row (main.py:302) leaves the lead without them for good.
Nothing in the program repairs or promises to repair it, so there is nothing to
state; `EveryLeadIsMirrored` and `SignUpsAloneAreWelcomed` exclude it explicitly.

## 8. What is left

For the liveness properties the steps of the argument that are not temporal can be
proved: that a pass under way always decreases what it has left, and that the
place of a waiting row in the window's order never rises.

## 9. Running

`tlc -config safety.cfg MCSafety` (likewise for the other pairs listed in
`PROJECT.json`) checks a run; `tlapm SignUpProofs.tla` checks the proofs of a
module.  Nothing else is needed.

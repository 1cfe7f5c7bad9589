------------------------------ MODULE EdgarFeed -----------------------------
(***************************************************************************)
(* One registrant and its row, "US:<cik>": what sec.py reads of EDGAR - the*)
(* feed of registrations, filings, company facts, daily indexes - and what *)
(* ingest_sec and ingest_sec_priced make of it.  A filing is named by its  *)
(* day, 0 is none.                                                         *)
(***************************************************************************)
EXTENDS Integers, FiniteSets

CONSTANTS
  EdgarDays,  \* bound: the last day
  Lookback    \* lookback_days

ASSUME EdgarAssumption == EdgarDays \in Nat /\ Lookback \in Nat \ {0}

VARIABLES
  filed,     \* [1..EdgarDays -> what the registrant files that day]
  now,       \* the day
  indexed,   \* daily indexes are published up to this day
  reporting, \* company facts have a periodic report
  record,    \* the row
  listingOf, \* _quarter_listing_cache: indexed as of when it was fetched, or NotFetched
  skipped    \* index_not_published of the run just made

edgarVars == <<filed, now, indexed, reporting, record, listingOf, skipped>>

NotFetched == -1
Document(form, ipo, says) == [form |-> form, ipo |-> ipo, says |-> says]
Nothing == Document("none", FALSE, {})

\* What the texts say: a follow-on, or the registration of one, may speak of the
\* past IPO as well, some covers say nothing that is looked for.
Documents ==
  {Nothing, Document("RW", FALSE, {}), Document("S-1", TRUE, {"ipo"}), Document("S-1", FALSE, {}),
   Document("S-1", FALSE, {"ipo"}),
   Document("424B4", TRUE, {"ipo_cover"}), Document("424B4", TRUE, {}),
   Document("424B4", FALSE, {"last_sale", "ipo_cover"}), Document("424B4", FALSE, {})}

\* told is history: the company facts read with the document had a periodic report.
NoRecord == [status |-> "absent", url |-> 0, checked |-> FALSE, nonIpo |-> FALSE, told |-> FALSE,
             priced |-> FALSE]

EdgarInit ==
  /\ filed = [d \in 1..EdgarDays |-> Nothing] /\ now = 0 /\ indexed = 0
  /\ reporting \in BOOLEAN
  /\ record = NoRecord /\ listingOf = NotFetched /\ skipped = {}

\* The index of a day may come out a day late.
NextDay ==
  /\ now < EdgarDays /\ now' = now + 1
  /\ \E f \in Documents : filed' = [filed EXCEPT ![now + 1] = f]
  /\ indexed' = IF indexed < now THEN now ELSE indexed
  /\ skipped' = {} /\ UNCHANGED <<reporting, record, listingOf>>

PublishIndex ==
  /\ indexed < now /\ indexed' = now
  /\ skipped' = {} /\ UNCHANGED <<filed, now, reporting, record, listingOf>>

FirstReport ==
  /\ \E d \in 1..now : filed[d].form = "424B4" /\ filed[d].ipo
  /\ reporting' = TRUE
  /\ UNCHANGED <<filed, now, indexed, record, listingOf, skipped>>

RestartProcess ==
  /\ listingOf' = NotFetched
  /\ skipped' = {} /\ UNCHANGED <<filed, now, indexed, reporting, record>>

-----------------------------------------------------------------------------
(* upsert_ipo: the status only goes up the ranks. *)

RankOf(status) ==
  CASE status = "absent" -> 0  [] status = "Filed" -> 10  [] status = "Listed" -> 60
    [] status = "Withdrawn" -> 70  [] status = "NotIPO" -> 80

WithStatus(r, s) == IF RankOf(s) >= RankOf(r.status) THEN [r EXCEPT !.status = s] ELSE r

\* is_ipo_registration_text; already_reporting.
Enriched(f, textRead, factsRead) ==
  [checked |-> textRead, told |-> factsRead /\ reporting,
   nonIpo |-> (textRead /\ "ipo" \notin f.says) \/ (factsRead /\ reporting)]

\* Mutant: the flags of the enrichment are added to those there are.
TakeAdded(r, d, e) ==
  [WithStatus(r, IF e.nonIpo THEN "NotIPO" ELSE "Filed")
     EXCEPT !.url = d, !.checked = r.checked \/ e.checked, !.nonIpo = r.nonIpo \/ e.nonIpo, !.told = e.told]

\* The row of an enriched registration; data_flags are replaced.
Take(r, d, e) ==
  [WithStatus(r, IF e.nonIpo THEN "NotIPO" ELSE "Filed")
     EXCEPT !.url = d, !.checked = e.checked, !.nonIpo = e.nonIpo, !.told = e.told]

\* The same document as last time, classified already, is not read again.
Unchanged(d) == record.status # "absent" /\ record.url = d /\ record.checked

\* ingest_sec: the registrant's newest registration, as long as the feed has it.
IngestSec ==
  /\ \E d \in 1..now :
       /\ filed[d].form = "S-1" /\ \A x \in d + 1..now : filed[x].form # "S-1"
       /\ IF Unchanged(d) THEN record' = WithStatus(record, "Filed")
          ELSE \E text, facts \in BOOLEAN : record' = Take(record, d, Enriched(filed[d], text, facts))
  /\ UNCHANGED <<filed, now, indexed, reporting, listingOf, skipped>>

-----------------------------------------------------------------------------
\* Mutant: the cover's phrases are looked for first.
ClassifyCoverFirst(says) ==
  IF "ipo_cover" \in says THEN "ipo" ELSE IF "last_sale" \in says THEN "follow_on" ELSE "unknown"

\* classify_prospectus: a last sale price settles it.
Classify(says) ==
  IF "last_sale" \in says THEN "follow_on" ELSE IF "ipo_cover" \in says THEN "ipo" ELSE "unknown"

\* What the index of day d brings to the row.
FromIndex(r, d) ==
  IF filed[d].form = "RW" /\ r.status = "Filed"
  THEN [WithStatus(r, "Withdrawn") EXCEPT !.url = d]
  ELSE IF filed[d].form = "424B4" /\ Classify(filed[d].says) = "ipo"
  THEN [WithStatus(r, "Listed") EXCEPT !.url = d, !.priced = TRUE]
  ELSE r

\* EDGAR's answer to the request of an index: one that is not there is denied
\* or not found, any request may be throttled, or fail in another way.
Answers(d) ==
  (IF d <= indexed THEN {"ok"} ELSE {"denied", "not_found"}) \cup {"throttled"}

\* Mutant: every 403 means that there is no such file.
UnavailableAny403(d, listing, answer) ==
  IF listing # NotFetched /\ d > listing THEN TRUE
  ELSE answer = "not_found" \/ (answer \in {"denied", "throttled"} /\ listing = NotFetched)

\* master_index_if_published: DailyIndexUnavailable.
Unavailable(d, listing, answer) ==
  IF listing # NotFetched /\ d > listing THEN TRUE
  ELSE answer = "not_found" \/ (answer = "denied" /\ listing = NotFetched)

Window == {d \in 1..now : d > now - Lookback}

\* The row after the days of the window down to d, of which some are read.
After(days) ==
  LET step[d \in 1..now + 1] ==
        IF d = now + 1 THEN record
        ELSE IF d \in days THEN FromIndex(step[d + 1], d) ELSE step[d + 1]
  IN step[1]

\* ingest_sec_priced: the quarter's listing as the process has it, or fetches it
\* now, or without; then the days of the window, the newest first.
IngestPriced ==
  /\ now > 0
  /\ \E listing \in IF listingOf # NotFetched THEN {listingOf} ELSE {indexed, NotFetched},
        answer \in [Window -> {"ok", "denied", "not_found", "throttled"}] :
       /\ \A d \in Window : answer[d] \in Answers(d)
       /\ listingOf' = listing
       /\ skipped' = {d \in Window : Unavailable(d, listing, answer[d])}
       /\ record' = After({d \in Window \ skipped' : answer[d] = "ok"})
  /\ UNCHANGED <<filed, now, indexed, reporting>>

EdgarNext ==
  NextDay \/ PublishIndex \/ FirstReport \/ RestartProcess \/ IngestSec \/ IngestPriced

EdgarSpec == EdgarInit /\ [][EdgarNext]_edgarVars

-----------------------------------------------------------------------------
\* "A day EDGAR has no index file for (not yet published, market holiday)" is the
\* only one that is passed over: "a day is never silently skipped under
\* throttling" (sec.py:333-338).
OnlyUnpublishedAreSkipped == \A d \in skipped : d > indexed

\* The same, for the days that were there when the process asked for the listing.
ListedDaysAreRead == \A d \in skipped : d > indexed \/ (listingOf # NotFetched /\ d > listingOf)

\* A document that will not be read again has been judged by what was read with it
\* (pipeline.py:355-361): a registration of no IPO whose text, or whose registrant's
\* facts, gave that away has made its row Not IPO.  One that mentions the past IPO
\* and whose facts could not be read stays Filed (sec.py:281-285).
SkipIsSound ==
  \A d \in 1..now :
    /\ filed[d].form = "S-1" /\ Unchanged(d) /\ ~filed[d].ipo
    /\ "ipo" \notin filed[d].says \/ record.told
    => record.status = "NotIPO"

\* Nothing is shown to list or to be withdrawn that did not, whatever the covers
\* mention and the requests that fail; and a flagged row is no IPO.
StatusHasEvidence ==
  LET has(form, ipo) == \E d \in 1..now : filed[d].form = form /\ filed[d].ipo = ipo
  IN /\ record.status = "Listed" \/ record.priced => has("424B4", TRUE)
     /\ record.status = "Withdrawn" => has("RW", FALSE)
     /\ record.status = "NotIPO" => has("S-1", FALSE) \/ reporting
     /\ record.nonIpo => record.status = "NotIPO"

\* The registrant's row says what its filings do.
RegistrantIsJudged == ListedDaysAreRead /\ SkipIsSound /\ StatusHasEvidence
=============================================================================

----------------------------- MODULE PointInTime ----------------------------
(***************************************************************************)
(* The dataset the research model is judged on: the observations of one    *)
(* listed offering that prospectuses, reports and the index leave, and     *)
(* which of them model_eval.py takes for a prediction as of the listing.   *)
(* A document is named by the day it was filed.                            *)
(***************************************************************************)
EXTENDS Integers, FiniteSets

CONSTANTS
  DatasetDays,  \* bound: the last day
  YearLen,      \* days of a fiscal year
  TradingDays,  \* days on which the index closes
  CloseIsStale  \* MAX_STALENESS_DAYS

ASSUME PointInTimeAssumption ==
  /\ DatasetDays \in Nat /\ YearLen \in Nat \ {0} /\ CloseIsStale \in Nat
  /\ TradingDays \subseteq 1..DatasetDays

Days == 1..DatasetDays
NoDay == 0
NoRegime == [close |-> NoDay, listing |-> NoDay]

\* The last year that ended before a day; period_end of a document of that day.
Period(d) == (d - 1) \div YearLen
PeriodEnd(p) == p * YearLen
Periods == {Period(d) : d \in Days}

VARIABLES
  calendar,   \* today
  listing,    \* IPO.listing_date
  prospectus, \* [Periods -> the document read], "prospectus_filing" observations
  report,     \* [Periods -> the document read], "xbrl_post_ipo_comparative" ones
  regime      \* the "market_index_close" observation, with raw.listing_date

datasetVars == <<calendar, listing, prospectus, report, regime>>

DatasetInit ==
  /\ calendar = 1 /\ listing = NoDay /\ regime = NoRegime
  /\ prospectus = [p \in Periods |-> NoDay] /\ report = [p \in Periods |-> NoDay]

DatasetDay ==
  /\ calendar < DatasetDays /\ calendar' = calendar + 1
  /\ UNCHANGED <<listing, prospectus, report, regime>>

\* A source states the listing date, or another states a different one.
StateListing(d) ==
  /\ listing' = d /\ UNCHANGED <<calendar, prospectus, report, regime>>

\* apply_observations: the row of that period and source is written over.  The
\* backfills read documents whenever they come to them, an amended or a later
\* registration of the same issuer among them.
ReadProspectus(d) ==
  /\ d <= calendar /\ prospectus' = [prospectus EXCEPT ![Period(d)] = d]
  /\ UNCHANGED <<calendar, listing, report, regime>>

\* xbrl_financials reads reports that were filed after the listing.
ReadReport(d) ==
  /\ listing # NoDay /\ d <= calendar /\ listing <= d
  /\ report' = [report EXCEPT ![Period(d)] = d]
  /\ UNCHANGED <<calendar, listing, prospectus, regime>>

-----------------------------------------------------------------------------
(* regime_at, on the closes the index series has today. *)

Prior(closes, d) == {c \in closes : c < d}
IsLast(c, closes) == c \in closes /\ \A x \in closes : x <= c

\* Two closes stand for LOOKBACK_DAYS and VOL_WINDOW of them.
RegimeDays(closes, d) ==
  {c \in closes : /\ IsLast(c, Prior(closes, d)) /\ d - c <= CloseIsStale
                  /\ Cardinality(Prior(closes, d)) >= 2}

\* Mutant: a listing to come is taken as well.
RefreshRegimeEarly ==
  /\ listing # NoDay /\ regime = NoRegime
  /\ \E c \in RegimeDays({x \in TradingDays : x <= calendar}, listing) :
       regime' = [close |-> c, listing |-> listing]
  /\ UNCHANGED <<calendar, listing, prospectus, report>>

\* refresh: rows that lack an observation and have listed by today.
RefreshRegime ==
  /\ listing # NoDay /\ regime = NoRegime /\ listing <= calendar
  /\ \E c \in RegimeDays({x \in TradingDays : x <= calendar}, listing) :
       regime' = [close |-> c, listing |-> listing]
  /\ UNCHANGED <<calendar, listing, prospectus, report>>

DatasetNext ==
  \/ DatasetDay \/ RefreshRegime
  \/ \E d \in Days : StateListing(d) \/ ReadProspectus(d) \/ ReadReport(d)

-----------------------------------------------------------------------------
(* _admissible and _latest_available: the value the model sees. *)

Datasets == {"production", "research"}
Prospectuses == {[period |-> p, filed |-> prospectus[p], form |-> "prospectus"] :
                   p \in {q \in Periods : prospectus[q] # NoDay}}
Reports == {[period |-> p, filed |-> report[p], form |-> "report"] :
              p \in {q \in Periods : report[q] # NoDay}}

\* Mutant: the period has to end before the listing, not the filing.
AdmissibleByPeriod(o, dataset) ==
  IF o.form = "prospectus" THEN PeriodEnd(o.period) <= listing
  ELSE dataset = "research" /\ PeriodEnd(o.period) <= listing

Admissible(o, dataset) ==
  IF o.form = "prospectus" THEN o.filed <= listing
  ELSE dataset = "research" /\ PeriodEnd(o.period) <= listing

\* Later by period_end, then by available_at.
Later(o, x) == o.period > x.period \/ (o.period = x.period /\ o.filed >= x.filed)

\* The values the model may see: none, or the latest of those admitted.
Feature(dataset) ==
  LET ok == {o \in Prospectuses \cup Reports : Admissible(o, dataset)}
  IN {o \in ok : \A x \in ok : Later(o, x)}

RegimeFeature == IF regime.close # NoDay /\ regime.close <= listing THEN {regime.close} ELSE {}

-----------------------------------------------------------------------------
\* "A row's features may only use values whose availability date is on or before
\* the row's listing date" (model_eval.py:6), whichever order documents are read
\* in and dates are corrected.  The regime's close is "strictly before the listing
\* date" (model_eval.py:73) but for one case: refresh never writes a regime again,
\* so that of a row whose listing date was corrected to an earlier one may be of
\* the very day of the listing, which _admissible takes for known.
NoLookAhead ==
  listing # NoDay =>
    /\ \A o \in Feature("production") : o.filed <= listing /\ o.form = "prospectus"
    /\ \A o \in Feature("research") : PeriodEnd(o.period) <= listing
    /\ \A c \in RegimeFeature : c < listing \/ (c = listing /\ regime.listing > listing)

\* The regime is that of the whole series up to the listing it was written for,
\* although it was computed from what the series had that day.
RegimeIsWhole ==
  regime # NoRegime => IsLast(regime.close, Prior(TradingDays, regime.listing))

\* What is filed after the listing tells the model nothing: reading it leaves
\* its value, or takes it away where it described the same year.
LaterNewsIsIgnored ==
  \A d \in Days :
    listing # NoDay /\ d > listing /\ (ReadProspectus(d) \/ ReadReport(d)) =>
       \/ Feature("production")' \subseteq Feature("production")
       \/ \E o \in Feature("production") : \A x \in Feature("production")' :
            x.period < o.period /\ x \in Prospectuses

\* The model is judged as of the listing, the close of that day apart.
PredictsFromThePast == [](NoLookAhead /\ RegimeIsWhole) /\ [][LaterNewsIsIgnored]_datasetVars

DatasetSpec == DatasetInit /\ [][DatasetNext]_datasetVars
=============================================================================

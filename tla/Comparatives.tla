---------------------------- MODULE Comparatives ----------------------------
(***************************************************************************)
(* The pre-IPO figures of one American issuer as SEC's companyfacts gives  *)
(* them: the reports it files after its registration restate earlier years,*)
(* xbrl_financials.py picks among what they print, and                     *)
(* scripts/backfill_us_financials.py stores it, once.  Time is counted in  *)
(* months; a print of a figure is named by the month it was filed in.      *)
(***************************************************************************)
EXTENDS Integers

CONSTANTS
  FactMonths,  \* bound: the last month
  FiscalYear,  \* months of a fiscal year
  LagMonths,   \* MAX_MONTHS_AFTER_LISTING
  MaxReports   \* bound

ASSUME ComparativesAssumption ==
  {FactMonths, LagMonths, MaxReports} \subseteq Nat /\ FiscalYear \in Nat \ {0}

YearEnds == {e \in 1..FactMonths : e % FiscalYear = 0}

\* The other annual figures are picked as revenue_m is, debt as cash is.
RevenueYears == {"revenue_m", "revenue_prev_m"}
Figures == RevenueYears \cup {"cash_m"}
ConceptOf == [revenue_m |-> "revenue", revenue_prev_m |-> "revenue", cash_m |-> "cash"]

Missing == [end |-> 0, print |-> 0, listing |-> 0]
Elsewhere == [end |-> 0, print |-> 0, listing |-> 1]

VARIABLES
  monthNow,
  listedIn,   \* IPO.listing_date, 0 while it is unknown; the filing's is 1
  printed,    \* companyfacts: what has been printed, of one taxonomy
  reports,    \* how many reports there are
  observed,   \* FeatureObservation rows: figure |-> what they hold
  ipoColumn,  \* the IPO's columns
  done        \* the "done" flag of the row

factVars == <<monthNow, listedIn, printed, reports, observed, ipoColumn, done>>

FactsInit ==
  /\ monthNow = 1 /\ listedIn = 0 /\ printed = {} /\ reports = 0
  /\ observed = [f \in Figures |-> {}] /\ ipoColumn = [f \in Figures |-> Missing] /\ done = FALSE

MonthPasses ==
  /\ monthNow < FactMonths /\ monthNow' = monthNow + 1
  /\ UNCHANGED <<listedIn, printed, reports, observed, ipoColumn, done>>

\* A report prints revenue, cash or both for some of the years that are over, or
\* the cash of the month before.
FileReport ==
  /\ reports < MaxReports /\ reports' = reports + 1
  /\ \/ \E concepts \in SUBSET {"revenue", "cash"}, ends \in SUBSET YearEnds :
          /\ \A e \in ends : e < monthNow
          /\ printed' = printed \cup
               {[concept |-> c, end |-> e, print |-> monthNow] : c \in concepts, e \in ends}
     \/ printed' = printed \cup {[concept |-> "cash", end |-> monthNow - 1, print |-> monthNow]}
  /\ UNCHANGED <<monthNow, listedIn, observed, ipoColumn, done>>

\* A source states the listing, or another one states a different month.
StateListingMonth ==
  /\ \E m \in 1..monthNow \ {listedIn} : listedIn' = m
  /\ UNCHANGED <<monthNow, printed, reports, observed, ipoColumn, done>>

-----------------------------------------------------------------------------
(* extract_pre_ipo_financials, of a listing. *)

\* _admissible
Admits(f, since) == f.end <= since /\ f.print \in since..(since + LagMonths)

EndsOf(concept, since) ==
  {f.end : f \in {g \in printed : g.concept = concept /\ Admits(g, since)}}

PrintsOf(concept, end, since) ==
  {f.print : f \in {g \in printed : g.concept = concept /\ g.end = end /\ Admits(g, since)}}

\* Mutant: the newest print of a figure is taken.
LatestPrint(prints) == CHOOSE p \in prints : \A q \in prints : q <= p

\* _earliest_filed_by_end
FirstPrint(prints) == CHOOSE p \in prints : \A q \in prints : p <= q

Newest(ends) == {e \in ends : \A x \in ends : x <= e}
BeforeNewest(ends) == Newest(ends \ Newest(ends))

\* The year-end of a balance sheet, or any date when none is at a year-end that
\* the income statement has.
BalanceEnds(since) ==
  LET ends == EndsOf("cash", since)
      years == EndsOf("revenue", since)
  IN IF ends \cap years # {} THEN ends \cap years ELSE ends

\* The dates a figure is taken at: one or none.
EndOf(figure, since) ==
  CASE figure = "revenue_m" -> Newest(EndsOf("revenue", since))
    [] figure = "revenue_prev_m" -> BeforeNewest(EndsOf("revenue", since))
    [] figure = "cash_m" -> Newest(BalanceEnds(since))

Extract(figure, since) ==
  {[end |-> e, print |-> FirstPrint(PrintsOf(ConceptOf[figure], e, since)),
    listing |-> since] : e \in EndOf(figure, since)}

-----------------------------------------------------------------------------
\* process: without a listing date, the filing's.
AsOf == IF listedIn = 0 THEN 1 ELSE listedIn

\* Mutant: candidates selects rows whose revenue is known as well.
ToReadAgain == ~done

\* candidates: neither done nor served already.
ToRead == ipoColumn["revenue_m"] = Missing /\ ~done

\* process and apply_observations: one row per figure and date, written over; a
\* column is filled only if nothing was there.
ReadFacts ==
  /\ ToRead /\ done' = TRUE
  /\ LET new == [f \in Figures |-> Extract(f, AsOf)]
     IN /\ observed' = [f \in Figures |->
             {o \in observed[f] : \A n \in new[f] : n.end # o.end} \cup new[f]]
        /\ ipoColumn' = [f \in Figures |->
             IF ipoColumn[f] # Missing \/ new[f] = {} THEN ipoColumn[f]
             ELSE CHOOSE n \in new[f] : TRUE]
  /\ UNCHANGED <<monthNow, listedIn, printed, reports>>

\* The prospectus pass fills a column, or the row of a source writes it over.
FillColumn ==
  /\ \E f \in Figures : ipoColumn' = [ipoColumn EXCEPT ![f] = Elsewhere]
  /\ UNCHANGED <<monthNow, listedIn, printed, reports, observed, done>>

\* upsert_ipo replaces data_flags by those of the source's row.
LoseFlags ==
  /\ done /\ done' = FALSE
  /\ UNCHANGED <<monthNow, listedIn, printed, reports, observed, ipoColumn>>

FactsNext ==
  MonthPasses \/ FileReport \/ StateListingMonth \/ ReadFacts \/ FillColumn \/ LoseFlags
FactsSpec == FactsInit /\ [][FactsNext]_factVars

-----------------------------------------------------------------------------
\* The years of revenue come from one reading, in the order their names say,
\* however often the listing date is corrected and the flags are lost.
RevenueIsReadOnce ==
  /\ \A f \in RevenueYears : \A o, p \in observed[f] : o = p
  /\ \A o \in observed["revenue_m"], p \in observed["revenue_prev_m"] :
       p.end < o.end /\ p.listing = o.listing

\* "Only the EARLIEST-filed fact per (concept, period_end) is used"
\* (xbrl_financials.py:19): no report, early or late, has an earlier print that
\* the listing admits.
FirstPrinted ==
  \A f \in Figures : \A o \in observed[f] : \A g \in printed :
    g.concept = ConceptOf[f] /\ g.end = o.end /\ Admits(g, o.listing) => o.print <= g.print

\* What a column shows is what the observations hold, as long as the listing
\* date stays as it was: the same readings write both, by different rules.
ColumnsAreObserved ==
  \A f \in Figures : ipoColumn[f] \notin {Missing, Elsewhere} =>
    \E o \in observed[f] : /\ o.end = ipoColumn[f].end
                           /\ o.listing = ipoColumn[f].listing => o.print = ipoColumn[f].print

\* The row's figures agree with one another, with what was printed and with what
\* the site shows of them.
FiguresAgree == RevenueIsReadOnce /\ FirstPrinted /\ ColumnsAreObserved
=============================================================================

------------------------------ MODULE ModelGate -----------------------------
(***************************************************************************)
(* The walk-forward evaluation of the research model: its folds by listing *)
(* year, the metrics of its predictions, and the gate that decides what    *)
(* the site may call them (model_eval.py, walkforward.py).  Predictions    *)
(* are percentages, areas and gains are in thousandths.                    *)
(***************************************************************************)
EXTENDS Integers, FiniteSets, Sequences

CONSTANTS
  ListingDays,  \* bound: the last day of a listing
  DaysOfYear,   \* days of a year
  MinTrain,     \* MIN_TRAIN
  MaxListings   \* bound: sample evaluated

ASSUME GateAssumption ==
  DaysOfYear \in Nat \ {0} /\ {ListingDays, MinTrain, MaxListings} \subseteq Nat

VARIABLES
  sample,  \* Seq(ListedRow): the usable rows of one market, by listing date
  evidence   \* what release_gate and segment_stable are given

gateVars == <<sample, evidence>>

ListedRow == [day : 1..ListingDays, score : {0, 60, 100}, outcome : 0..1]
Indices == DOMAIN sample

-----------------------------------------------------------------------------
(* walk_forward. *)

Year(d) == (d - 1) \div DaysOfYear

\* Mutant: the year itself is trained on too.
TrainedOnSameYear(i) == {j \in Indices \ {i} : Year(sample[j].day) <= Year(sample[i].day)}

\* The rows a fold's model is fitted on.
TrainedOn(i) == {j \in Indices : Year(sample[j].day) < Year(sample[i].day)}

\* The rows that are predicted: their fold has enough of both outcomes.
Tested ==
  {i \in Indices : /\ Cardinality(TrainedOn(i)) >= MinTrain
                   /\ {sample[j].outcome : j \in TrainedOn(i)} = 0..1}

\* "Every out-of-sample prediction for year Y comes from a model fitted on rows
\* listed strictly before Y. Nothing is shuffled" (model_eval.py:10): the outcome
\* of the listing day of each row a fold learns from was known before the row it
\* predicts listed.  Nothing is claimed of the outcomes of twelve months: those
\* of the year before are learnt from too, known at the time or not.
FoldsLookBack ==
  \A i \in Tested : \A j \in TrainedOn(i) :
    j < i /\ i \notin TrainedOn(j) /\ sample[j].day < sample[i].day

-----------------------------------------------------------------------------
(* Metrics of a set of rows. *)

Positive(rows) == {i \in rows : sample[i].outcome = 1}
Negative(rows) == rows \ Positive(rows)
Size(S) == Cardinality(S)

\* _auc: pairs a positive wins, doubled so that a tie counts one.
TwiceWins(rows) ==
  LET pairs == Positive(rows) \X Negative(rows)
      won == {p \in pairs : sample[p[1]].score > sample[p[2]].score}
      tied == {p \in pairs : sample[p[1]].score = sample[p[2]].score}
  IN 2 * Size(won) + Size(tied)

Below(i, rows) == {j \in rows : sample[j].score < sample[i].score}
Tied(i, rows) == {j \in rows : sample[j].score = sample[i].score}

\* Mutant: ties share their last rank, not the mean one.
TwiceRankLast(i, rows) == 2 * (Size(Below(i, rows)) + Size(Tied(i, rows)))

\* _rank_auc's and _spearman's ranks: ties share their mean rank, doubled.
TwiceRank(i, rows) == 2 * Size(Below(i, rows)) + Size(Tied(i, rows)) + 1

TwiceRankSum[rows \in SUBSET (1..MaxListings)] ==
  IF rows = {} THEN 0
  ELSE LET i == CHOOSE i \in rows : TRUE
       IN TwiceRank(i, Indices) + TwiceRankSum[rows \ {i}]

\* Bins of _ece, _calibration_table and _calibration; the last one is closed.
Bins(n) == 0..n - 1
InBin(i, b, n) ==
  LET s == sample[i].score IN 100 * b <= s * n /\ (s * n < 100 * (b + 1) \/ (b = n - 1 /\ s = 100))

\* The areas by pairs and by ranks are one: sum of ranks - P(P+1)/2 = wins.
\* Every prediction falls in one bin, so that the bins' rows add up to n.
MetricsAgree ==
  LET P == Positive(Indices) IN
  /\ P # {} => TwiceRankSum[P] - Size(P) * (Size(P) + 1) = TwiceWins(Indices)
  /\ \A i \in Indices, n \in {5, 10} : Size({b \in Bins(n) : InBin(i, b, n)}) = 1

-----------------------------------------------------------------------------
(* release_gate and segment_stable. *)

NoValue == -1
\* Thresholds and their neighbours.  segment: the area of the operating companies
\* alone, "0" when it cannot be computed, NoValue when all rows are of one kind.
Levels ==
  [n |-> {100, 300}, auc |-> {550, 580, 690}, ciLow |-> {NoValue, 450, 510},
   gain |-> {-1, 10, 20}, stable |-> {50, 60, 70}, folds |-> {2, 3},
   segment |-> {NoValue, 0, 580}, ece |-> {NoValue, 60, 50}, graded |-> {49, 50},
   leakageFree |-> BOOLEAN]

Screening(e) == e.n >= 100 /\ e.auc >= 580 /\ e.gain > 0 /\ e.stable >= 60

\* segment_stable: enough of its own, and the whole market not much above it.
SegmentStable(e) == e.segment # NoValue => e.segment > 500 /\ e.auc - e.segment <= 100

\* Mutant: any interval will do.
DiscriminatesOnInterval(e) == e.auc >= 600 \/ e.ciLow # NoValue

Discriminates(e) == e.auc >= 600 \/ (e.ciLow # NoValue /\ e.ciLow > 500)

Production(e) ==
  /\ e.leakageFree /\ e.n >= 300 /\ Discriminates(e) /\ e.gain >= 20
  /\ e.stable >= 70 /\ e.folds >= 3 /\ SegmentStable(e)

Probability(e) == Production(e) /\ e.ece # NoValue /\ e.ece <= 50 /\ e.graded >= 50

\* The tiers are in order, but that a bootstrap interval may take an area
\* below the first tier's into the second.
TiersAreOrdered ==
  Production(evidence) => Screening(evidence) \/ (evidence.auc < 580 /\ evidence.ciLow > 500)

\* What is the better, the more there is of it.
Merits == {"n", "auc", "ciLow", "gain", "stable", "folds", "segment", "graded"}

\* No gate that is open closes on better evidence, but that of a market which
\* comes to look much stronger than its operating companies.
GateStaysOpen ==
  \A field \in Merits :
    evidence[field] # NoValue /\ evidence'[field] > evidence[field] =>
      /\ Screening(evidence) => Screening(evidence')
      /\ Production(evidence) => Production(evidence') \/ (field = "auc" /\ ~SegmentStable(evidence'))
      /\ Probability(evidence) => Probability(evidence') \/ ~Production(evidence')

-----------------------------------------------------------------------------
GateInit ==
  /\ sample = <<>>
  /\ evidence = [n |-> 100, auc |-> 550, ciLow |-> NoValue, gain |-> -1, stable |-> 50,
                 folds |-> 2, segment |-> NoValue, ece |-> NoValue, graded |-> 49,
                 leakageFree |-> FALSE]

\* build_rows: the rows are in the order of their listing.
AddListing ==
  /\ Len(sample) < MaxListings
  /\ \E l \in ListedRow :
       /\ \A i \in Indices : sample[i].day <= l.day
       /\ sample' = Append(sample, l)
  /\ UNCHANGED evidence

\* A later evaluation, of another dataset or at another time.
Reevaluate ==
  /\ \E field \in DOMAIN Levels : \E v \in Levels[field] : evidence' = [evidence EXCEPT ![field] = v]
  /\ UNCHANGED sample

GateNext == AddListing \/ Reevaluate
GateSpec == GateInit /\ [][GateNext]_gateVars

\* The model is judged on rows of later years, and the gate on what it says it is.
EvaluationIsHonest ==
  [](FoldsLookBack /\ MetricsAgree /\ TiersAreOrdered) /\ [][GateStaysOpen]_gateVars
=============================================================================

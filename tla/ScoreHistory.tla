---------------------------- MODULE ScoreHistory ----------------------------
(***************************************************************************)
(* The score of one active offering and the snapshots that record it: the  *)
(* conflicts between its sources (pipeline.add_provenance), the confidence *)
(* and its reasons (scoring.py), and the decision which update is worth a  *)
(* snapshot (pipeline._event_stage).  Confidence is in tenths of a percent;*)
(* the pillars stand for all else a score is made of.                      *)
(***************************************************************************)
EXTENDS Integers, FiniteSets

CONSTANTS
  Urls,       \* documents that state the offer price
  SourceOf,   \* [Urls -> source_name]
  Prices,     \* what they state it to be
  MaxAge      \* bound: the days a row is looked at without an update: 7 or this many

ASSUME ScoreAssumption ==
  Urls # {} /\ IsFiniteSet(Urls) /\ Prices \subseteq Nat \ {0} /\ MaxAge \in Nat

VARIABLES
  prov,       \* [Urls -> the provenance row of the price]
  facts,      \* what the row has of the inputs of confidence
  context,    \* which of the peers' multiples and the market regime it has
  pillars,
  age,        \* days since updated_at
  last,       \* the latest snapshot
  repeated,   \* it says what the one before it did, and documents no event
  mentioned   \* the last step was an upsert of the row

scoreVars == <<prov, facts, context, pillars, age, last, repeated, mentioned>>

Stated == {p \in Urls : prov[p].value > 0}

\* A difference of more than 4 % of the larger value.  Not transitive: 100 is as
\* good as 103 and 103 as 106, but not 100 as 106.
Differ(v, w) ==
  LET larger == IF v > w THEN v ELSE w
      apart == IF v > w THEN v - w ELSE w - v
  IN 25 * apart > larger

-----------------------------------------------------------------------------
(* confidence() and confidence_reasons(). *)

Fields == 10
AtMost(cap, x) == IF x < cap THEN x ELSE cap
Conflicts == Cardinality({p \in Stated : prov[p].conflict})

FreshnessPenalty == IF age <= 7 THEN 0 ELSE AtMost(120, (120 * (age - 7)) \div 53)

\* facts.missing counts the fields of the list other than filing_url, flags the
\* data_flags but those that begin with "ipo_classification".
Confidence(conflicts) ==
  LET complete == Fields - facts.missing - (IF facts.filing = "none" THEN 1 ELSE 0)
      primary == IF facts.filing = "primary" THEN 320 ELSE 230
  IN 68 * complete + primary - AtMost(280, 35 * facts.flags)
       - AtMost(250, 80 * conflicts) - FreshnessPenalty

\* Without the share count (a field of the list) the peers are not named; the
\* peers' multiples and the regime are no fields of the list.
Reasons(conflicts) ==
  {r \in {"filing", "fields", "stale", "conflict", "flags", "peers", "regime"} :
     \/ r = "filing" /\ facts.filing # "primary"
     \/ r = "fields" /\ facts.missing > 0
     \/ r = "stale" /\ FreshnessPenalty > 0
     \/ r = "conflict" /\ conflicts > 0
     \/ r = "flags" /\ facts.flags > 0
     \/ r = "peers" /\ facts.missing = 0 /\ "peers" \notin context
     \/ r = "regime" /\ "regime" \notin context}

MinConfidence == 700

\* compute_score, under strict_reliability.
Score(conf) ==
  [conf |-> conf, pillars |-> pillars,
   rec |-> IF conf < MinConfidence THEN "no_recommendation"
           ELSE IF pillars > 0 THEN "invest" ELSE "watch"]

-----------------------------------------------------------------------------
NoRow == [value |-> 0, conflict |-> FALSE]

\* The row as ipo_discovered finds it.
ScoreInit ==
  /\ prov = [p \in Urls |-> NoRow]
  /\ facts \in [filing : {"none", "secondary", "primary"}, missing : {0, 2}, flags : {0}]
  /\ context = {} /\ pillars = 1 /\ age = 0
  /\ last = Score(Confidence(0))
  /\ repeated = FALSE /\ mentioned = FALSE

\* Mutant: the other rows keep the flags they have.
WithPriceOneSided(p, v) ==
  LET others == {o \in Stated : SourceOf[o] # SourceOf[p]}
  IN [prov EXCEPT ![p] = [value |-> v, conflict |-> \E o \in others : Differ(v, prov[o].value)]]

\* add_provenance: document p states price v.
WithPrice(p, v) ==
  LET others == {o \in Stated : SourceOf[o] # SourceOf[p]}
  IN [o \in Urls |->
        IF o = p THEN [value |-> v, conflict |-> \E x \in others : Differ(v, prov[x].value)]
        ELSE IF o \in others THEN [prov[o] EXCEPT !.conflict = Differ(v, prov[o].value)]
        ELSE prov[o]]

\* _score_moved: a difference of just a tenth may be lost to binary fractions.
Moved(score) ==
  LET tenths == score.conf - last.conf
  IN IF <<score.rec, score.pillars>> # <<last.rec, last.pillars>> \/ tenths \notin -1..1 THEN {TRUE}
     ELSE IF tenths = 0 THEN {FALSE} ELSE BOOLEAN

\* Mutant: a subscription tick never makes a snapshot.
EventStageSilent(changed, moved) ==
  CASE "filing" \in changed -> "filing"
    [] "band" \in changed -> "price_band_set"
    [] "subscription" \in changed -> "none"
    [] OTHER -> IF moved THEN "material_score_change" ELSE "none"

\* _event_stage, by the fields that changed; "none" when nothing is recorded.
EventStage(changed, moved) ==
  CASE "filing" \in changed -> "filing"
    [] "band" \in changed -> "price_band_set"
    [] "subscription" \in changed -> IF moved THEN "subscription_update" ELSE "none"
    [] OTHER -> IF moved THEN "material_score_change" ELSE "none"

\* upsert_ipo of a mention that brings nothing new, or a subscription, a band, a
\* filing, the enrichment with peers and regime or a statement of the price by a
\* document.
Mention ==
  /\ \E changed \in {{}, {"subscription"}, {"band"}, {"filing"}, {"peers", "regime"}, {"price"}} :
       /\ context' = context \cup (changed \cap {"peers", "regime"})
       /\ pillars' \in IF changed \in {{}, {"filing"}, {"price"}} THEN {pillars} ELSE 0..1
       /\ IF "filing" \in changed
          THEN \E f \in {"secondary", "primary"} :
                 f # facts.filing /\ facts' = [facts EXCEPT !.filing = f, !.missing = 0, !.flags = 0]
          ELSE facts' = facts
       /\ IF "price" \in changed
          THEN \E p \in Urls, v \in Prices : prov' = WithPrice(p, v)
          ELSE prov' = prov
       /\ age' = IF changed = {} THEN age ELSE 0
       /\ LET score == Score(Confidence(Conflicts))'
          IN \E moved \in Moved(score) :
               LET stage == EventStage(changed, moved)
               IN IF stage = "none" THEN UNCHANGED <<last, repeated>>
                  ELSE /\ last' = score
                       /\ repeated' = (score = last /\ stage \notin {"filing", "price_band_set"})
  /\ mentioned' = TRUE

\* A pass of one of the scripts puts a flag on the row, which fills fields too.
FlagRow ==
  /\ facts.flags = 0
  /\ \E m \in {0, facts.missing} : facts' = [facts EXCEPT !.flags = 1, !.missing = m]
  /\ age' = 0 /\ mentioned' = FALSE
  /\ UNCHANGED <<prov, context, pillars, last, repeated>>

DaysGo ==
  /\ age' \in {d \in {7, MaxAge} : age < d} /\ mentioned' = FALSE
  /\ UNCHANGED <<prov, facts, context, pillars, last, repeated>>

ScoreNext == Mention \/ FlagRow \/ DaysGo

ScoreSpec == ScoreInit /\ [][ScoreNext]_scoreVars

-----------------------------------------------------------------------------
\* Whichever document speaks last, a flag is on a row whose price another source
\* disputes, and a disagreement between two sources is flagged
\* (contradictions.cross_source computes it afresh) unless the prices between
\* them make it pass unseen: add_provenance clears the flags of the rows that the
\* last statement agrees with, and the tolerance is not transitive.
ConflictsAreReal ==
  /\ \A p \in Stated : prov[p].conflict =>
       \E o \in Stated : SourceOf[o] # SourceOf[p] /\ Differ(prov[p].value, prov[o].value)
  /\ \A p, o \in Stated :
       SourceOf[p] # SourceOf[o] /\ Differ(prov[p].value, prov[o].value) =>
         \/ Conflicts > 0
         \/ \E x, y, z \in Stated : /\ Differ(prov[x].value, prov[z].value)
                                   /\ ~Differ(prov[x].value, prov[y].value)
                                   /\ ~Differ(prov[y].value, prov[z].value)

\* "Empty list means nothing is holding confidence back" (scoring.py:141), and
\* confidence falls short only for a reason that is given.  The list may name the
\* peers and the regime when nothing holds it back: confidence() reads neither.
ReasonsExplain == (Reasons(Conflicts) \subseteq {"peers", "regime"}) <=> (Confidence(Conflicts) = 1000)

\* After an update the record shows the score the row has, to a tenth: nothing
\* that moves it goes by without a snapshot, whichever event it comes with.
RecordIsCurrent ==
  mentioned =>
    LET score == Score(Confidence(Conflicts))
    IN /\ score.conf - last.conf \in -1..1
       /\ <<score.rec, score.pillars>> = <<last.rec, last.pillars>>

\* A snapshot tells something the one before did not, or documents an event
\* ("repeating it every refresh produced duplicate snapshots", pipeline.py:266).
SnapshotsDiffer == ~repeated

\* The record and its explanations are those of the row.
HistoryIsTrue == ConflictsAreReal /\ ReasonsExplain /\ RecordIsCurrent /\ SnapshotsDiffer
=============================================================================

--------------------------- MODULE LifecycleProofs ---------------------------
(***************************************************************************)
(* No pass takes a row back, whatever the sources say and in whatever order*)
(* the passes run, as long as no two sessions have a pass open at once.    *)
(***************************************************************************)
EXTENDS PredictionLedger, FiniteSetTheorems, TLAPS

\* A session between two loads decides by nothing.
Session == [job : Jobs, open : BOOLEAN, view : [Keys -> Row]]

\* The only open pass still sees the table as it is.
NobodyElseWrites ==
  ~overlapped =>
    \A p \in Sessions : sess[p].open =>
      /\ sess[p].view = row
      /\ \A q \in Sessions : sess[q].open => q = p

LifeInv ==
  /\ row \in [Keys -> Row]
  /\ sess \in [Sessions -> Session]
  /\ overlapped \in BOOLEAN
  /\ NobodyElseWrites

-----------------------------------------------------------------------------
(* Rows only move up. *)

\* The rows a pass may make of a row: rows, of no lower rank.
Above(r) == {n \in Row : Rank(n.status) >= Rank(r.status)}

LEMMA RankValues ==
  /\ Rank("none") = 0 /\ Rank("Filed") = 10 /\ Rank("Upcoming") = 20 /\ Rank("Open") = 30
  /\ Rank("Closed") = 40 /\ Rank("Listed") = 60 /\ Rank("Withdrawn") = 70 /\ Rank("NotIPO") = 80
BY DEF Rank

LEMMA RanksAreNumbers ==
  ASSUME NEW s \in Statuses \cup {"none"}
  PROVE  Rank(s) \in Nat
BY DEF Statuses, Rank

LEMMA ListedIsAbove ==
  ASSUME NEW s \in {"Upcoming", "Open", "Closed", "Listed"} PROVE Rank("Listed") >= Rank(s)
<1>1. Rank(s) \in {20, 30, 40, 60} /\ Rank("Listed") = 60
  BY DEF Rank
<1> QED
  BY <1>1

LEMMA ClosedIsAbove ==
  ASSUME NEW s \in {"Upcoming", "Open"} PROVE Rank("Closed") >= Rank(s)
<1>1. Rank(s) \in {20, 30} /\ Rank("Closed") = 40
  BY DEF Rank
<1> QED
  BY <1>1

LEMMA NotIpoIsAbove ==
  ASSUME NEW s \in Statuses PROVE Rank("NotIPO") >= Rank(s)
<1>1. Rank(s) \in {10, 20, 30, 40, 60, 70, 80}
  <2>1. \/ Rank(s) = 10 \/ Rank(s) = 20 \/ Rank(s) = 30 \/ Rank(s) = 40
        \/ Rank(s) = 60 \/ Rank(s) = 70 \/ Rank(s) = 80
    BY RankValues DEF Statuses
  <2> QED
    BY <2>1
<1>2. \A n \in {10, 20, 30, 40, 60, 70, 80} : 80 >= n
  OBVIOUS
<1>3. 80 >= Rank(s)
  BY <1>1, <1>2
<1> QED
  BY <1>3, RankValues

\* The fields of a row, one at a time.
LEMMA RowFields ==
  ASSUME NEW r \in Row
  PROVE  /\ r.status \in Statuses \cup {"none"}
         /\ r.symbol \in BOOLEAN /\ r.isin \in BOOLEAN /\ r.dated \in BOOLEAN /\ r.priced \in BOOLEAN
         /\ DOMAIN r = {"status", "symbol", "isin", "dated", "priced"}
BY DEF Row

LEMMA AbsentIsARow == Absent \in Row /\ Created \in Row /\ Created.status = "Filed"
BY DEF Absent, Created, Row, Statuses

\* Assigning the status of a row, or its other columns.
LEMMA StatusChanges ==
  ASSUME NEW r \in Row, NEW s \in Statuses
  PROVE  [r EXCEPT !.status = s] \in Row /\ [r EXCEPT !.status = s].status = s
BY DEF Row

LEMMA SymbolFound ==
  ASSUME NEW r \in Row, NEW b \in BOOLEAN
  PROVE  [r EXCEPT !.symbol = b] \in Row /\ [r EXCEPT !.symbol = b].status = r.status
BY DEF Row

LEMMA IsinFound ==
  ASSUME NEW r \in Row, NEW b \in BOOLEAN
  PROVE  [r EXCEPT !.isin = b] \in Row /\ [r EXCEPT !.isin = b].status = r.status
BY DEF Row

LEMMA DateFound ==
  ASSUME NEW r \in Row, NEW b \in BOOLEAN
  PROVE  [r EXCEPT !.dated = b] \in Row /\ [r EXCEPT !.dated = b].status = r.status
BY DEF Row

LEMMA PriceFound ==
  ASSUME NEW r \in Row, NEW b \in BOOLEAN
  PROVE  [r EXCEPT !.priced = b] \in Row /\ [r EXCEPT !.priced = b].status = r.status
BY DEF Row

\* Above is transitive: columns are assigned one after another.
LEMMA AboveAgain ==
  ASSUME NEW r \in Row, NEW n \in Above(r), NEW m \in Above(n)
  PROVE  m \in Above(r)
<1>1. /\ n \in Row /\ m \in Row
      /\ Rank(n.status) >= Rank(r.status) /\ Rank(m.status) >= Rank(n.status)
  BY DEF Above
<1>2. Rank(r.status) \in Nat /\ Rank(n.status) \in Nat /\ Rank(m.status) \in Nat
  BY <1>1, RowFields, RanksAreNumbers
<1>3. Rank(m.status) >= Rank(r.status)
  BY <1>1, <1>2
<1> QED
  BY <1>1, <1>3 DEF Above

LEMMA SameStatus ==
  ASSUME NEW r \in Row, NEW n \in Row, n.status = r.status
  PROVE  n \in Above(r)
BY RowFields, RanksAreNumbers DEF Above

LEMMA StoredAbove ==
  ASSUME NEW r \in Row
  PROVE  Stored(r) \in Above(r) /\ Stored(r) \in Row
<1>1. CASE r.status = "none"
  <2>1. Stored(r) = Created /\ Created \in Row /\ Rank(Created.status) = 10 /\ Rank(r.status) = 0
    BY <1>1, AbsentIsARow, RankValues DEF Stored
  <2> QED
    BY <2>1 DEF Above
<1>2. CASE r.status # "none"
  BY <1>2, SameStatus DEF Stored
<1> QED
  BY <1>1, <1>2 DEF Above

\* status_can_transition: an assignment that it guards never moves a row back.
LEMMA WithStatusAbove ==
  ASSUME NEW r \in Row, NEW s \in Statuses
  PROVE  WithStatus(r, s) \in Above(r) /\ WithStatus(r, s) \in Row
<1>1. CASE CanTransition(r.status, s)
  BY <1>1, StatusChanges DEF CanTransition, WithStatus, Above
<1>2. CASE ~CanTransition(r.status, s)
  BY <1>2, SameStatus DEF WithStatus
<1> QED
  BY <1>1, <1>2 DEF Above

\* upsert_ipo of any source's row: stored first, then its status.
LEMMA UpsertAbove ==
  ASSUME NEW r \in Row, NEW s \in Statuses
  PROVE  WithStatus(Stored(r), s) \in Above(r) /\ WithStatus(Stored(r), s) \in Row
BY StoredAbove, WithStatusAbove, AboveAgain

\* A status assigned past the guard moves the row up as well.
LEMMA AssignedAbove ==
  ASSUME NEW r \in Row, NEW s \in Statuses, Rank(s) >= Rank(r.status)
  PROVE  [r EXCEPT !.status = s] \in Above(r)
BY StatusChanges DEF Above

LEMMA FromFilingAbove ==
  ASSUME NEW o, NEW r \in Row
  PROVE  FromFiling(o, r) \in Above(r)
BY UpsertAbove DEF FromFiling, Statuses

LEMMA FromLiveFeedAbove ==
  ASSUME NEW r \in Row, NEW says \in {"Upcoming", "Open"}
  PROVE  FromLiveFeed(r, says) \in Above(r)
<1> DEFINE n == WithStatus(Stored(r), says)
<1>1. n \in Above(r) /\ n \in Row
  BY UpsertAbove DEF Statuses
<1> HIDE DEF n
<1>2. [n EXCEPT !.symbol = TRUE] \in Above(n)
  BY <1>1, SymbolFound, SameStatus
<1> QED
  BY <1>1, <1>2, AboveAgain DEF FromLiveFeed, n

\* The other columns, once the status is assigned.
LEMMA ColumnsAbove ==
  ASSUME NEW r \in Row, NEW n \in Above(r), NEW m \in Row, m.status = n.status
  PROVE  m \in Above(r)
BY SameStatus, AboveAgain DEF Above

LEMMA FromPricingAbove ==
  ASSUME NEW o, NEW r \in Row
  PROVE  FromPricing(o, r) \in Above(r)
<1>1. CASE stage[o] = "withdrawn" /\ r.status \in {"Filed", "Upcoming", "Open", "Closed"}
  <2>1. FromPricing(o, r) = WithStatus(r, "Withdrawn")
    BY <1>1 DEF FromPricing
  <2> QED
    BY <2>1, WithStatusAbove DEF Statuses
<1>2. CASE stage[o] = "listed"
  <2> DEFINE n == WithStatus(Stored(r), "Listed")
  <2>1. n \in Above(r) /\ n \in Row
    BY UpsertAbove DEF Statuses
  <2>2. FromPricing(o, r) = [n EXCEPT !.symbol = TRUE, !.dated = TRUE, !.priced = TRUE]
    BY <1>2 DEF FromPricing
  <2> HIDE DEF n
  <2>3. FromPricing(o, r) \in Row /\ FromPricing(o, r).status = n.status
    BY <2>1, <2>2 DEF Row
  <2> QED
    BY <2>1, <2>3, ColumnsAbove
<1>3. CASE ~(stage[o] = "withdrawn" /\ r.status \in {"Filed", "Upcoming", "Open", "Closed"})
           /\ stage[o] # "listed"
  BY <1>3, SameStatus DEF FromPricing
<1> QED
  BY <1>1, <1>2, <1>3

LEMMA FromReportAbove ==
  ASSUME NEW o, NEW r \in Row
  PROVE  FromReport(o, r) \in Above(r)
<1>1. CASE stage[o] = "listed" /\ o \notin Junk
  <2> DEFINE n == WithStatus(Stored(r), "Listed")
  <2>1. n \in Above(r) /\ n \in Row
    BY UpsertAbove DEF Statuses
  <2>2. FromReport(o, r) = [n EXCEPT !.isin = TRUE, !.dated = TRUE, !.priced = TRUE]
    BY <1>1 DEF FromReport
  <2> HIDE DEF n
  <2>3. FromReport(o, r) \in Row /\ FromReport(o, r).status = n.status
    BY <2>1, <2>2 DEF Row
  <2> QED
    BY <2>1, <2>3, ColumnsAbove
<1>2. CASE ~(stage[o] = "listed" /\ o \notin Junk)
  BY <1>2, SameStatus DEF FromReport
<1> QED
  BY <1>1, <1>2

\* The three writers that assign a status without status_can_transition look at
\* the row's status first.
LEMMA FromPastIssuesAbove ==
  ASSUME NEW o, NEW r \in Row
  PROVE  FromPastIssues(o, r) \in Above(r)
<1>1. CASE stage[o] = "listed" /\ r.symbol /\ r.status \notin {"none", "NotIPO", "Withdrawn"}
  <2> DEFINE s == IF r.status \in {"Open", "Closed"} THEN "Listed" ELSE r.status
             n == [r EXCEPT !.status = s]
  <2>1. s \in Statuses /\ Rank(s) >= Rank(r.status)
    <3>1. CASE r.status \in {"Open", "Closed"}
      BY <3>1, ListedIsAbove DEF Statuses
    <3>2. CASE r.status \notin {"Open", "Closed"}
      <4>1. s = r.status /\ s \in Statuses
        BY <1>1, <3>2, RowFields
      <4> QED
        BY <4>1, RanksAreNumbers
    <3> QED
      BY <3>1, <3>2
  <2>2. FromPastIssues(o, r) = [r EXCEPT !.dated = TRUE, !.priced = TRUE, !.status = s]
    BY <1>1 DEF FromPastIssues
  <2> HIDE DEF s
  <2>3. n \in Above(r) /\ n.status = s
    BY <2>1, AssignedAbove, StatusChanges
  <2>4. FromPastIssues(o, r) \in Row /\ FromPastIssues(o, r).status = s
    BY <2>1, <2>2 DEF Row
  <2> QED
    BY <2>3, <2>4, ColumnsAbove
<1>2. CASE ~(stage[o] = "listed" /\ r.symbol /\ r.status \notin {"none", "NotIPO", "Withdrawn"})
  BY <1>2, SameStatus DEF FromPastIssues
<1> QED
  BY <1>1, <1>2

LEMMA FromMastersAbove ==
  ASSUME NEW o, NEW r \in Row
  PROVE  FromMasters(o, r) \in Above(r)
<1> DEFINE known == stage[o] = "listed" /\ r.status \in {"Listed", "Open", "Closed", "Upcoming"}
<1>1. CASE known /\ ~r.symbol
  BY <1>1, SymbolFound, SameStatus DEF FromMasters
<1>2. CASE known /\ r.symbol /\ ~r.isin /\ r.status # "Upcoming"
  <2> DEFINE n == [r EXCEPT !.status = "Listed"]
  <2>1. FromMasters(o, r) = [r EXCEPT !.isin = TRUE, !.dated = TRUE, !.status = "Listed"]
    BY <1>2 DEF FromMasters
  <2>2. n \in Above(r) /\ n.status = "Listed"
    <3>1. Rank("Listed") >= Rank(r.status)
      BY <1>2, ListedIsAbove
    <3> QED
      BY <3>1, AssignedAbove, StatusChanges DEF Statuses
  <2>3. FromMasters(o, r) \in Row /\ FromMasters(o, r).status = "Listed"
    BY <2>1 DEF Row, Statuses
  <2> HIDE DEF n
  <2> QED
    BY <2>2, <2>3, ColumnsAbove
<1>3. CASE ~(known /\ ~r.symbol) /\ ~(known /\ r.symbol /\ ~r.isin /\ r.status # "Upcoming")
  <2>1. FromMasters(o, r) = r
    BY <1>3 DEF FromMasters
  <2> QED
    BY <2>1, SameStatus
<1> QED
  BY <1>1, <1>2, <1>3

LEMMA OtherKeyIsAKey ==
  ASSUME NEW k \in Keys, k[1] \in India
  PROVE  OtherKey(k) \in Keys
BY LifecycleAssumption DEF Keys, OtherKey

LEMMA ReconciledAbove ==
  ASSUME NEW view \in [Keys -> Row], NEW k \in Keys, k[1] \in India
  PROVE  Reconciled(k, view) \in Above(view[k])
<1> DEFINE r == view[k]
           match == view[OtherKey(k)]
<1>1. r \in Row /\ match \in Row
  BY OtherKeyIsAKey
<1>2. CASE r.status = "none"
  BY <1>1, <1>2, SameStatus DEF Reconciled
<1>3. CASE r.status # "none" /\ k[1] \in Junk
  <2>1. Rank("NotIPO") >= Rank(r.status)
    BY <1>1, <1>3, RowFields, NotIpoIsAbove
  <2>2. Reconciled(k, view) = [r EXCEPT !.status = "NotIPO"]
    BY <1>3 DEF Reconciled
  <2> HIDE DEF r
  <2> QED
    BY <1>1, <2>1, <2>2, AssignedAbove DEF Statuses, r
<1>4. CASE /\ r.status # "none" /\ k[1] \notin Junk
           /\ r.status \in {"Open", "Upcoming", "Closed"} /\ match.status = "Listed"
  <2> DEFINE n == [r EXCEPT !.status = "Listed"]
  <2>1. Reconciled(k, view) =
          [r EXCEPT !.status = "Listed", !.dated = @ \/ match.dated,
                    !.priced = @ \/ match.priced, !.isin = @ \/ match.isin]
    BY <1>4 DEF Reconciled
  <2>2. Rank("Listed") >= Rank(r.status)
    BY <1>4, ListedIsAbove
  <2> HIDE DEF r, match
  <2>3. n \in Above(r) /\ n.status = "Listed"
    BY <1>1, <2>2, AssignedAbove, StatusChanges DEF Statuses
  <2>4. /\ r.dated \/ match.dated \in BOOLEAN
        /\ r.priced \/ match.priced \in BOOLEAN
        /\ r.isin \/ match.isin \in BOOLEAN
    BY <1>1, RowFields, Zenon
  <2>5. Reconciled(k, view) \in Row /\ Reconciled(k, view).status = "Listed"
    BY <1>1, <2>1, <2>4 DEF Row, Statuses
  <2> QED
    BY <1>1, <2>3, <2>5, ColumnsAbove DEF r
<1>5. CASE /\ r.status # "none" /\ k[1] \notin Junk
           /\ ~(r.status \in {"Open", "Upcoming", "Closed"} /\ match.status = "Listed")
           /\ r.status \in {"Open", "Upcoming"} /\ stage[k[1]] # "active"
  <2>1. Rank("Closed") >= Rank(r.status)
    BY <1>5, ClosedIsAbove
  <2>2. Reconciled(k, view) = [r EXCEPT !.status = "Closed"]
    BY <1>5 DEF Reconciled
  <2> HIDE DEF r
  <2> QED
    BY <1>1, <2>1, <2>2, AssignedAbove DEF Statuses, r
<1>6. CASE /\ r.status # "none" /\ k[1] \notin Junk
           /\ ~(r.status \in {"Open", "Upcoming", "Closed"} /\ match.status = "Listed")
           /\ ~(r.status \in {"Open", "Upcoming"} /\ stage[k[1]] # "active")
  BY <1>1, <1>6, SameStatus DEF Reconciled
<1> QED
  BY <1>2, <1>3, <1>4, <1>5, <1>6

-----------------------------------------------------------------------------
\* Whatever the sources say, a pass moves the rows it has loaded up, or leaves
\* them alone.
LEMMA DecisionAbove ==
  ASSUME NEW job \in Jobs, NEW view \in [Keys -> Row], NEW k \in Keys,
         NEW upserted, NEW says \in {"Upcoming", "Open"}
  PROVE  Decision(job, k, view, upserted, says) \in Above(view[k])
<1> DEFINE d == Decision(job, k, view, upserted, says)
<1>0. view[k] \in Row
  OBVIOUS
<1>1. CASE job \in {"reconcile", "again"} /\ k[1] \in India
  BY <1>1, ReconciledAbove DEF Decision
<1>2. CASE job = "past" /\ k[1] \in India
  BY <1>0, <1>2, FromPastIssuesAbove DEF Decision
<1>3. CASE job = "symbols" /\ k[1] \in India
  BY <1>0, <1>3, FromMastersAbove DEF Decision
<1>4. CASE job = "sec" /\ k \in upserted /\ k[1] \notin India
  BY <1>0, <1>4, FromFilingAbove DEF Decision
<1>5. CASE job = "priced" /\ k \in upserted /\ k[1] \notin India
  BY <1>0, <1>5, FromPricingAbove DEF Decision
<1>6. CASE job = "nse" /\ k \in upserted /\ k[1] \in India
  BY <1>0, <1>6, FromLiveFeedAbove DEF Decision
<1>7. CASE job = "history" /\ k \in upserted /\ k[1] \in India
  BY <1>0, <1>7, FromReportAbove DEF Decision
<1>8. CASE d = view[k]
  BY <1>0, <1>8, SameStatus
<1>9. \/ job \in {"reconcile", "again"} /\ k[1] \in India
      \/ job = "past" /\ k[1] \in India
      \/ job = "symbols" /\ k[1] \in India
      \/ job = "sec" /\ k \in upserted /\ k[1] \notin India
      \/ job = "priced" /\ k \in upserted /\ k[1] \notin India
      \/ job = "nse" /\ k \in upserted /\ k[1] \in India
      \/ job = "history" /\ k \in upserted /\ k[1] \in India
      \/ d = view[k]
  BY DEF Decision
<1> QED
  BY <1>1, <1>2, <1>3, <1>4, <1>5, <1>6, <1>7, <1>8, <1>9

\* The UPDATE of a pass that saw the row as it is leaves what the pass wanted.
LEMMA MergeIsNew ==
  ASSUME NEW cur \in Row, NEW new \in Row
  PROVE  Merge(cur, cur, new) = new
<1>1. Merge(cur, cur, new) = [f \in {"status", "symbol", "isin", "dated", "priced"} |-> new[f]]
  BY RowFields DEF Merge
<1>2. new = [f \in {"status", "symbol", "isin", "dated", "priced"} |-> new[f]]
  BY DEF Row
<1> QED
  BY <1>1, <1>2

\* And any other UPDATE leaves a row.
LEMMA MergeIsARow ==
  ASSUME NEW cur \in Row, NEW was \in Row, NEW new \in Row
  PROVE  Merge(cur, was, new) \in Row
<1> DEFINE n == Merge(cur, was, new)
<1>1. n = [f \in {"status", "symbol", "isin", "dated", "priced"} |->
             IF new[f] # was[f] THEN new[f] ELSE cur[f]]
  BY RowFields DEF Merge
<1>2. /\ n.status \in {new.status, cur.status}
      /\ n.symbol \in {new.symbol, cur.symbol}
      /\ n.isin \in {new.isin, cur.isin}
      /\ n.dated \in {new.dated, cur.dated}
      /\ n.priced \in {new.priced, cur.priced}
  BY <1>1
<1>3. /\ n.status \in Statuses \cup {"none"}
      /\ n.symbol \in BOOLEAN /\ n.isin \in BOOLEAN /\ n.dated \in BOOLEAN /\ n.priced \in BOOLEAN
  BY <1>2, RowFields
<1>4. n = [status |-> n.status, symbol |-> n.symbol, isin |-> n.isin,
           dated |-> n.dated, priced |-> n.priced]
  BY <1>1
<1> QED
  BY <1>3, <1>4 DEF Row

-----------------------------------------------------------------------------
\* What a pass that commits makes of each row: a row, and, if it saw the rows as
\* they are, the row it decided for.
LEMMA MergesAbove ==
  ASSUME LifeInv, NEW p \in Sessions, NEW upserted, NEW says \in {"Upcoming", "Open"},
         row' = [k \in Keys |-> Merge(row[k], Known(p)[k], Wanted(p, upserted, says)[k])]
  PROVE  /\ row' \in [Keys -> Row]
         /\ sess[p].view = row => \A k \in Keys : row'[k] \in Above(row[k])
<1>1. sess[p].view \in [Keys -> Row] /\ sess[p].job \in Jobs /\ row \in [Keys -> Row]
  BY DEF LifeInv, Session
<1>2. row' = [k \in Keys |-> Merge(row[k], Known(p)[k], Wanted(p, upserted, says)[k])]
  OBVIOUS
<1> DEFINE known == Known(p)
           new == Wanted(p, upserted, says)
<1>3. known \in [Keys -> Row]
  BY <1>1 DEF Known
<1>4. \A k \in Keys : new[k] \in Above(known[k])
  BY <1>1, <1>3, DecisionAbove DEF Wanted
<1> HIDE DEF known, new
<1>5. \A k \in Keys : new[k] \in Row
  BY <1>4 DEF Above
<1>6. ASSUME NEW k \in Keys PROVE row'[k] \in Row
  BY <1>1, <1>2, <1>3, <1>5, MergeIsARow DEF known, new
<1>7. ASSUME sess[p].view = row, NEW k \in Keys PROVE row'[k] \in Above(row[k])
  <2>1. known[k] = row[k]
    BY <1>7 DEF known, Known
  <2> QED
    BY <1>1, <1>2, <1>4, <1>5, <2>1, MergeIsNew DEF known, new
<1>8. row' = [k \in Keys |-> row'[k]]
  BY <1>2
<1> QED
  BY <1>6, <1>7, <1>8

LEMMA CommitIsOfRows ==
  ASSUME NEW p, CommitPass(p)
  PROVE  /\ sess[p].open
         /\ \E upserted, moved : \E says \in {"Upcoming", "Open"} : CommitRows(p, upserted, says, moved)
<1>1. PICK feed \in IF sess[p].job \in Upserting THEN SUBSET Announced ELSE {{}},
           says \in IF sess[p].job = "nse" THEN {"Upcoming", "Open"} ELSE {"Open"},
           moved \in IF sess[p].job \in Upserting THEN BOOLEAN ELSE {FALSE} :
        CommitRows(p, {Mentioned(p, sess[p].job, o) : o \in feed}, says, moved)
  BY Zenon DEF CommitPass
<1>2. says \in {"Upcoming", "Open"}
  OBVIOUS
<1> QED
  BY <1>1, <1>2, Zenon DEF CommitPass

LEMMA CommitMerges ==
  ASSUME LifeInv, NEW p \in Sessions, CommitPass(p)
  PROVE  /\ row' \in [Keys -> Row]
         /\ sess[p].view = row => \A k \in Keys : row'[k] \in Above(row[k])
<1>1. PICK upserted, moved : \E says \in {"Upcoming", "Open"} : CommitRows(p, upserted, says, moved)
  BY CommitIsOfRows
<1>2. PICK says \in {"Upcoming", "Open"} : CommitRows(p, upserted, says, moved)
  BY <1>1
<1>3. row' = [k \in Keys |-> Merge(row[k], Known(p)[k], Wanted(p, upserted, says)[k])]
  BY <1>2 DEF CommitRows
<1> QED
  BY <1>3, MergesAbove

-----------------------------------------------------------------------------
LEMMA SessionFields ==
  ASSUME LifeInv, NEW p \in Sessions
  PROVE  /\ sess[p].job \in Jobs /\ sess[p].open \in BOOLEAN /\ sess[p].view \in [Keys -> Row]
         /\ sess[p] = [job |-> sess[p].job, open |-> sess[p].open, view |-> sess[p].view]
BY DEF LifeInv, Session

LEMMA NextJobIsAJob ==
  ASSUME NEW p, NEW job \in Jobs PROVE NextJob(p, job) \in Jobs
BY DEF NextJob, Jobs

LEMMA LifeInitial == Init => LifeInv
<1> SUFFICES ASSUME Init PROVE LifeInv
  OBVIOUS
<1>1. row \in [Keys -> Row] /\ NoView \in [Keys -> Row]
  BY AbsentIsARow DEF Init, NoView
<1>2. sess \in [Sessions -> Session]
  BY <1>1 DEF Init, Session, Jobs
<1> QED
  BY <1>1, <1>2 DEF Init, LifeInv, NobodyElseWrites

\* A pass that ends leaves nobody inside, or somebody who had overlapped it.
LEMMA PassEnds ==
  ASSUME LifeInv, NEW p \in Sessions, NEW job \in Jobs, sess[p].open,
         sess' = [sess EXCEPT ![p] = [job |-> job, open |-> FALSE, view |-> NoView]],
         overlapped' = overlapped, row' \in [Keys -> Row]
  PROVE  LifeInv'
<1> DEFINE s == [job |-> job, open |-> FALSE, view |-> NoView]
<1>1. s \in Session /\ ~s.open
  BY AbsentIsARow DEF Session, NoView
<1>2. sess' = [sess EXCEPT ![p] = s]
  OBVIOUS
<1> HIDE DEF s
<1>3. sess' \in [Sessions -> Session] /\ sess'[p] = s /\ \A q \in Sessions \ {p} : sess'[q] = sess[q]
  BY <1>1, <1>2 DEF LifeInv
<1>4. NobodyElseWrites'
  BY <1>1, <1>3 DEF LifeInv, NobodyElseWrites
<1> QED
  BY <1>3, <1>4 DEF LifeInv

LEMMA LifeStep == LifeInv /\ [LifeNext]_lifeVars => LifeInv'
<1> SUFFICES ASSUME LifeInv, [LifeNext]_lifeVars PROVE LifeInv'
  OBVIOUS
<1>1. ASSUME NEW o \in Offerings, Progress(o) PROVE LifeInv'
  BY <1>1 DEF Progress, LifeInv, NobodyElseWrites
<1>2. ASSUME NEW p \in Sessions, Begin(p) PROVE LifeInv'
  <2> DEFINE s == [job |-> sess[p].job, open |-> TRUE, view |-> row]
  <2>1. s \in Session /\ s.view = row
    BY SessionFields DEF LifeInv, Session
  <2>2. sess' = [sess EXCEPT ![p] = s]
    BY <1>2 DEF Begin
  <2> HIDE DEF s
  <2>3. sess' \in [Sessions -> Session] /\ sess'[p] = s /\ \A q \in Sessions \ {p} : sess'[q] = sess[q]
    BY <2>1, <2>2 DEF LifeInv
  <2>4. /\ row' = row /\ overlapped' \in BOOLEAN
        /\ ~overlapped' => ~overlapped /\ \A q \in Sessions \ {p} : ~sess[q].open
    BY <1>2 DEF Begin, LifeInv
  <2>5. NobodyElseWrites'
    BY <2>1, <2>3, <2>4 DEF LifeInv, NobodyElseWrites
  <2> QED
    BY <2>3, <2>4, <2>5 DEF LifeInv
<1>3. ASSUME NEW p \in Sessions, CommitPass(p) PROVE LifeInv'
  <2>1. /\ sess[p].open /\ overlapped' = overlapped
        /\ sess' = [sess EXCEPT ![p] = [job |-> NextJob(p, sess[p].job), open |-> FALSE, view |-> NoView]]
    BY <1>3, CommitIsOfRows DEF CommitRows
  <2>2. NextJob(p, sess[p].job) \in Jobs /\ row' \in [Keys -> Row]
    BY <1>3, SessionFields, NextJobIsAJob, CommitMerges
  <2> QED
    BY <2>1, <2>2, PassEnds
<1>4. ASSUME NEW p \in Sessions, FailPass(p) PROVE LifeInv'
  <2>1. PICK job \in {NextJob(p, sess[p].job), "reconcile"} :
          sess' = [sess EXCEPT ![p] = [job |-> job, open |-> FALSE, view |-> NoView]]
    BY <1>4 DEF FailPass
  <2>2. job \in Jobs /\ sess[p].open /\ overlapped' = overlapped /\ row' \in [Keys -> Row]
    <3>1. "reconcile" \in Jobs /\ NextJob(p, sess[p].job) \in Jobs
      BY SessionFields, NextJobIsAJob DEF Jobs
    <3> QED
      BY <1>4, <2>1, <3>1 DEF FailPass, LifeInv
  <2> QED
    BY <2>1, <2>2, PassEnds
<1>5. CASE UNCHANGED lifeVars
  BY <1>5 DEF lifeVars, LifeInv, NobodyElseWrites
<1> QED
  BY <1>1, <1>2, <1>3, <1>4, <1>5 DEF LifeNext

\* The ledger's own steps leave rows and sessions alone.
LEMMA LedgerStep == LifeInv /\ [LedgerNext]_vars => LifeInv'
<1> SUFFICES ASSUME LifeInv, [LedgerNext]_vars PROVE LifeInv'
  OBVIOUS
<1>1. CASE [LifeNext]_lifeVars
  BY <1>1, LifeStep
<1>2. CASE SyncOutcomes \/ (\E o \in Offerings : SessionCloses(o)) \/ (\E k \in Keys : RetryDue(k))
  <2>1. UNCHANGED <<row, sess, overlapped>>
    BY <1>2 DEF SyncOutcomes, SessionCloses, RetryDue, lifeVars
  <2> QED
    BY <2>1 DEF LifeInv, NobodyElseWrites
<1> QED
  BY <1>1, <1>2 DEF LedgerNext, vars

\* While no two sessions have overlapped, the only open pass decides by the
\* table as it is, with or without the grading of predictions.
THEOREM LifeInvariant == (LifeSpec => []LifeInv) /\ (Spec => []LifeInv)
<1>1. LedgerInit => LifeInv
  BY LifeInitial DEF LedgerInit
<1> QED
  BY <1>1, LifeInitial, LifeStep, LedgerStep, PTL DEF LifeSpec, Spec

\* No step makes the sessions forget that two of them overlapped.
LEMMA OverlapStays ==
  ASSUME [LedgerNext]_vars, ~overlapped' PROVE ~overlapped
<1>1. \A p \in Sessions : CommitPass(p) => overlapped' = overlapped
  BY CommitIsOfRows DEF CommitRows
<1>2. \A p \in Sessions : Begin(p) => ~overlapped
  BY DEF Begin
<1> QED
  BY <1>1, <1>2 DEF LedgerNext, LifeNext, Progress, FailPass, SyncOutcomes, SessionCloses, RetryDue,
                    vars, lifeVars

\* What a step of a refresh does to the rows while nobody overlaps.
LEMMA RowsMoveUp ==
  ASSUME LifeInv, [LedgerNext]_vars, ~overlapped', NEW k \in Keys
  PROVE  row'[k] \in Above(row[k])
<1>1. row[k] \in Above(row[k])
  BY SameStatus DEF LifeInv
<1>2. ASSUME NEW p \in Sessions, CommitPass(p)
      PROVE  row'[k] \in Above(row[k])
  <2>1. sess[p].view = row
    BY <1>2, CommitIsOfRows, OverlapStays DEF LifeInv, NobodyElseWrites
  <2> QED
    BY <1>2, <2>1, CommitMerges
<1>3. row' = row \/ \E p \in Sessions : CommitPass(p)
  BY DEF LedgerNext, LifeNext, Progress, Begin, FailPass, SyncOutcomes, SessionCloses, RetryDue,
         vars, lifeVars
<1> QED
  BY <1>1, <1>2, <1>3

\* No status goes back as long as no two sessions refresh at once
\* (identity.py:94), for any number of offerings, sessions and troubles: not
\* even by the three writers that do not ask status_can_transition.
THEOREM StatusesMoveForward == Spec => StatusMovesForward
<1>1. LifeInv /\ [LedgerNext]_vars =>
        [~overlapped' => \A k \in Keys : Rank(row'[k].status) >= Rank(row[k].status)]_lifeVars
  BY RowsMoveUp DEF Above
<1> QED
  BY <1>1, LifeInvariant, PTL DEF Spec, StatusMovesForward

-----------------------------------------------------------------------------
(* One outcome. *)

\* The predictions of an issue that is not settled are ungraded; those of one
\* that is share their outcome.
OutcomesAgree ==
  ~overlapped => \A k \in Keys :
    /\ \A x, y \in forwards[k] : x = y
    /\ row[k].status \notin Terminal => forwards[k] \subseteq {Ungraded}

\* Only what is listed, and not graded yet, comes up for grading.
LEMMA DueIsListed ==
  ASSUME NEW k \in Keys, Due(k) # {}
  PROVE  row[k].status = "Listed" /\ Due(k) \subseteq forwards[k]
BY DEF Due, Category

\* A status of the rank of a listed issue stays terminal.
LEMMA TerminalStays ==
  ASSUME NEW r \in Row, NEW n \in Above(r), r.status \in Terminal
  PROVE  n.status \in Terminal
<1>1. n.status \in Statuses \cup {"none"} /\ Rank(n.status) >= Rank(r.status)
  BY RowFields DEF Above
<1>2. Rank(r.status) \in {60, 70, 80}
  BY DEF Rank, Terminal
<1>3. n.status \in Terminal \/ Rank(n.status) \in {0, 10, 20, 30, 40}
  <2>1. n.status \in Terminal \/ n.status \in {"none", "Filed", "Upcoming", "Open", "Closed"}
    BY <1>1 DEF Statuses, Terminal
  <2>2. \A s \in {"none", "Filed", "Upcoming", "Open", "Closed"} :
          Rank(s) = 0 \/ Rank(s) = 10 \/ Rank(s) = 20 \/ Rank(s) = 30 \/ Rank(s) = 40
    BY RankValues
  <2> QED
    BY <2>1, <2>2
<1>4. \A i \in {60, 70, 80}, j \in {0, 10, 20, 30, 40} : ~(j >= i)
  OBVIOUS
<1> QED
  BY <1>1, <1>2, <1>3, <1>4

\* A pass that saw the rows as they are predicts for those it leaves unsettled.
LEMMA CommitPredicts ==
  ASSUME LifeInv, NEW p \in Sessions, CommitPass(p), sess[p].view = row, NEW k \in Keys
  PROVE  \/ forwards'[k] = forwards[k]
         \/ row'[k].status \notin Terminal /\ forwards'[k] = forwards[k] \cup {Ungraded}
<1>1. PICK upserted, moved : \E says \in {"Upcoming", "Open"} : CommitRows(p, upserted, says, moved)
  BY CommitIsOfRows
<1>2. PICK says \in {"Upcoming", "Open"} : CommitRows(p, upserted, says, moved)
  BY <1>1
<1> DEFINE new == Wanted(p, upserted, says)
<1>3. /\ row' = [j \in Keys |-> Merge(row[j], Known(p)[j], new[j])]
      /\ forwards' = [j \in Keys |->
           IF sess[p].job \in Upserting /\ j \in upserted /\ new[j] # Absent
           THEN Predicted(j, Known(p)[j], new[j], moved) ELSE forwards[j]]
  BY <1>2 DEF CommitRows
<1>4. /\ Known(p) \in [Keys -> Row] /\ Known(p)[k] = row[k] /\ row[k] \in Row
      /\ sess[p].job \in Jobs
  BY DEF Known, LifeInv, Session
<1>5. new[k] = Decision(sess[p].job, k, Known(p), upserted, says)
  BY DEF Wanted
<1> HIDE DEF new
<1>6. new[k] \in Row
  BY <1>4, <1>5, DecisionAbove DEF Above
<1>7. row'[k] = new[k]
  BY <1>3, <1>4, <1>6, MergeIsNew
<1>8. forwards'[k] = forwards[k] \/ forwards'[k] = Predicted(k, Known(p)[k], new[k], moved)
  BY <1>3
<1> QED
  BY <1>7, <1>8 DEF Predicted

LEMMA OutcomesStep == LifeInv /\ OutcomesAgree /\ [LedgerNext]_vars => OutcomesAgree'
<1> SUFFICES ASSUME LifeInv, OutcomesAgree, [LedgerNext]_vars, ~overlapped', NEW k \in Keys
             PROVE  /\ \A x, y \in forwards'[k] : x = y
                    /\ row'[k].status \notin Terminal => forwards'[k] \subseteq {Ungraded}
  BY DEF OutcomesAgree
<1>1. /\ \A x, y \in forwards[k] : x = y
      /\ row[k].status \notin Terminal => forwards[k] \subseteq {Ungraded}
      /\ row[k] \in Row /\ row'[k] \in Above(row[k])
  <2> QED
    BY OverlapStays, RowsMoveUp DEF LifeInv, OutcomesAgree
<1>2. row'[k].status \notin Terminal => row[k].status \notin Terminal
  BY <1>1, TerminalStays
<1>3. ASSUME NEW p \in Sessions, CommitPass(p)
      PROVE  /\ \A x, y \in forwards'[k] : x = y
             /\ row'[k].status \notin Terminal => forwards'[k] \subseteq {Ungraded}
  <2>1. sess[p].view = row
    BY <1>3, CommitIsOfRows, OverlapStays DEF LifeInv, NobodyElseWrites
  <2>2. \/ forwards'[k] = forwards[k]
        \/ row'[k].status \notin Terminal /\ forwards'[k] = forwards[k] \cup {Ungraded}
    BY <1>3, <2>1, CommitPredicts
  <2> QED
    BY <1>1, <1>2, <2>2
<1>4. CASE SyncOutcomes
  <2>1. row' = row /\ \/ forwards'[k] = forwards[k]
                      \/ Due(k) # {} /\ \E x : forwards'[k] = (forwards[k] \ Due(k)) \cup {x}
    <3>1. PICK todo \in SUBSET {j \in Keys : Due(j) # {}} :
            \E missing \in SUBSET todo :
              forwards' = [j \in Keys |->
                CASE j \in missing -> (forwards[j] \ Due(j)) \cup {Blocked}
                  [] j \in todo \ missing -> (forwards[j] \ Due(j)) \cup {Graded(elapsed[j[1]] - 1)}
                  [] OTHER -> forwards[j]]
      <4> USE DEF SyncOutcomes
      <4> QED
        BY <1>4, Zenon
    <3>2. \/ forwards'[k] = forwards[k]
          \/ k \in todo /\ forwards'[k] = (forwards[k] \ Due(k)) \cup {Blocked}
          \/ k \in todo /\ forwards'[k] = (forwards[k] \ Due(k)) \cup {Graded(elapsed[k[1]] - 1)}
      <4>1. PICK missing \in SUBSET todo :
              forwards'[k] = CASE k \in missing -> (forwards[k] \ Due(k)) \cup {Blocked}
                  [] k \in todo \ missing -> (forwards[k] \ Due(k)) \cup {Graded(elapsed[k[1]] - 1)}
                  [] OTHER -> forwards[k]
        BY <3>1
      <4> QED
        BY <4>1
    <3> QED
      BY <1>4, <3>1, <3>2 DEF SyncOutcomes
  <2>2. ASSUME Due(k) # {}, NEW x, forwards'[k] = (forwards[k] \ Due(k)) \cup {x}
        PROVE  (\A y, z \in forwards'[k] : y = z) /\ row'[k].status \in Terminal
    <3>1. row[k].status = "Listed" /\ Due(k) \subseteq forwards[k]
      BY <2>2, DueIsListed
    <3>2. forwards[k] \ Due(k) = {}
      BY <1>1, <2>2, <3>1
    <3> QED
      BY <2>1, <2>2, <3>1, <3>2 DEF Terminal
  <2> QED
    BY <1>1, <2>1, <2>2
<1>5. CASE forwards' = forwards
  BY <1>1, <1>2, <1>5
<1>6. forwards' = forwards \/ SyncOutcomes \/ \E p \in Sessions : CommitPass(p)
  BY DEF LedgerNext, LifeNext, Progress, Begin, FailPass, SessionCloses, RetryDue, vars, lifeVars
<1> QED
  BY <1>3, <1>4, <1>5, <1>6

\* All forward predictions of an issue share one outcome (outcomes.py:6): none is
\* written once the issue is graded, or has been tried, and its row stays closed
\* to them, however refreshes and gradings follow one another, unless two
\* refreshes have overlapped.
THEOREM OneOutcomeHolds == Spec => []OneOutcome
<1>1. LedgerInit => OutcomesAgree
  BY DEF LedgerInit, Init, OutcomesAgree
<1>2. OutcomesAgree => OneOutcome
  <2> SUFFICES ASSUME OutcomesAgree, ~overlapped, NEW k \in Keys
               PROVE  /\ Cardinality(forwards[k]) <= 1
                      /\ forwards[k] \subseteq {Ungraded} \/ row[k].status \in Terminal
    BY DEF OneOutcome
  <2>1. /\ \A x, y \in forwards[k] : x = y
        /\ forwards[k] \subseteq {Ungraded} \/ row[k].status \in Terminal
    BY DEF OutcomesAgree
  <2>2. CASE forwards[k] = {}
    BY <2>1, <2>2, FS_EmptySet
  <2>3. CASE forwards[k] # {}
    <3>1. PICK x : x \in forwards[k]
      BY <2>3
    <3>2. forwards[k] = {x}
      BY <2>1, <3>1
    <3>3. Cardinality(forwards[k]) = 1
      BY <3>2, FS_Singleton
    <3> QED
      BY <2>1, <3>3
  <2> QED
    BY <2>2, <2>3
<1> QED
  BY <1>1, <1>2, OutcomesStep, LifeInvariant, PTL DEF Spec
=============================================================================

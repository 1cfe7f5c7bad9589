---------------------------- MODULE SymbolProofs ----------------------------
(***************************************************************************)
(* The identity a row is given is its own issuer's, for any number of      *)
(* symbols and any length of the listing window; the dataset holds nothing *)
(* of a row that was not known when it listed, the close of that day apart;*)
(* and the row of a registrant is what its filings say, whatever EDGAR     *)
(* answers.                                                                *)
(***************************************************************************)
EXTENDS SymbolResolution, PointInTime, EdgarFeed, WellFoundedInduction, TLAPS

Phases == {"private", "open", "closed", "withdrawn", "listed"}
Lines == [symbol : Tickers, issuer : {"own", "other"}, serial : {0, 1}, listed : Nat]
OwnIsins == {Isin("own", kind, n) : kind \in {"equity", "debt"}, n \in {0, 1}}
Symbols == Tickers \cup {NoTicker, BondSeries}
Flags == {"none", "AMBIGUOUS", "UNRESOLVED", "CONFLICTING", "RESOLVED_ISSUER_EQUITY"}
Stages == {"none", "Upcoming", "Open", "Closed", "Listed"}

SymbolTypes ==
  /\ tradingDay \in Nat \ {0} /\ sameName \in BOOLEAN /\ phase \in Phases
  /\ assigned \in Tickers \cup {NoTicker} /\ closedOn \in Nat
  /\ masters \in SUBSET Lines /\ freed \in [Tickers -> Nat]

RowType ==
  ipo \in [symbol : Symbols, isin : OwnIsins \cup {NoIsin}, status : Stages, flag : Flags]

\* A symbol names one line.
OneLine == \A l, m \in masters : l.symbol = m.symbol => l = m

\* The issue is closed on a day that has come; its issuer is in the masters only
\* after it listed.
IssueOrder ==
  /\ phase # "private" => assigned \in Tickers
  /\ phase \in {"private", "open"} => closedOn = 0
  /\ phase \notin {"private", "open"} => closedOn > 0 /\ closedOn <= tradingDay
  /\ \A l \in masters : l.issuer = "own" => phase = "listed"

\* Whoever takes over the symbol of the issue lists after its window.
LateTakeover ==
  phase # "private" =>
    \A l \in masters : l.issuer = "other" /\ l.symbol = assigned =>
      phase \in {"withdrawn", "listed"} /\ l.listed > closedOn + ListingWindow

FreedAfterClose ==
  phase \in {"withdrawn", "listed"} /\ (\A l \in masters : l.symbol # assigned) =>
    freed[assigned] >= closedOn

\* What a row without an ISIN, or with a bond's, can carry.
RowOrder ==
  /\ phase # "listed" => ipo.isin = NoIsin
  /\ phase = "private" => ipo.symbol = NoTicker
  /\ ipo.isin = NoIsin /\ ipo.symbol # NoTicker => ipo.symbol = assigned
  /\ ipo.isin.kind = "debt" => ipo.symbol = BondSeries

SymbolInv ==
  /\ SymbolTypes /\ RowType /\ OneLine /\ IssueOrder /\ LateTakeover
  /\ FreedAfterClose /\ RowOrder

-----------------------------------------------------------------------------
LEMMA SymbolInitially == SymbolInit => SymbolInv
<1> SUFFICES ASSUME SymbolInit PROVE SymbolInv
  OBVIOUS
<1> USE DEF SymbolInit
<1>1. SymbolTypes
  BY DEF SymbolTypes, Phases
<1>2. RowType
  BY DEF RowType, NoIpo, Symbols, Stages, Flags
<1>3. OneLine /\ IssueOrder /\ LateTakeover /\ FreedAfterClose
  BY DEF OneLine, IssueOrder, LateTakeover, FreedAfterClose
<1>4. RowOrder
  BY DEF RowOrder, NoIpo, NoIsin, Isin
<1> QED
  BY <1>1, <1>2, <1>3, <1>4 DEF SymbolInv

\* What the exchange does leaves the row alone.
LEMMA ExchangeKeepsRow ==
  ASSUME SymbolInv, UNCHANGED ipo,
         phase' = "listed" \/ phase # "listed",
         phase' # "private" \/ phase = "private",
         assigned' = assigned \/ phase = "private"
  PROVE  RowType' /\ RowOrder'
<1>1. RowType'
  BY DEF SymbolInv, RowType
<1>2. RowOrder'
  BY DEF SymbolInv, RowOrder
<1> QED
  BY <1>1, <1>2

LEMMA SessionStep ==
  ASSUME SymbolInv, NextSession
  PROVE  SymbolInv'
<1> USE DEF NextSession
<1>1. SymbolTypes' /\ IssueOrder'
  BY DEF SymbolInv, SymbolTypes, IssueOrder
<1>2. OneLine' /\ LateTakeover' /\ FreedAfterClose'
  BY DEF SymbolInv, OneLine, LateTakeover, FreedAfterClose
<1>3. RowType' /\ RowOrder'
  BY ExchangeKeepsRow
<1> QED
  BY <1>1, <1>2, <1>3 DEF SymbolInv

LEMMA OpenStep ==
  ASSUME SymbolInv, NEW t \in Tickers, Open(t)
  PROVE  SymbolInv'
<1> USE DEF Open
<1>1. SymbolTypes' /\ IssueOrder'
  BY DEF SymbolInv, SymbolTypes, Phases, IssueOrder
<1>2. OneLine' /\ LateTakeover' /\ FreedAfterClose'
  BY DEF SymbolInv, OneLine, LateTakeover, FreedAfterClose, Free
<1>3. RowType' /\ RowOrder'
  BY ExchangeKeepsRow
<1> QED
  BY <1>1, <1>2, <1>3 DEF SymbolInv

LEMMA CloseStep ==
  ASSUME SymbolInv, Close
  PROVE  SymbolInv'
<1> USE DEF Close
<1>1. SymbolTypes'
  BY DEF SymbolInv, SymbolTypes, Phases
<1>2. IssueOrder'
  BY DEF SymbolInv, SymbolTypes, IssueOrder
<1>3. OneLine'
  BY DEF SymbolInv, OneLine
<1>4. LateTakeover'
  BY DEF SymbolInv, LateTakeover
<1>5. FreedAfterClose'
  BY DEF SymbolInv, SymbolTypes, IssueOrder, FreedAfterClose
<1>6. RowType' /\ RowOrder'
  BY ExchangeKeepsRow
<1> QED
  BY <1>1, <1>2, <1>3, <1>4, <1>5, <1>6 DEF SymbolInv

\* Shares that list, the other issuer's or a second line of the issuer's own.
LEMMA NewLine ==
  ASSUME SymbolTypes, OneLine, NEW t \in Tickers, NEW i \in {"own", "other"},
         NEW n \in {0, 1}, \A l \in masters : l.symbol # t,
         masters' = masters \cup {Line(t, i, n, tradingDay)}
  PROVE  (masters \in SUBSET Lines)' /\ OneLine'
<1>1. Line(t, i, n, tradingDay) \in Lines
  BY DEF Line, Lines, SymbolTypes
<1>2. Line(t, i, n, tradingDay).symbol = t
  BY DEF Line
<1> QED
  BY <1>1, <1>2 DEF SymbolTypes, OneLine

LEMMA ListStep ==
  ASSUME SymbolInv, ListShares
  PROVE  SymbolInv'
<1> USE DEF ListShares
<1>1. assigned \in Tickers /\ \A l \in masters : l.symbol # assigned
  <2>1. \A l \in masters : l.issuer \in {"own", "other"}
    BY DEF SymbolInv, SymbolTypes, Lines
  <2> QED
    BY <2>1 DEF SymbolInv, IssueOrder, LateTakeover
<1>2. (masters \in SUBSET Lines)' /\ OneLine'
  BY <1>1, NewLine DEF SymbolInv
<1>3. SymbolTypes'
  BY <1>2 DEF SymbolInv, SymbolTypes, Phases
<1>4. IssueOrder'
  BY DEF SymbolInv, IssueOrder
<1>5. LateTakeover'
  <2>1. \A l \in masters' : l \in masters \/ l.issuer = "own"
    BY DEF Line
  <2>2. \A l \in masters' : ~(l.issuer = "other" /\ l.symbol = assigned')
    BY <1>1, <2>1
  <2> QED
    BY <2>2 DEF LateTakeover
<1>6. FreedAfterClose'
  <2>1. /\ Line(assigned, "own", 0, tradingDay) \in masters'
        /\ Line(assigned, "own", 0, tradingDay).symbol = assigned
    BY DEF Line
  <2> QED
    BY <2>1 DEF FreedAfterClose
<1>7. RowType' /\ RowOrder'
  BY ExchangeKeepsRow
<1> QED
  BY <1>7, <1>2, <1>3, <1>4, <1>5, <1>6 DEF SymbolInv

LEMMA ListOtherStep ==
  ASSUME SymbolInv, NEW t \in Tickers, ListOther(t)
  PROVE  SymbolInv'
<1> USE DEF ListOther
<1>0. \A l \in masters : l.symbol # t
  BY DEF Free
<1>1. (masters \in SUBSET Lines)' /\ OneLine'
  BY <1>0, NewLine DEF SymbolInv
<1>2. SymbolTypes'
  BY <1>1 DEF SymbolInv, SymbolTypes
<1>3. IssueOrder'
  BY DEF SymbolInv, IssueOrder, Line
<1>4. LateTakeover'
  <2>1. CASE t = assigned /\ phase # "private"
    <3>1. phase \in {"withdrawn", "listed"}
      BY <2>1 DEF Free, SymbolInv, SymbolTypes, Phases
    <3>2. freed[t] >= closedOn /\ closedOn > 0
      BY <2>1, <3>1, <1>0 DEF SymbolInv, FreedAfterClose, IssueOrder
    <3>3. tradingDay > closedOn + ListingWindow
      BY <3>2, SymbolAssumption DEF Free, SymbolInv, SymbolTypes
    <3> QED
      BY <3>1, <3>3, <1>0, <2>1 DEF LateTakeover, Line
  <2>2. CASE ~(t = assigned /\ phase # "private")
    BY <2>2 DEF SymbolInv, LateTakeover, Line
  <2> QED
    BY <2>1, <2>2
<1>5. FreedAfterClose'
  BY DEF SymbolInv, FreedAfterClose
<1>6. RowType' /\ RowOrder'
  BY ExchangeKeepsRow
<1> QED
  BY <1>1, <1>2, <1>3, <1>4, <1>5, <1>6 DEF SymbolInv

LEMMA BoardStep ==
  ASSUME SymbolInv, NEW t \in Tickers, ChangeBoard(t)
  PROVE  SymbolInv'
<1> USE DEF ChangeBoard
<1>0. \A l \in masters : l.symbol # t
  BY DEF Free
<1>1. PICK l \in masters : l.issuer = "own" /\ masters' = masters \cup {Line(t, "own", l.serial, tradingDay)}
  OBVIOUS
<1>2. l.serial \in {0, 1}
  BY DEF SymbolInv, SymbolTypes, Lines
<1>3. (masters \in SUBSET Lines)' /\ OneLine'
  BY <1>0, <1>1, <1>2, NewLine DEF SymbolInv
<1>4. SymbolTypes'
  BY <1>3 DEF SymbolInv, SymbolTypes
<1>5. IssueOrder'
  BY <1>1 DEF SymbolInv, IssueOrder
<1>6. LateTakeover' /\ FreedAfterClose'
  BY <1>1 DEF SymbolInv, LateTakeover, FreedAfterClose, Line
<1>7. RowType' /\ RowOrder'
  BY ExchangeKeepsRow
<1> QED
  BY <1>3, <1>4, <1>5, <1>6, <1>7 DEF SymbolInv

LEMMA SplitStep ==
  ASSUME SymbolInv, Split
  PROVE  SymbolInv'
<1> USE DEF Split
<1> DEFINE Renewed(l) == IF l.issuer = "own" THEN [l EXCEPT !.serial = 1] ELSE l
<1>1. masters' = {Renewed(l) : l \in masters}
  OBVIOUS
<1>2. \A l \in Lines : /\ Renewed(l) \in Lines /\ Renewed(l).symbol = l.symbol
                       /\ Renewed(l).issuer = l.issuer /\ Renewed(l).listed = l.listed
  BY DEF Lines
<1>3. masters \subseteq Lines
  BY DEF SymbolInv, SymbolTypes
<1> HIDE DEF Renewed
<1>4. SymbolTypes'
  BY <1>1, <1>2, <1>3 DEF SymbolInv, SymbolTypes
<1>5. OneLine'
  BY <1>1, <1>2, <1>3 DEF SymbolInv, OneLine
<1>6. IssueOrder'
  BY <1>1, <1>2, <1>3 DEF SymbolInv, IssueOrder
<1>7. LateTakeover'
  BY <1>1, <1>2, <1>3 DEF SymbolInv, LateTakeover
<1>8. FreedAfterClose'
  BY <1>1, <1>2, <1>3 DEF SymbolInv, FreedAfterClose
<1>9. RowType' /\ RowOrder'
  BY ExchangeKeepsRow
<1> QED
  BY <1>4, <1>5, <1>6, <1>7, <1>8, <1>9 DEF SymbolInv

LEMMA DelistStep ==
  ASSUME SymbolInv, NEW l \in masters, Delist(l)
  PROVE  SymbolInv'
<1> USE DEF Delist
<1>1. SymbolTypes'
  BY DEF SymbolInv, SymbolTypes, Lines
<1>2. OneLine' /\ IssueOrder' /\ LateTakeover'
  BY DEF SymbolInv, OneLine, IssueOrder, LateTakeover
<1>3. FreedAfterClose'
  BY DEF SymbolInv, SymbolTypes, IssueOrder, FreedAfterClose
<1>4. RowType' /\ RowOrder'
  BY ExchangeKeepsRow
<1> QED
  BY <1>1, <1>2, <1>3, <1>4 DEF SymbolInv

-----------------------------------------------------------------------------
\* What writes the row leaves the exchange alone.
LEMMA RowKeepsExchange ==
  ASSUME SymbolInv, UNCHANGED exchangeVars
  PROVE  /\ SymbolTypes' /\ OneLine' /\ IssueOrder' /\ LateTakeover' /\ FreedAfterClose'
<1> USE DEF exchangeVars, SymbolInv
<1>1. SymbolTypes' /\ OneLine'
  BY DEF SymbolTypes, OneLine
<1>2. IssueOrder' /\ LateTakeover' /\ FreedAfterClose'
  BY DEF IssueOrder, LateTakeover, FreedAfterClose
<1> QED
  BY <1>1, <1>2

LEMMA FeedStep ==
  ASSUME SymbolInv, ReadFeed
  PROVE  SymbolInv'
<1> USE DEF ReadFeed
<1>1. SymbolTypes' /\ OneLine' /\ IssueOrder' /\ LateTakeover' /\ FreedAfterClose'
  BY RowKeepsExchange
<1>2. assigned \in Tickers /\ ipo.isin = NoIsin
  BY DEF SymbolInv, IssueOrder, RowOrder
<1>3. PICK s \in {"Upcoming", "Open"} : ipo' = [ipo EXCEPT !.symbol = assigned, !.status = s]
  OBVIOUS
<1>4. RowType'
  BY <1>2, <1>3 DEF SymbolInv, RowType, Symbols, Stages
<1>5. ipo'.isin = NoIsin /\ ipo'.symbol = assigned
  BY <1>2, <1>3 DEF SymbolInv, RowType
<1>6. RowOrder'
  BY <1>5 DEF RowOrder, exchangeVars, NoIsin, Isin
<1> QED
  BY <1>1, <1>4, <1>6 DEF SymbolInv

LEMMA PastStep ==
  ASSUME SymbolInv, ReadPast
  PROVE  SymbolInv'
<1> USE DEF ReadPast
<1>1. SymbolTypes' /\ OneLine' /\ IssueOrder' /\ LateTakeover' /\ FreedAfterClose'
  BY RowKeepsExchange
<1>2. PICK s \in {"Closed", "Listed"} : ipo' = [ipo EXCEPT !.status = s]
  OBVIOUS
<1>3. RowType'
  BY <1>2 DEF SymbolInv, RowType, Stages
<1>4. ipo'.isin = ipo.isin /\ ipo'.symbol = ipo.symbol
  BY <1>2 DEF SymbolInv, RowType
<1>5. RowOrder'
  BY <1>4 DEF SymbolInv, RowOrder, exchangeVars
<1> QED
  BY <1>1, <1>3, <1>5 DEF SymbolInv

LEMMA MonthlyStep ==
  ASSUME SymbolInv, NEW kind \in {"equity", "debt"}, ReadMonthly(kind)
  PROVE  SymbolInv'
<1> USE DEF ReadMonthly
<1>1. SymbolTypes' /\ OneLine' /\ IssueOrder' /\ LateTakeover' /\ FreedAfterClose'
  BY RowKeepsExchange
<1>2. Isin("own", kind, 0) \in OwnIsins
  BY DEF OwnIsins
<1>3. RowType'
  BY <1>2 DEF SymbolInv, RowType, Symbols, Stages
<1>4. ipo'.isin = Isin("own", kind, 0) /\ (kind = "debt" => ipo'.symbol = BondSeries)
  BY DEF SymbolInv, RowType
<1>5. ipo'.isin # NoIsin /\ ipo'.isin.kind = kind
  BY <1>4 DEF Isin, NoIsin
<1>6. RowOrder'
  BY <1>4, <1>5 DEF SymbolInv, RowOrder, exchangeVars
<1> QED
  BY <1>1, <1>3, <1>6 DEF SymbolInv

-----------------------------------------------------------------------------
\* An ISIN in the masters is an equity's.
LEMMA IsinsDiffer ==
  ASSUME NEW l \in Lines
  PROVE  /\ MasterIsin(l) # NoIsin /\ MasterIsin(l).kind = "equity"
         /\ MasterIsin(l).issuer = l.issuer
         /\ l.issuer = "own" => MasterIsin(l) \in OwnIsins
BY DEF Lines, MasterIsin, NoIsin, Isin, OwnIsins

LEMMA RowIsins ==
  ASSUME RowType, ipo.isin # NoIsin
  PROVE  ipo.isin \in OwnIsins /\ ipo.isin.issuer = "own"
BY DEF RowType, OwnIsins, Isin

\* What becomes of a row: it keeps its identity under a flag that the next pass
\* would set again, or takes that of a line of its own issuer.
Matches == {"RESOLVED_ISIN", "RESOLVED_NAME_ISIN_PREFIX"}
Live(r) == r.symbol # NoTicker /\ r.isin = NoIsin /\ r.status # "Upcoming"
Checked(r) == r.symbol # NoTicker /\ ~(r.isin = NoIsin /\ r.status # "Upcoming")

FlagKept(r, flag) ==
  \/ /\ r.symbol = NoTicker /\ Resolve(r.isin).class \notin Matches
     /\ flag = Resolve(r.isin).class
  \/ Live(r) /\ ListingOf(r.symbol) = {} /\ flag = r.flag
  \/ /\ Checked(r) /\ ByIsin(r.isin) # {}
     /\ flag = IF Agrees(r) THEN "none" ELSE "CONFLICTING"
  \/ Checked(r) /\ ByIsin(r.isin) = {} /\ EquityOf(r.isin) = {} /\ flag = r.flag

Keeps(r, new) == \E flag \in Flags : FlagKept(r, flag) /\ new = [r EXCEPT !.flag = flag]
Takes(r, new) ==
  \E l \in masters, flag \in {"none", "RESOLVED_ISSUER_EQUITY"}, s \in {r.status, "Listed"} :
    /\ l.issuer = "own"
    /\ new = [r EXCEPT !.symbol = l.symbol, !.isin = MasterIsin(l), !.status = s, !.flag = flag]
    /\ l.symbol = r.symbol \/ r.symbol \in {NoTicker, BondSeries}

LEMMA ByIsinIsOwn ==
  ASSUME RowType, ipo.isin # NoIsin, NEW l \in ByIsin(ipo.isin)
  PROVE  l.issuer = "own" /\ MasterIsin(l) = ipo.isin
BY RowIsins DEF ByIsin, MasterIsin, Isin

LEMMA NoIsinIsUnknown ==
  ASSUME SymbolTypes
  PROVE  ByIsin(NoIsin) = {}
BY IsinsDiffer DEF SymbolTypes, ByIsin

\* What a pass makes of the row is one of the two.
LEMMA Outcomes ==
  ASSUME SymbolInv, NEW new \in ResolveRow(ipo)
  PROVE  Keeps(ipo, new) \/ Takes(ipo, new)
<1>0. SymbolTypes /\ RowType
  BY DEF SymbolInv
<1>1. CASE ipo.symbol = NoTicker
  <2> DEFINE found == Resolve(ipo.isin)
  <2>0. new \in AttachSymbol(ipo)
    BY <1>1 DEF ResolveRow
  <2>1. CASE found.class \in {"RESOLVED_ISIN", "RESOLVED_NAME_ISIN_PREFIX"}
    <3>1. PICK l \in found.lines :
            new = [ipo EXCEPT !.symbol = l.symbol, !.isin = MasterIsin(l), !.flag = "none"]
      BY <2>0, <2>1 DEF AttachSymbol
    <3>2. l \in masters /\ l.issuer = "own"
      <4>1. CASE ByIsin(ipo.isin) # {}
        <5>1. l \in ByIsin(ipo.isin) /\ ipo.isin # NoIsin
          BY <4>1, <1>0, NoIsinIsUnknown DEF Resolve
        <5> QED
          BY <5>1, <1>0, ByIsinIsOwn DEF ByIsin
      <4>2. CASE ByIsin(ipo.isin) = {}
        <5>1. /\ ipo.isin # NoIsin /\ l \in ByName
              /\ SamePrefix(MasterIsin(l), ipo.isin)
          BY <4>2, <2>1 DEF Resolve
        <5> QED
          BY <5>1, <1>0, RowIsins DEF SamePrefix, SameCode, MasterIsin, Isin, ByName
      <4> QED
        BY <4>1, <4>2
    <3>3. new = [ipo EXCEPT !.symbol = l.symbol, !.isin = MasterIsin(l),
                            !.status = ipo.status, !.flag = "none"]
      BY <3>1, <1>0 DEF RowType
    <3> QED
      BY <3>2, <3>3, <1>1 DEF Takes
  <2>2. CASE found.class \notin {"RESOLVED_ISIN", "RESOLVED_NAME_ISIN_PREFIX"}
    <3>1. new = [ipo EXCEPT !.flag = found.class]
      BY <2>0, <2>2 DEF AttachSymbol
    <3>2. found.class \in Flags
      BY <2>2 DEF Resolve, Flags
    <3> QED
      BY <3>1, <3>2, <1>1, <2>2 DEF Keeps, FlagKept, Matches
  <2> QED
    BY <2>1, <2>2
<1>2. CASE ipo.symbol # NoTicker /\ ipo.isin = NoIsin /\ ipo.status # "Upcoming"
  <2>0. new \in AttachListing(ipo)
    BY <1>2 DEF ResolveRow
  <2>1. CASE ListingOf(ipo.symbol) = {}
    <3>1. new = [ipo EXCEPT !.flag = ipo.flag] /\ ipo.flag \in Flags
      BY <2>0, <2>1, <1>0 DEF AttachListing, RowType
    <3> QED
      BY <3>1, <1>2, <2>1 DEF Keeps, FlagKept, Live
  <2>2. CASE ListingOf(ipo.symbol) # {}
    <3>1. PICK l \in ListingOf(ipo.symbol) :
            new = [ipo EXCEPT !.isin = MasterIsin(l), !.status = "Listed", !.flag = "none"]
      BY <2>0, <2>2 DEF AttachListing
    <3>2. l \in masters /\ l.symbol = ipo.symbol /\ closedOn # 0
          /\ l.listed \in closedOn..(closedOn + ListingWindow)
      BY <3>1 DEF ListingOf, BySymbol
    <3>3. ipo.symbol = assigned /\ phase # "private"
      BY <3>2, <1>2 DEF SymbolInv, RowOrder, IssueOrder
    <3>4. l.issuer # "other"
      BY <3>2, <3>3, SymbolAssumption DEF SymbolInv, SymbolTypes, Lines, LateTakeover
    <3>5. l.issuer = "own"
      BY <3>2, <3>4, <1>0 DEF SymbolTypes, Lines
    <3>6. new = [ipo EXCEPT !.symbol = l.symbol, !.isin = MasterIsin(l),
                            !.status = "Listed", !.flag = "none"]
      BY <3>1, <3>2, <1>0 DEF RowType
    <3> QED
      BY <3>2, <3>5, <3>6 DEF Takes
  <2> QED
    BY <2>1, <2>2
<1>3. CASE ipo.symbol # NoTicker /\ ~(ipo.isin = NoIsin /\ ipo.status # "Upcoming")
  <2>0. new \in CrossCheck(ipo)
    BY <1>3 DEF ResolveRow
  <2>1. CASE ByIsin(ipo.isin) # {}
    <3>1. PICK flag \in {"none", "CONFLICTING"} :
             /\ flag = (IF Agrees(ipo) THEN "none" ELSE "CONFLICTING")
             /\ new = [ipo EXCEPT !.flag = flag]
      BY <2>0, <2>1 DEF CrossCheck
    <3> QED
      BY <3>1, <1>3, <2>1 DEF Keeps, FlagKept, Checked, Flags
  <2>2. CASE ByIsin(ipo.isin) = {} /\ EquityOf(ipo.isin) = {}
    <3>1. new = [ipo EXCEPT !.flag = ipo.flag] /\ ipo.flag \in Flags
      BY <2>0, <2>2, <1>0 DEF CrossCheck, RowType
    <3> QED
      BY <3>1, <1>3, <2>2 DEF Keeps, FlagKept, Checked
  <2>3. CASE ByIsin(ipo.isin) = {} /\ EquityOf(ipo.isin) # {}
    <3>1. PICK l \in EquityOf(ipo.isin) :
            new = [ipo EXCEPT !.isin = MasterIsin(l), !.symbol = l.symbol,
                              !.flag = "RESOLVED_ISSUER_EQUITY"]
      BY <2>0, <2>3 DEF CrossCheck
    <3>2. /\ ipo.isin # NoIsin /\ ipo.isin.kind # "equity" /\ l \in masters
          /\ MasterIsin(l).issuer = ipo.isin.issuer
      BY <3>1 DEF EquityOf, ByName, SameCode
    <3>3. l.issuer = "own"
      BY <3>2, <1>0, RowIsins DEF MasterIsin, Isin
    <3>4. ipo.symbol = BondSeries
      <4>1. ipo.isin.kind = "debt"
        BY <3>2, <1>0, RowIsins DEF OwnIsins, Isin
      <4> QED
        BY <4>1 DEF SymbolInv, RowOrder
    <3>5. new = [ipo EXCEPT !.symbol = l.symbol, !.isin = MasterIsin(l),
                            !.status = ipo.status, !.flag = "RESOLVED_ISSUER_EQUITY"]
      BY <3>1, <1>0 DEF RowType
    <3> QED
      BY <3>2, <3>3, <3>4, <3>5 DEF Takes
  <2> QED
    BY <2>1, <2>2, <2>3
<1> QED
  BY <1>1, <1>2, <1>3

-----------------------------------------------------------------------------
LEMMA ResolveStep ==
  ASSUME SymbolInv, ResolveSymbols
  PROVE  SymbolInv'
<1> USE DEF ResolveSymbols
<1>0. SymbolTypes' /\ OneLine' /\ IssueOrder' /\ LateTakeover' /\ FreedAfterClose'
  BY RowKeepsExchange
<1>1. CASE Keeps(ipo, ipo')
  <2>1. PICK flag \in Flags : ipo' = [ipo EXCEPT !.flag = flag]
    BY <1>1 DEF Keeps
  <2>2. RowType'
    BY <2>1 DEF SymbolInv, RowType
  <2>3. ipo'.isin = ipo.isin /\ ipo'.symbol = ipo.symbol
    BY <2>1 DEF SymbolInv, RowType
  <2>4. RowOrder'
    BY <2>3 DEF SymbolInv, RowOrder, exchangeVars
  <2> QED
    BY <1>0, <2>2, <2>4 DEF SymbolInv
<1>2. CASE Takes(ipo, ipo')
  <2>1. PICK l \in masters, flag \in {"none", "RESOLVED_ISSUER_EQUITY"}, s \in {ipo.status, "Listed"} :
           /\ l.issuer = "own"
           /\ ipo' = [ipo EXCEPT !.symbol = l.symbol, !.isin = MasterIsin(l),
                                 !.status = s, !.flag = flag]
    BY <1>2 DEF Takes
  <2>2. l \in Lines
    BY DEF SymbolInv, SymbolTypes
  <2>3. /\ MasterIsin(l) \in OwnIsins /\ MasterIsin(l) # NoIsin
        /\ MasterIsin(l).kind = "equity" /\ phase = "listed"
    BY <2>1, <2>2, IsinsDiffer DEF SymbolInv, IssueOrder
  <2>4. s \in Stages /\ l.symbol \in Symbols /\ flag \in Flags
    BY <2>1, <2>2 DEF SymbolInv, RowType, Stages, Symbols, Flags, Lines
  <2>5. RowType'
    BY <2>1, <2>3, <2>4 DEF SymbolInv, RowType
  <2>6. ipo'.isin = MasterIsin(l)
    BY <2>1 DEF SymbolInv, RowType
  <2>7. RowOrder'
    BY <2>3, <2>6 DEF RowOrder, exchangeVars
  <2> QED
    BY <1>0, <2>5, <2>7 DEF SymbolInv
<1> QED
  BY <1>1, <1>2, Outcomes

LEMMA SymbolInductive ==
  ASSUME SymbolInv, [SymbolNext]_symbolVars
  PROVE  SymbolInv'
<1>1. CASE UNCHANGED symbolVars
  <2>1. UNCHANGED exchangeVars /\ UNCHANGED ipo
    BY <1>1 DEF symbolVars, exchangeVars
  <2>2. SymbolTypes' /\ OneLine' /\ IssueOrder' /\ LateTakeover' /\ FreedAfterClose'
    BY <2>1, RowKeepsExchange
  <2>3. RowType' /\ RowOrder'
    BY <2>1 DEF SymbolInv, RowType, RowOrder, exchangeVars
  <2> QED
    BY <2>2, <2>3 DEF SymbolInv
<1>2. CASE NextSession \/ Close \/ ListShares \/ Split \/ ReadFeed \/ ReadPast \/ ResolveSymbols
  BY <1>2, SessionStep, CloseStep, ListStep, SplitStep, FeedStep, PastStep, ResolveStep
<1>3. CASE \E t \in Tickers : Open(t) \/ ListOther(t) \/ ChangeBoard(t)
  BY <1>3, OpenStep, ListOtherStep, BoardStep
<1>4. CASE \E l \in masters : Delist(l)
  BY <1>4, DelistStep
<1>5. CASE \E kind \in {"equity", "debt"} : ReadMonthly(kind)
  BY <1>5, MonthlyStep
<1> QED
  BY <1>1, <1>2, <1>3, <1>4, <1>5 DEF SymbolNext

-----------------------------------------------------------------------------
LEMMA OwnSharesStep ==
  ASSUME SymbolInv, ResolveSymbols
  PROVE  OwnSharesOnly
<1> USE DEF ResolveSymbols
<1>1. CASE Keeps(ipo, ipo')
  <2>1. PICK flag \in Flags : ipo' = [ipo EXCEPT !.flag = flag]
    BY <1>1 DEF Keeps
  <2>2. ipo'.isin = ipo.isin /\ ipo'.symbol = ipo.symbol /\ ipo'.status = ipo.status
    BY <2>1 DEF SymbolInv, RowType
  <2> QED
    BY <2>2, RowIsins DEF OwnSharesOnly, SymbolInv
<1>2. CASE Takes(ipo, ipo')
  <2>1. PICK l \in masters, flag \in {"none", "RESOLVED_ISSUER_EQUITY"}, s \in {ipo.status, "Listed"} :
           /\ l.issuer = "own"
           /\ ipo' = [ipo EXCEPT !.symbol = l.symbol, !.isin = MasterIsin(l),
                                 !.status = s, !.flag = flag]
           /\ l.symbol = ipo.symbol \/ ipo.symbol \in {NoTicker, BondSeries}
    BY <1>2 DEF Takes
  <2>2. ipo'.isin = MasterIsin(l) /\ ipo'.symbol = l.symbol
    BY <2>1 DEF SymbolInv, RowType
  <2>3. ipo'.isin.issuer = "own" /\ phase = "listed"
    BY <2>1, <2>2 DEF SymbolInv, IssueOrder, MasterIsin, Isin
  <2> QED
    BY <2>1, <2>2, <2>3 DEF OwnSharesOnly
<1> QED
  BY <1>1, <1>2, Outcomes

\* A row that took a line's identity agrees with the masters.
LEMMA TakenAgrees ==
  ASSUME SymbolInv, NEW new, Takes(ipo, new)
  PROVE  /\ Checked(new) /\ Agrees(new) /\ ByIsin(new.isin) # {}
         /\ \E l \in masters : l.issuer = "own" /\ l.symbol = new.symbol
<1>1. PICK l \in masters, flag \in {"none", "RESOLVED_ISSUER_EQUITY"}, s \in {ipo.status, "Listed"} :
         /\ l.issuer = "own"
         /\ new = [ipo EXCEPT !.symbol = l.symbol, !.isin = MasterIsin(l),
                              !.status = s, !.flag = flag]
  BY DEF Takes
<1>2. new.isin = MasterIsin(l) /\ new.symbol = l.symbol
  BY <1>1 DEF SymbolInv, RowType
<1>3. l \in Lines
  BY DEF SymbolInv, SymbolTypes
<1>4. new.isin # NoIsin /\ new.symbol # NoTicker
  BY <1>2, <1>3, IsinsDiffer, SymbolAssumption DEF Lines
<1>5. l \in ByIsin(new.isin)
  BY <1>2 DEF ByIsin
<1> QED
  BY <1>1, <1>2, <1>4, <1>5 DEF Checked, Agrees

\* The flag a kept row gets is the one the next pass gives it.
LEMMA KeptAgain ==
  ASSUME SymbolInv, NEW new, Keeps(ipo, new), NEW again \in ResolveRow(new)
  PROVE  again = new
<1>1. PICK flag \in Flags : FlagKept(ipo, flag) /\ new = [ipo EXCEPT !.flag = flag]
  BY DEF Keeps
<1>2. /\ new.isin = ipo.isin /\ new.symbol = ipo.symbol /\ new.status = ipo.status
      /\ new.flag = flag /\ new = [new EXCEPT !.flag = flag]
  BY <1>1 DEF SymbolInv, RowType
<1>3. CASE ipo.symbol = NoTicker
  <2>1. again \in AttachSymbol(new)
    BY <1>2, <1>3 DEF ResolveRow
  <2>2. Resolve(new.isin).class \notin Matches /\ flag = Resolve(new.isin).class
    BY <1>1, <1>2, <1>3 DEF FlagKept, Live, Checked
  <2> QED
    BY <1>2, <2>1, <2>2 DEF AttachSymbol, Matches
<1>4. CASE Live(ipo)
  <2>1. again \in AttachListing(new)
    BY <1>2, <1>4 DEF ResolveRow, Live
  <2>2. ListingOf(new.symbol) = {}
    BY <1>1, <1>2, <1>4 DEF FlagKept, Live, Checked
  <2> QED
    BY <2>1, <2>2 DEF AttachListing
<1>5. CASE Checked(ipo)
  <2>1. again \in CrossCheck(new)
    BY <1>2, <1>5 DEF ResolveRow, Checked
  <2>2. \/ /\ ByIsin(new.isin) # {}
           /\ flag = IF Agrees(new) THEN "none" ELSE "CONFLICTING"
        \/ ByIsin(new.isin) = {} /\ EquityOf(new.isin) = {}
    BY <1>1, <1>2, <1>5 DEF FlagKept, Live, Checked, Agrees
  <2> QED
    BY <1>2, <2>1, <2>2 DEF CrossCheck
<1> QED
  BY <1>3, <1>4, <1>5 DEF Live, Checked

LEMMA TakenAgain ==
  ASSUME SymbolInv, NEW new, Takes(ipo, new), NEW again \in ResolveRow(new)
  PROVE  again = [new EXCEPT !.flag = "none"]
<1>1. Checked(new) /\ Agrees(new) /\ ByIsin(new.isin) # {}
  BY TakenAgrees
<1>2. again \in CrossCheck(new)
  BY <1>1 DEF ResolveRow, Checked
<1> QED
  BY <1>1, <1>2 DEF CrossCheck

\* A pass over the row as it has become reads the same masters.
LEMMA SameMasters ==
  ASSUME UNCHANGED exchangeVars, NEW r, r = ipo'
  PROVE  ResolveRow(ipo)' = ResolveRow(r)
<1> USE DEF exchangeVars
<1>1. \A x : ByIsin(x)' = ByIsin(x)
  BY DEF ByIsin
<1>2. ByName' = ByName /\ \A t : BySymbol(t)' = BySymbol(t)
  BY DEF ByName, BySymbol
<1> QED
  BY <1>1, <1>2 DEF ResolveRow, AttachSymbol, AttachListing, CrossCheck, Agrees,
       Resolve, EquityOf, ListingOf

LEMMA SettlesStep ==
  ASSUME SymbolInv, ResolveSymbols
  PROVE  PassSettles
<1>1. PICK r : r = ipo'
  OBVIOUS
<1>2. ResolveRow(ipo)' = ResolveRow(r)
  BY <1>1, SameMasters DEF ResolveSymbols
<1>3. Keeps(ipo, r) \/ Takes(ipo, r)
  BY <1>1, Outcomes DEF ResolveSymbols
<1>4. ASSUME NEW again \in ResolveRow(r)
      PROVE  again = r \/ again = [r EXCEPT !.flag = "none"]
  BY <1>3, <1>4, KeptAgain, TakenAgain
<1> QED
  BY <1>1, <1>2, <1>4 DEF PassSettles

LEMMA ReuseStep ==
  ASSUME SymbolInv, ResolveSymbols
  PROVE  ReuseIsFlagged
<1> SUFFICES ASSUME NEW m \in masters, m.symbol = ipo'.symbol, m.issuer = "other"
             PROVE  ipo'.flag = "CONFLICTING" \/ ByIsin(ipo.isin)' = {}
  BY DEF ReuseIsFlagged, ResolveSymbols, exchangeVars, BySymbol
<1>1. PICK r : r = ipo'
  OBVIOUS
<1>2. ByIsin(ipo.isin)' = ByIsin(r.isin)
  BY <1>1 DEF ResolveSymbols, exchangeVars, ByIsin
<1>3. Keeps(ipo, r) \/ Takes(ipo, r)
  BY <1>1, Outcomes DEF ResolveSymbols
<1>4. \A l \in masters : l.symbol = r.symbol => l.issuer = "other"
  BY <1>1 DEF SymbolInv, OneLine
<1>5. ~Takes(ipo, r)
  BY <1>4, TakenAgrees
<1>6. PICK flag \in Flags : FlagKept(ipo, flag) /\ r = [ipo EXCEPT !.flag = flag]
  BY <1>3, <1>5 DEF Keeps
<1>7. r.symbol = ipo.symbol /\ r.isin = ipo.isin /\ r.flag = flag
  BY <1>6 DEF SymbolInv, RowType
<1>8. ipo.symbol # NoTicker
  BY <1>1, <1>7, SymbolAssumption DEF SymbolInv, SymbolTypes, Lines
<1>9. CASE Live(ipo)
  BY <1>2, <1>7, <1>9, NoIsinIsUnknown DEF Live, SymbolInv
<1>10. CASE Checked(ipo) /\ ByIsin(ipo.isin) # {}
  <2>1. ipo.isin # NoIsin
    BY <1>10, NoIsinIsUnknown DEF SymbolInv
  <2>2. \A l \in ByIsin(ipo.isin) : l \in masters /\ l.issuer = "own"
    BY <2>1, ByIsinIsOwn DEF SymbolInv, ByIsin
  <2>3. ~Agrees(ipo)
    BY <2>2, <1>4, <1>7 DEF Agrees
  <2>4. flag = "CONFLICTING"
    BY <1>6, <1>8, <1>10, <2>3 DEF FlagKept, Live, Checked
  <2> QED
    BY <1>1, <1>7, <2>4
<1>11. CASE Checked(ipo) /\ ByIsin(ipo.isin) = {}
  BY <1>2, <1>7, <1>11
<1> QED
  BY <1>8, <1>9, <1>10, <1>11 DEF Live, Checked

-----------------------------------------------------------------------------
\* The inductive invariant: what can be in the masters under the symbol of the
\* issue, and what a row without an equity's ISIN can carry.
THEOREM SymbolInvariant == SymbolSpec => []SymbolInv
<1>1. SymbolInit => SymbolInv
  BY SymbolInitially
<1>2. SymbolInv /\ [SymbolNext]_symbolVars => SymbolInv'
  BY SymbolInductive
<1> QED
  BY <1>1, <1>2, PTL DEF SymbolSpec

\* "A wrong symbol would attach another company's price history to an IPO"
\* (nse_master.py:11): for any symbols and any window, what resolve_india_symbols
\* writes is of the row's own issuer, stays under the next pass, and a symbol that
\* is another's by now is flagged as long as the masters know the row's ISIN.
THEOREM ResolutionIsExact == SymbolSpec => IdentityIsExact
<1>1. SymbolInv /\ [SymbolNext]_symbolVars
        => [OwnSharesOnly /\ PassSettles /\ ReuseIsFlagged]_symbolVars
  <2> SUFFICES ASSUME SymbolInv
               PROVE  OwnSharesOnly /\ PassSettles /\ ReuseIsFlagged
    OBVIOUS
  <2>1. CASE ResolveSymbols
    BY <2>1, OwnSharesStep, SettlesStep, ReuseStep
  <2>2. CASE ~ResolveSymbols
    BY <2>2 DEF OwnSharesOnly, PassSettles, ReuseIsFlagged
  <2> QED
    BY <2>1, <2>2
<1>2. SymbolSpec => []SymbolInv
  BY SymbolInvariant
<1> QED
  BY <1>1, <1>2, PTL DEF SymbolSpec, IdentityIsExact
(* The dataset of the model. *)

\* A fiscal year is over before the day a document on it is filed.
LEMMA YearsEndBefore ==
  ASSUME NEW d \in Nat \ {0}
  PROVE  Period(d) \in Nat /\ PeriodEnd(Period(d)) < d
<1> DEFINE p == (d - 1) \div YearLen
           m == (d - 1) % YearLen
<1>1. p \in Nat /\ m \in 0..(YearLen - 1) /\ d - 1 = YearLen * p + m
  BY PointInTimeAssumption
<1>2. Period(d) = p /\ PeriodEnd(Period(d)) = p * YearLen
  BY DEF Period, PeriodEnd
<1> HIDE DEF p, m
<1>3. p * YearLen = YearLen * p /\ YearLen * p \in Int
  BY <1>1, PointInTimeAssumption
<1> QED
  BY <1>1, <1>2, <1>3, PointInTimeAssumption

DatasetTypes ==
  /\ calendar \in Nat /\ listing \in Nat
  /\ prospectus \in [Periods -> Nat] /\ report \in [Periods -> Nat]
  /\ Periods \subseteq Nat

\* A document is kept under the year it is about.
YearsFit == \A p \in Periods : prospectus[p] # NoDay => PeriodEnd(p) < prospectus[p]

\* The regime was read when the index had all the closes before its listing.
RegimeFits ==
  regime # NoRegime =>
    /\ regime.close \in TradingDays /\ regime.listing \in Nat
    /\ regime.close < regime.listing
    /\ IsLast(regime.close, Prior(TradingDays, regime.listing))

DatasetInv == DatasetTypes /\ YearsFit /\ RegimeFits

LEMMA DatasetStart == DatasetInit => DatasetInv
<1> SUFFICES ASSUME DatasetInit PROVE DatasetInv
  OBVIOUS
<1>1. Periods \subseteq Nat
  BY YearsEndBefore DEF Periods, Days
<1> QED
  BY <1>1 DEF DatasetInit, DatasetInv, DatasetTypes, YearsFit, RegimeFits, NoDay

LEMMA DatasetStep == DatasetInv /\ [DatasetNext]_datasetVars => DatasetInv'
<1> SUFFICES ASSUME DatasetInv, [DatasetNext]_datasetVars PROVE DatasetInv'
  OBVIOUS
<1>0. DatasetTypes /\ YearsFit /\ RegimeFits
  BY DEF DatasetInv
<1>1. CASE DatasetDay \/ UNCHANGED datasetVars
  BY <1>0, <1>1 DEF DatasetDay, datasetVars, DatasetInv, DatasetTypes, YearsFit, RegimeFits
<1>2. ASSUME NEW d \in Days, StateListing(d) PROVE DatasetInv'
  <2>1. listing' = d /\ d \in Nat /\ UNCHANGED <<calendar, prospectus, report, regime>>
    BY <1>2 DEF StateListing, Days
  <2> QED
    BY <1>0, <2>1 DEF DatasetInv, DatasetTypes, YearsFit, RegimeFits
<1>3. ASSUME NEW d \in Days, ReadProspectus(d) PROVE DatasetInv'
  <2>1. d \in Nat \ {0} /\ Period(d) \in Periods
    BY DEF Days, Periods
  <2>2. PeriodEnd(Period(d)) < d
    BY <2>1, YearsEndBefore
  <2>3. /\ prospectus' = [prospectus EXCEPT ![Period(d)] = d]
        /\ UNCHANGED <<calendar, listing, report, regime>>
    BY <1>3 DEF ReadProspectus
  <2>4. \A p \in Periods : prospectus'[p] = IF p = Period(d) THEN d ELSE prospectus[p]
    BY <1>0, <2>3 DEF DatasetTypes
  <2>5. YearsFit'
    BY <1>0, <2>2, <2>4 DEF YearsFit
  <2>6. DatasetTypes'
    BY <1>0, <2>1, <2>3 DEF DatasetTypes
  <2> QED
    BY <1>0, <2>3, <2>5, <2>6 DEF DatasetInv, RegimeFits
<1>4. ASSUME NEW d \in Days, ReadReport(d) PROVE DatasetInv'
  <2>1. d \in Nat /\ Period(d) \in Periods
    BY DEF Days, Periods
  <2>2. report' = [report EXCEPT ![Period(d)] = d] /\ UNCHANGED <<calendar, listing, prospectus, regime>>
    BY <1>4 DEF ReadReport
  <2> QED
    BY <1>0, <2>1, <2>2 DEF DatasetInv, DatasetTypes, YearsFit, RegimeFits
<1>5. CASE RefreshRegime
  <2> DEFINE past == {x \in TradingDays : x <= calendar}
  <2>1. PICK c \in RegimeDays(past, listing) : regime' = [close |-> c, listing |-> listing]
    BY <1>5 DEF RefreshRegime
  <2>2. UNCHANGED <<calendar, listing, prospectus, report>> /\ listing <= calendar
    BY <1>5 DEF RefreshRegime
  <2>3. Prior(past, listing) = Prior(TradingDays, listing)
    <3>1. \A x \in TradingDays : x \in Nat
      BY PointInTimeAssumption
    <3>2. calendar \in Nat /\ listing \in Nat
      BY <1>0 DEF DatasetTypes
    <3>3. \A x \in TradingDays : x < listing => x <= calendar
      BY <2>2, <3>1, <3>2
    <3> QED
      BY <3>3 DEF Prior
  <2>4. IsLast(c, Prior(TradingDays, listing)) /\ c \in TradingDays /\ c < listing
    BY <2>1, <2>3 DEF RegimeDays, IsLast, Prior
  <2>5. regime'.close = c /\ regime'.listing = listing
    BY <2>1
  <2>6. RegimeFits'
    BY <1>0, <2>4, <2>5 DEF RegimeFits, DatasetTypes
  <2> QED
    BY <1>0, <2>2, <2>6 DEF DatasetInv, DatasetTypes, YearsFit
<1> QED
  BY <1>1, <1>2, <1>3, <1>4, <1>5 DEF DatasetNext

\* What the model may see of the prospectuses.
Known == {o \in Prospectuses : o.filed <= listing}

LEMMA SeenIsKnown == Feature("production") = {o \in Known : \A x \in Known : Later(o, x)}
<1> DEFINE ok == {o \in Prospectuses \cup Reports : Admissible(o, "production")}
<1>1. \A o \in Prospectuses : o.form = "prospectus"
  BY DEF Prospectuses
<1>2. \A o \in Reports : o.form # "prospectus"
  BY DEF Reports
<1>3. ok = Known
  BY <1>1, <1>2 DEF Admissible, Known
<1> QED
  BY <1>3 DEF Feature

LEMMA NothingAhead == DatasetInv => NoLookAhead
<1> SUFFICES ASSUME DatasetInv, listing # NoDay
             PROVE  /\ \A o \in Feature("production") : o.filed <= listing /\ o.form = "prospectus"
                    /\ \A o \in Feature("research") : PeriodEnd(o.period) <= listing
                    /\ \A c \in RegimeFeature : c < listing \/ (c = listing /\ regime.listing > listing)
  BY DEF NoLookAhead
<1>1. \A o \in Feature("production") : o.filed <= listing /\ o.form = "prospectus"
  BY SeenIsKnown DEF Known, Prospectuses
<1>2. ASSUME NEW o \in Feature("research") PROVE PeriodEnd(o.period) <= listing
  <2>1. o \in Prospectuses \cup Reports /\ Admissible(o, "research")
    BY DEF Feature
  <2>2. CASE o.form # "prospectus"
    BY <2>1, <2>2 DEF Admissible
  <2>3. CASE o.form = "prospectus"
    <3>1. o.filed <= listing
      BY <2>1, <2>3 DEF Admissible
    <3>2. o \in Prospectuses
      BY <2>1, <2>3 DEF Reports
    <3>3. PICK p \in Periods : prospectus[p] # NoDay /\ o.period = p /\ o.filed = prospectus[p]
      BY <3>2 DEF Prospectuses
    <3>4. PeriodEnd(p) < prospectus[p] /\ prospectus[p] \in Nat /\ listing \in Nat /\ PeriodEnd(p) \in Int
      BY <3>3, PointInTimeAssumption DEF DatasetInv, YearsFit, DatasetTypes, PeriodEnd
    <3> QED
      BY <3>1, <3>3, <3>4
  <2> QED
    BY <2>2, <2>3
<1>3. ASSUME NEW c \in RegimeFeature
      PROVE  c < listing \/ (c = listing /\ regime.listing > listing)
  <2>1. c = regime.close /\ c # NoDay /\ c <= listing
    BY DEF RegimeFeature
  <2>2. regime # NoRegime
    BY <2>1 DEF NoRegime
  <2>3. c \in TradingDays /\ regime.listing \in Nat /\ c < regime.listing
    BY <2>1, <2>2 DEF DatasetInv, RegimeFits
  <2>4. c \in Nat /\ listing \in Nat
    BY <2>3, PointInTimeAssumption DEF DatasetInv, DatasetTypes
  <2> DEFINE other == regime.listing
  <2>5. other \in Nat /\ c < other
    BY <2>3
  <2> HIDE DEF other
  <2>6. c < listing \/ (c = listing /\ other > listing)
    BY <2>1, <2>4, <2>5
  <2> QED
    BY <2>6 DEF other
<1> QED
  BY <1>1, <1>2, <1>3

\* A prospectus that is read after the listing takes the place of the one of its
\* year, and is not seen itself.
LEMMA LateProspectus ==
  ASSUME DatasetInv, NEW d \in Days, listing # NoDay, d > listing, ReadProspectus(d)
  PROVE  Known' = {o \in Known : o.period # Period(d)}
<1>1. /\ listing' = listing /\ listing \in Nat /\ d \in Nat
      /\ \A p \in Periods : prospectus'[p] = IF p = Period(d) THEN d ELSE prospectus[p]
  BY DEF ReadProspectus, DatasetInv, DatasetTypes, Days
<1> DEFINE obs(p) == [period |-> p, filed |-> prospectus[p], form |-> "prospectus"]
<1>2. \A o : o \in Known <=> \E p \in Periods : /\ prospectus[p] # NoDay /\ prospectus[p] <= listing
                                                /\ o = obs(p)
  BY DEF Known, Prospectuses
<1>3. \A o : o \in Known' <=>
        \E p \in Periods : /\ prospectus'[p] # NoDay /\ prospectus'[p] <= listing'
                           /\ o = [period |-> p, filed |-> prospectus'[p], form |-> "prospectus"]
  BY DEF Known, Prospectuses
<1>4. \A p \in Periods : prospectus'[p] <= listing' => p # Period(d) /\ prospectus'[p] = prospectus[p]
  BY <1>1
<1>5. \A o \in Known' : o \in Known /\ o.period # Period(d)
  BY <1>1, <1>2, <1>3, <1>4
<1>6. ASSUME NEW o \in Known, o.period # Period(d) PROVE o \in Known'
  <2>1. PICK p \in Periods : prospectus[p] # NoDay /\ prospectus[p] <= listing /\ o = obs(p)
    BY <1>2
  <2>2. p # Period(d) /\ prospectus'[p] = prospectus[p]
    BY <1>1, <1>6, <2>1
  <2> QED
    BY <1>1, <1>3, <2>1, <2>2
<1> QED
  BY <1>5, <1>6

LEMMA LateNews ==
  ASSUME DatasetInv, NEW d \in Days, listing # NoDay, d > listing, ReadProspectus(d) \/ ReadReport(d)
  PROVE  \/ Feature("production")' \subseteq Feature("production")
         \/ \E o \in Feature("production") : \A x \in Feature("production")' :
              x.period < o.period /\ x \in Prospectuses
<1>0. Feature("production")' = {o \in Known' : \A x \in Known' : Later(o, x)}
  <2>1. (Feature("production") = {o \in Known : \A x \in Known : Later(o, x)})'
    BY SeenIsKnown, PTL
  <2> QED
    BY <2>1 DEF Later
<1>1. CASE ReadReport(d)
  <2>1. Known' = Known
    BY <1>1 DEF ReadReport, Known, Prospectuses
  <2> QED
    BY <1>0, <2>1, SeenIsKnown
<1>2. CASE ReadProspectus(d)
  <2>1. Known' = {o \in Known : o.period # Period(d)}
    BY <1>2, LateProspectus
  <2>2. \A o \in Known : o.period \in Nat /\ o \in Prospectuses
    BY DEF Known, Prospectuses, DatasetInv, DatasetTypes
  <2>3. \A o, x \in Known : o.period = x.period => o = x
    BY DEF Known, Prospectuses
  <2>4. CASE \E o \in Feature("production") : o.period = Period(d)
    <3>1. PICK o \in Feature("production") : o.period = Period(d)
      BY <2>4
    <3>2. o \in Known /\ \A x \in Known : Later(o, x)
      BY <3>1, SeenIsKnown
    <3>3. ASSUME NEW x \in Feature("production")' PROVE x.period < o.period /\ x \in Prospectuses
      <4>1. x \in Known /\ x.period # o.period
        BY <1>0, <2>1, <3>1
      <4> QED
        BY <2>2, <3>2, <4>1 DEF Later
    <3> QED
      BY <3>1, <3>3
  <2>5. CASE \A o \in Feature("production") : o.period # Period(d)
    <3>1. SUFFICES ASSUME NEW x \in Known', \A y \in Known' : Later(x, y), NEW z \in Known
                   PROVE  Later(x, z)
      BY <1>0, <2>1, SeenIsKnown
    <3>2. SUFFICES ASSUME z.period = Period(d), ~Later(x, z) PROVE FALSE
      BY <2>1, <3>1
    <3>3. x \in Known /\ x.period \in Nat /\ z.period \in Nat /\ z.period > x.period
      BY <2>1, <2>2, <3>1, <3>2 DEF Later
    <3>4. ASSUME NEW y \in Known PROVE Later(z, y)
      <4>1. CASE y.period = Period(d)
        <5>1. y = z
          BY <2>3, <3>2, <4>1
        <5>2. z.filed \in Int /\ z.filed >= z.filed
          BY DEF Known, Prospectuses, DatasetInv, DatasetTypes
        <5> QED
          BY <5>1, <5>2 DEF Later
      <4>2. CASE y.period # Period(d)
        <5>1. Later(x, y) /\ y.period \in Nat
          BY <2>1, <2>2, <3>1, <4>2
        <5> QED
          BY <3>3, <5>1 DEF Later
      <4> QED
        BY <4>1, <4>2
    <3>5. z \in Feature("production")
      BY <3>4, SeenIsKnown
    <3> QED
      BY <2>5, <3>2, <3>5
  <2> QED
    BY <2>4, <2>5
<1> QED
  BY <1>1, <1>2

\* The model is judged as of the listing: it sees nothing that was filed or
\* closed later, for any documents, corrected dates, fiscal years and trading
\* days (model_eval.py:6); a close of the listing day itself only where the date
\* was corrected to an earlier one.
THEOREM PastHolds == DatasetSpec => PredictsFromThePast
<1>1. DatasetSpec => []DatasetInv
  BY DatasetStart, DatasetStep, PTL DEF DatasetSpec
<1>2. DatasetInv => NoLookAhead /\ RegimeIsWhole
  BY NothingAhead DEF DatasetInv, RegimeFits, RegimeIsWhole
<1>3. DatasetInv /\ [DatasetNext]_datasetVars => [LaterNewsIsIgnored]_datasetVars
  BY LateNews DEF LaterNewsIsIgnored
<1> QED
  BY <1>1, <1>2, <1>3, PTL DEF DatasetSpec, PredictsFromThePast

-----------------------------------------------------------------------------
(* A registrant and its row. *)

LEMMA LeastNumber ==
  ASSUME NEW S \in SUBSET Nat, S # {}
  PROVE  \E x \in S : \A y \in S : x <= y
<1> DEFINE R == OpToRel(<, Nat)
<1>1. IsWellFoundedOn(R, Nat)
  BY NatLessThanWellFounded
<1>2. \A x, y \in Nat : <<y, x>> \in R <=> y < x
  BY DEF OpToRel
<1> HIDE DEF R
<1>3. PICK x \in S : \A y \in S : ~(<<y, x>> \in R)
  BY <1>1, WFMin, Zenon
<1>4. ASSUME NEW y \in S PROVE x <= y
  <2>1. x \in Nat /\ y \in Nat /\ ~(<<y, x>> \in R)
    BY <1>3
  <2> QED
    BY <2>1, <1>2
<1> QED
  BY <1>4

Statuses == {"absent", "Filed", "Listed", "Withdrawn", "NotIPO"}
Rows == [status : Statuses, url : Nat, checked : BOOLEAN, nonIpo : BOOLEAN, told : BOOLEAN,
         priced : BOOLEAN]

Has(form, first) == \E d \in 1..now : filed[d].form = form /\ filed[d].ipo = first

\* What row r may be, given what has been filed and reported.
Judged(r) ==
  /\ r \in Rows /\ r.url <= now
  /\ r.status = "Listed" \/ r.priced => Has("424B4", TRUE)
  /\ r.status = "Withdrawn" => Has("RW", FALSE)
  /\ r.status = "NotIPO" => Has("S-1", FALSE) \/ reporting
  /\ r.nonIpo => r.status = "NotIPO"
  /\ (r.url \in 1..now /\ filed[r.url].form = "S-1" /\ ~filed[r.url].ipo
        /\ r.status # "absent" /\ r.checked /\ ("ipo" \notin filed[r.url].says \/ r.told))
       => r.status = "NotIPO"

EdgarTypes ==
  /\ now \in 0..EdgarDays /\ indexed \in 0..now
  /\ filed \in [1..EdgarDays -> Documents]
  /\ reporting \in BOOLEAN

EdgarInv == EdgarTypes /\ Judged(record) /\ ListedDaysAreRead

LEMMA DayIsNumber == EdgarDays \in Nat
  BY EdgarAssumption

LEMMA DocumentFacts ==
  \A f \in Documents :
    /\ f.ipo \in BOOLEAN
    /\ f.form = "S-1" /\ f.ipo => "ipo" \in f.says
    /\ f.form = "RW" => f.ipo = FALSE
    /\ f.form = "424B4" /\ Classify(f.says) = "ipo" => f.ipo = TRUE
<1> TAKE f \in Documents
<1>1. \/ f.form \in {"none", "RW"} /\ f.ipo = FALSE /\ f.says = {}
      \/ f.form = "S-1" /\ f.ipo = TRUE /\ f.says = {"ipo"}
      \/ f.form = "S-1" /\ f.ipo = FALSE
      \/ f.form = "424B4" /\ f.ipo = TRUE
      \/ f.form = "424B4" /\ f.ipo = FALSE /\ f.says = {"last_sale", "ipo_cover"}
      \/ f.form = "424B4" /\ f.ipo = FALSE /\ f.says = {}
  BY DEF Documents, Document, Nothing
<1>2. Classify({}) # "ipo" /\ Classify({"last_sale", "ipo_cover"}) # "ipo"
  BY DEF Classify
<1> QED
  BY <1>1, <1>2

\* A row given a status keeps a higher one.
LEMMA StatusGiven ==
  ASSUME NEW r \in Rows, NEW s \in Statuses
  PROVE  \E t \in {s, r.status} :
           /\ WithStatus(r, s) = [r EXCEPT !.status = t]
           /\ r.status = "NotIPO" => t = "NotIPO"
           /\ s = "NotIPO" => t = "NotIPO"
           /\ RankOf(r.status) <= RankOf(s) => t = s
<1>1. r.status \in Statuses /\ [r EXCEPT !.status = r.status] = r
  BY DEF Rows
<1>2. RankOf(s) \in Nat /\ RankOf(r.status) \in Nat
  BY <1>1 DEF RankOf, Statuses
<1>3. CASE RankOf(s) >= RankOf(r.status)
  <2>1. WithStatus(r, s) = [r EXCEPT !.status = s]
    BY <1>3 DEF WithStatus
  <2>2. r.status = "NotIPO" => s = "NotIPO"
    BY <1>3 DEF RankOf, Statuses
  <2> QED
    BY <2>1, <2>2
<1>4. CASE ~(RankOf(s) >= RankOf(r.status))
  <2>1. WithStatus(r, s) = r
    BY <1>4 DEF WithStatus
  <2>2. s # "NotIPO"
    BY <1>1, <1>4 DEF RankOf, Statuses
  <2> QED
    BY <2>1, <2>2, <1>1, <1>2, <1>4
<1> QED
  BY <1>3, <1>4

\* One step of the walk through the indexes.
LEMMA IndexJudges ==
  ASSUME EdgarTypes, NEW r, Judged(r), NEW d \in 1..now
  PROVE  Judged(FromIndex(r, d))
<1> USE DayIsNumber
<1>1. filed[d] \in Documents /\ d \in Nat /\ d <= now
  BY DEF EdgarTypes
<1>2. r \in Rows /\ r.status \in Statuses
  BY DEF Judged, Rows
<1>3. CASE filed[d].form = "RW" /\ r.status = "Filed"
  <2>1. filed[d].ipo = FALSE
    BY <1>1, <1>3, DocumentFacts
  <2>2. Has("RW", FALSE)
    BY <1>3, <2>1 DEF Has
  <2>3. FromIndex(r, d) = [r EXCEPT !.status = "Withdrawn", !.url = d]
    BY <1>2, <1>3 DEF FromIndex, WithStatus, RankOf, Rows
  <2> QED
    BY <1>1, <1>3, <2>2, <2>3 DEF Judged, Rows, Statuses
<1>4. CASE filed[d].form = "424B4" /\ Classify(filed[d].says) = "ipo"
  <2>1. filed[d].ipo = TRUE
    BY <1>1, <1>4, DocumentFacts
  <2>2. Has("424B4", TRUE)
    BY <1>4, <2>1 DEF Has
  <2>3. PICK s \in {"Listed", r.status} :
          /\ FromIndex(r, d) = [r EXCEPT !.status = s, !.url = d, !.priced = TRUE]
          /\ r.status = "NotIPO" => s = "NotIPO"
    <3>1. FromIndex(r, d) = [WithStatus(r, "Listed") EXCEPT !.url = d, !.priced = TRUE]
      BY <1>4 DEF FromIndex
    <3>2. "Listed" \in Statuses
      BY DEF Statuses
    <3>3. PICK t \in {"Listed", r.status} :
            /\ WithStatus(r, "Listed") = [r EXCEPT !.status = t]
            /\ r.status = "NotIPO" => t = "NotIPO"
      BY <1>2, <3>2, StatusGiven
    <3> QED
      BY <1>2, <3>1, <3>3 DEF Rows
  <2>4. FromIndex(r, d) \in Rows
    BY <1>1, <1>2, <2>3 DEF Rows, Statuses
  <2> QED
    BY <1>1, <1>2, <1>4, <2>2, <2>3, <2>4 DEF Judged, Rows
<1>5. CASE ~(filed[d].form = "RW" /\ r.status = "Filed")
           /\ ~(filed[d].form = "424B4" /\ Classify(filed[d].says) = "ipo")
  BY <1>5 DEF FromIndex
<1> QED
  BY <1>3, <1>4, <1>5

\* The walk from the newest day down to day k.
Down(f, days, k) ==
  f = [d \in k..now + 1 |->
         IF d = now + 1 THEN record
         ELSE IF d \in days THEN FromIndex(f[d + 1], d) ELSE f[d + 1]]

LEMMA WalkExists ==
  ASSUME EdgarTypes, NEW days
  PROVE  \E f : Down(f, days, 1)
<1> DEFINE Bad == {m \in 0..now : ~\E f : Down(f, days, now + 1 - m)}
<1>0. now \in Nat
  BY DayIsNumber DEF EdgarTypes
<1>1. SUFFICES ASSUME Bad # {} PROVE FALSE
  <2>1. now \notin Bad /\ now \in 0..now /\ now + 1 - now = 1
    BY <1>0, <1>1
  <2> QED
    BY <2>1
<1>2. PICK m \in Bad : \A y \in Bad : m <= y
  <2>1. Bad \in SUBSET Nat
    BY <1>0
  <2> HIDE DEF Bad
  <2> QED
    BY <1>1, <2>1, LeastNumber
<1>3. m \in 0..now /\ ~\E f : Down(f, days, now + 1 - m)
  BY <1>2
<1>4. CASE m = 0
  <2> DEFINE f == [d \in now + 1 .. now + 1 |-> record]
  <2>1. Down(f, days, now + 1)
    BY <1>0 DEF Down
  <2> QED
    BY <1>0, <1>3, <1>4, <2>1
<1>5. CASE m # 0
  <2>1. m - 1 \in 0..now /\ m - 1 \notin Bad
    BY <1>0, <1>2, <1>3, <1>5
  <2>2. PICK f : Down(f, days, now + 1 - (m - 1))
    BY <2>1
  <2> DEFINE k == now + 1 - m
             g == [d \in k..now + 1 |->
                     IF d = k THEN IF k \in days THEN FromIndex(f[k + 1], k) ELSE f[k + 1] ELSE f[d]]
  <2>3. k \in Nat /\ k \in 1..now /\ now + 1 - (m - 1) = k + 1
    BY <1>0, <1>3, <1>5
  <2>4. Down(f, days, k + 1)
    BY <2>2, <2>3
  <2>5. \A d \in k + 1..now + 1 :
          f[d] = IF d = now + 1 THEN record
                 ELSE IF d \in days THEN FromIndex(f[d + 1], d) ELSE f[d + 1]
    BY <2>4 DEF Down
  <2> HIDE DEF k
  <2>6. \A d \in k..now + 1 :
          g[d] = IF d = now + 1 THEN record
                 ELSE IF d \in days THEN FromIndex(g[d + 1], d) ELSE g[d + 1]
    <3> TAKE d \in k..now + 1
    <3>1. CASE d = k
      <4>1. d # now + 1 /\ d + 1 \in k..now + 1 /\ d + 1 # k
        BY <1>0, <2>3, <3>1
      <4>2. g[d + 1] = f[k + 1]
        BY <4>1, <3>1
      <4> HIDE DEF g
      <4>3. g[d] = IF k \in days THEN FromIndex(f[k + 1], k) ELSE f[k + 1]
        BY <3>1 DEF g
      <4> QED
        BY <4>1, <4>2, <4>3, <3>1
    <3>2. CASE d = now + 1
      BY <1>0, <2>3, <2>5, <3>2
    <3>3. CASE d # k /\ d # now + 1
      <4>1. d \in k + 1..now + 1 /\ d + 1 \in k..now + 1 /\ d + 1 # k
        BY <1>0, <2>3, <3>3
      <4>2. g[d] = f[d] /\ g[d + 1] = f[d + 1]
        BY <4>1, <3>3
      <4> HIDE DEF g
      <4> QED
        BY <4>1, <4>2, <2>5, <3>3
    <3> QED
      BY <3>1, <3>2, <3>3
  <2>7. Down(g, days, k)
    <3>1. g = [d \in k..now + 1 |-> g[d]]
      OBVIOUS
    <3> HIDE DEF g
    <3> QED
      BY <2>6, <3>1 DEF Down
  <2> QED
    BY <1>3, <2>7 DEF k
<1> QED
  BY <1>4, <1>5

\* What the row is after the days read.
LEMMA WalkJudges ==
  ASSUME EdgarTypes, Judged(record), NEW days
  PROVE  Judged(After(days))
<1>0. now \in Nat
  BY DayIsNumber DEF EdgarTypes
<1> DEFINE f == CHOOSE f : Down(f, days, 1)
<1>1. Down(f, days, 1)
  BY WalkExists
<1>2. After(days) = f[1]
  BY DEF After, Down
<1> HIDE DEF f
<1>3. \A d \in 1..now + 1 :
        f[d] = IF d = now + 1 THEN record
               ELSE IF d \in days THEN FromIndex(f[d + 1], d) ELSE f[d + 1]
  BY <1>1 DEF Down
<1> DEFINE Bad == {m \in 0..now : ~Judged(f[now + 1 - m])}
<1>4. SUFFICES ASSUME Bad # {} PROVE FALSE
  <2>1. now \in 0..now /\ now + 1 - now = 1
    BY <1>0
  <2>2. Judged(f[now + 1 - now])
    BY <2>1, <1>4
  <2>3. f[now + 1 - now] = f[1]
    BY <2>1
  <2> QED
    BY <2>2, <2>3, <1>2
<1>5. PICK m \in Bad : \A y \in Bad : m <= y
  <2>1. Bad \in SUBSET Nat
    BY <1>0
  <2> HIDE DEF Bad
  <2> QED
    BY <1>4, <2>1, LeastNumber
<1>6. m \in 0..now /\ ~Judged(f[now + 1 - m])
  BY <1>5
<1>7. CASE m = 0
  <2>1. now + 1 - m = now + 1 /\ now + 1 \in 1..now + 1
    BY <1>0, <1>7
  <2>2. f[now + 1] = record
    BY <2>1, <1>3
  <2> QED
    BY <1>6, <2>1, <2>2
<1>8. CASE m # 0
  <2> DEFINE k == now + 1 - m
  <2>1. m - 1 \in 0..now /\ m - 1 \notin Bad /\ now + 1 - (m - 1) = k + 1
    BY <1>0, <1>5, <1>6, <1>8
  <2>2. Judged(f[k + 1])
    BY <2>1
  <2>3. k \in 1..now /\ k # now + 1 /\ k \in 1..now + 1
    BY <1>0, <1>6, <1>8
  <2>4. Judged(FromIndex(f[k + 1], k))
    BY <2>2, <2>3, IndexJudges
  <2>5. f[k] = IF k \in days THEN FromIndex(f[k + 1], k) ELSE f[k + 1]
    BY <1>3, <2>3
  <2> HIDE DEF k
  <2>6. Judged(f[k])
    BY <2>2, <2>4, <2>5
  <2> QED
    BY <2>6, <1>6 DEF k
<1> QED
  BY <1>7, <1>8

LEMMA EdgarInitial == EdgarInit => EdgarInv
  BY DayIsNumber DEF EdgarInit, EdgarInv, EdgarTypes, Judged, Rows, Statuses, NoRecord, Has,
    Documents, Nothing, ListedDaysAreRead

\* A row that has not changed is still what it was.
LEMMA FilingsStay ==
  ASSUME EdgarTypes, Judged(record), record' = record, now' >= now, now' \in Nat,
         \A d \in 1..now : filed'[d] = filed[d], reporting => reporting'
  PROVE  Judged(record)'
<1>0. now \in Nat
  BY DayIsNumber DEF EdgarTypes
<1>1. \A form, first : Has(form, first) => Has(form, first)'
  BY <1>0 DEF Has
<1>2. record.url \in Nat /\ record.url <= now
  BY DEF Judged, Rows
<1>3. record.url \in 1..now' => record.url \in 1..now
  BY <1>0, <1>2
<1>4. record \in Rows /\ record.url <= now'
  <2>1. record.url <= now'
    BY <1>0, <1>2
  <2> QED
    BY <2>1 DEF Judged
<1>4a. /\ record.status = "Listed" \/ record.priced => Has("424B4", TRUE)
       /\ record.status = "Withdrawn" => Has("RW", FALSE)
       /\ record.status = "NotIPO" => Has("S-1", FALSE) \/ reporting
       /\ record.nonIpo => record.status = "NotIPO"
  BY DEF Judged
<1>5. ASSUME record.url \in 1..now', filed'[record.url].form = "S-1", ~filed'[record.url].ipo,
             record.status # "absent", record.checked,
             "ipo" \notin filed'[record.url].says \/ record.told
      PROVE  record.status = "NotIPO"
  <2>1. record.url \in 1..now /\ filed'[record.url] = filed[record.url]
    BY <1>3, <1>5
  <2> QED
    BY <1>5, <2>1 DEF Judged
<1> QED
  BY <1>1, <1>4, <1>4a, <1>5 DEF Judged

LEMMA EdgarStep == EdgarInv /\ [EdgarNext]_edgarVars => EdgarInv'
<1> SUFFICES ASSUME EdgarInv, [EdgarNext]_edgarVars PROVE EdgarInv'
  OBVIOUS
<1> USE DayIsNumber
<1>0. EdgarTypes /\ Judged(record) /\ now \in Nat /\ indexed \in Nat /\ indexed <= now
  BY DEF EdgarInv, EdgarTypes
<1>1. CASE UNCHANGED edgarVars
  <2>1. EdgarTypes' /\ ListedDaysAreRead'
    BY <1>1 DEF edgarVars, EdgarInv, EdgarTypes, ListedDaysAreRead
  <2>2. Judged(record)'
    BY <1>0, <1>1, FilingsStay DEF edgarVars
  <2> QED
    BY <2>1, <2>2 DEF EdgarInv
<1>2. CASE NextDay
  <2>1. PICK f \in Documents : filed' = [filed EXCEPT ![now + 1] = f]
    BY <1>2 DEF NextDay
  <2>2. now' = now + 1 /\ now < EdgarDays /\ skipped' = {} /\ record' = record /\ reporting' = reporting
        /\ (indexed' = now \/ indexed' = indexed)
    BY <1>2 DEF NextDay
  <2>3. EdgarTypes'
    BY <1>0, <2>1, <2>2 DEF EdgarTypes
  <2>4. \A d \in 1..now : filed'[d] = filed[d]
    BY <1>0, <2>1 DEF EdgarTypes
  <2>5. Judged(record)'
    BY <1>0, <2>2, <2>4, FilingsStay
  <2> QED
    BY <2>2, <2>3, <2>5 DEF EdgarInv, ListedDaysAreRead
<1>3. CASE PublishIndex \/ RestartProcess
  <2>1. /\ UNCHANGED <<filed, now, reporting, record>> /\ skipped' = {}
        /\ indexed' = now \/ indexed' = indexed
    BY <1>3 DEF PublishIndex, RestartProcess
  <2>2. EdgarTypes'
    BY <1>0, <2>1 DEF EdgarTypes
  <2>3. Judged(record)'
    BY <1>0, <2>1, FilingsStay
  <2> QED
    BY <2>1, <2>2, <2>3 DEF EdgarInv, ListedDaysAreRead
<1>4. CASE FirstReport
  <2>1. /\ UNCHANGED <<filed, now, indexed, record, listingOf, skipped>> /\ reporting' = TRUE
    BY <1>4 DEF FirstReport
  <2>2. EdgarTypes' /\ ListedDaysAreRead'
    BY <1>0, <2>1 DEF EdgarTypes, EdgarInv, ListedDaysAreRead
  <2>3. Judged(record)'
    BY <1>0, <2>1, FilingsStay
  <2> QED
    BY <2>2, <2>3 DEF EdgarInv
<1>5. CASE IngestSec
  <2>1. UNCHANGED <<filed, now, indexed, reporting, listingOf, skipped>>
    BY <1>5 DEF IngestSec
  <2>2. EdgarTypes' /\ ListedDaysAreRead'
    BY <1>0, <2>1 DEF EdgarTypes, EdgarInv, ListedDaysAreRead
  <2>3. PICK d \in 1..now :
          /\ filed[d].form = "S-1"
          /\ IF Unchanged(d) THEN record' = WithStatus(record, "Filed")
             ELSE \E text, facts \in BOOLEAN : record' = Take(record, d, Enriched(filed[d], text, facts))
    BY <1>5 DEF IngestSec
  <2>4. filed[d] \in Documents /\ d \in Nat /\ d <= now
    BY <1>0 DEF EdgarTypes
  <2>5. record \in Rows /\ record.status \in Statuses
    BY <1>0 DEF Judged, Rows
  <2>6. Judged(record')
    <3>1. CASE Unchanged(d)
      <4>1. record' = record \/ (record.status \in {"absent", "Filed"} /\ record' = [record EXCEPT !.status = "Filed"])
        BY <2>3, <2>5, <3>1 DEF WithStatus, RankOf, Statuses
      <4>2. record.status # "absent"
        BY <3>1 DEF Unchanged
      <4>3. record.status = "Filed" => [record EXCEPT !.status = "Filed"] = record
        BY <2>5 DEF Rows
      <4> QED
        BY <1>0, <4>1, <4>2, <4>3
    <3>2. CASE ~Unchanged(d)
      <4>1. PICK text \in BOOLEAN, facts \in BOOLEAN : record' = Take(record, d, Enriched(filed[d], text, facts))
        BY <2>3, <3>2
      <4> DEFINE told == facts /\ reporting
      <4> DEFINE non == (text /\ "ipo" \notin filed[d].says) \/ told
      <4>2. PICK s \in {"Filed", "NotIPO", record.status} :
              /\ record' = [record EXCEPT !.status = s, !.url = d, !.checked = text, !.nonIpo = non,
                                          !.told = told]
              /\ non => s = "NotIPO"
              /\ s = "NotIPO" /\ ~non => record.status = "NotIPO"
        <5> DEFINE want == IF non THEN "NotIPO" ELSE "Filed"
        <5>1. record' = [WithStatus(record, want) EXCEPT !.url = d, !.checked = text, !.nonIpo = non,
                                                         !.told = told]
          BY <4>1 DEF Take, Enriched
        <5>2. want \in Statuses /\ want \in {"Filed", "NotIPO"} /\ (non <=> want = "NotIPO")
          BY DEF Statuses
        <5> HIDE DEF want, non, told
        <5>3. PICK t \in {want, record.status} :
                /\ WithStatus(record, want) = [record EXCEPT !.status = t]
                /\ want = "NotIPO" => t = "NotIPO"
          BY <2>5, <5>2, StatusGiven
        <5> QED
          BY <2>5, <5>1, <5>2, <5>3 DEF Rows
      <4>3. text /\ "ipo" \notin filed[d].says => ~filed[d].ipo
        BY <2>3, <2>4, DocumentFacts
      <4>5. non => Has("S-1", FALSE) \/ reporting
        <5>1. filed[d].ipo \in BOOLEAN
          BY <2>4, DocumentFacts
        <5> QED
          BY <2>3, <4>3, <5>1 DEF Has
      <4>6. non \in BOOLEAN /\ told \in BOOLEAN
        BY <1>0 DEF EdgarTypes
      <4>7. text /\ ("ipo" \notin filed[d].says \/ told) => non
        OBVIOUS
      <4> HIDE DEF non, told
      <4>8. record' \in Rows
        BY <2>4, <2>5, <4>2, <4>6 DEF Rows, Statuses
      <4>9. /\ record'.status = s /\ record'.url = d /\ record'.checked = text
            /\ record'.nonIpo = non /\ record'.told = told /\ record'.priced = record.priced
        BY <2>5, <4>2 DEF Rows
      <4> QED
        BY <1>0, <2>4, <4>2, <4>5, <4>7, <4>8, <4>9 DEF Judged
    <3> QED
      BY <3>1, <3>2
  <2>7. Judged(record)'
    BY <2>1, <2>6 DEF Judged, Has
  <2> QED
    BY <2>2, <2>7 DEF EdgarInv
<1>6. CASE IngestPriced
  <2>1. UNCHANGED <<filed, now, indexed, reporting>>
    BY <1>6 DEF IngestPriced
  <2>2. PICK days : record' = After(days)
    BY <1>6 DEF IngestPriced
  <2>3. Judged(record')
    BY <1>0, <2>2, WalkJudges
  <2>4. Judged(record)'
    BY <2>1, <2>3 DEF Judged, Has
  <2>5. ListedDaysAreRead'
    <3>1. PICK cached \in {listingOf, indexed, NotFetched}, answer \in [Window -> {"ok", "denied", "not_found", "throttled"}] :
            /\ \A d \in Window : answer[d] \in Answers(d)
            /\ listingOf' = cached
            /\ skipped' = {d \in Window : Unavailable(d, cached, answer[d])}
      BY <1>6 DEF IngestPriced
    <3>2. SUFFICES ASSUME NEW d \in skipped', ~(d > indexed)
                   PROVE  listingOf' # NotFetched /\ d > listingOf'
      BY <2>1 DEF ListedDaysAreRead
    <3>3. d \in Nat /\ d \in Window /\ Unavailable(d, cached, answer[d])
      BY <3>1 DEF Window
    <3>4. answer[d] \in {"ok", "throttled"}
      BY <1>0, <3>1, <3>2, <3>3 DEF Answers
    <3> QED
      BY <3>1, <3>3, <3>4 DEF Unavailable
  <2>6. EdgarTypes'
    BY <1>0, <2>1 DEF EdgarTypes
  <2> QED
    BY <2>4, <2>5, <2>6 DEF EdgarInv
<1> QED
  BY <1>1, <1>2, <1>3, <1>4, <1>5, <1>6 DEF EdgarNext

\* A registrant's row says what its filings and reports give reason to say, for
\* any filings, lookback, throttling, restarts and days without an index; and no
\* index that was out when the process asked for the listing is passed over.
THEOREM RegistrantsAreJudged == EdgarSpec => []RegistrantIsJudged
<1>1. EdgarInv => RegistrantIsJudged
  <2> SUFFICES ASSUME EdgarInv PROVE RegistrantIsJudged
    OBVIOUS
  <2>1. StatusHasEvidence
    BY DEF EdgarInv, Judged, StatusHasEvidence, Has
  <2>2. SkipIsSound
    BY DEF EdgarInv, Judged, SkipIsSound, Unchanged
  <2> QED
    BY <2>1, <2>2 DEF EdgarInv, RegistrantIsJudged
<1> QED
  BY <1>1, EdgarInitial, EdgarStep, PTL DEF EdgarSpec
=============================================================================

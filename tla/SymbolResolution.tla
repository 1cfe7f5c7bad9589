-------------------------- MODULE SymbolResolution --------------------------
(***************************************************************************)
(* resolve_india_symbols and the matching rules of MasterIndex: how the    *)
(* row of one Indian issuer gets its exchange symbol and ISIN from NSE's   *)
(* masters, while shares list, split, migrate between boards and give      *)
(* their symbols up to others.  The other issuer has no row; it may bear   *)
(* the same canonical name.  The board and the dates of the row, which a   *)
(* match fills in as well, are left out.                                   *)
(***************************************************************************)
EXTENDS Naturals, FiniteSets

CONSTANTS
  Tickers,       \* exchange symbols
  ExchangeDays,  \* bound: the last day
  ListingWindow  \* LISTING_WINDOW_DAYS

NoTicker == "none"
BondSeries == "bond series"   \* the symbol of a debt security

ASSUME SymbolAssumption ==
  /\ ExchangeDays \in Nat /\ ListingWindow \in Nat
  /\ NoTicker \notin Tickers /\ BondSeries \notin Tickers

\* An ISIN: the issuer's code and the kind of instrument are its first nine
\* characters; the rest changes with a split.
Isin(i, kind, n) == [issuer |-> i, kind |-> kind, serial |-> n]
NoIsin == Isin("nobody", "none", 0)

VARIABLES
  tradingDay,   \* today
  sameName,  \* the two issuers' names have one canonical form
  phase,     \* of the row's issue
  assigned,  \* the symbol the issue was opened under
  closedOn,  \* its close_date
  masters,   \* the rows of EQUITY_L.csv and SME_EQUITY_L.csv
  freed,     \* [Tickers -> the last day it was in use]
  ipo        \* the row: symbol, isin, status, its symbol_resolution flag

symbolVars == <<tradingDay, sameName, phase, assigned, closedOn, masters, freed, ipo>>
exchangeVars == <<tradingDay, sameName, phase, assigned, closedOn, masters, freed>>

NoIpo == [symbol |-> NoTicker, isin |-> NoIsin, status |-> "none",
          flag |-> "none"]

SymbolInit ==
  /\ tradingDay = 1 /\ sameName \in BOOLEAN /\ phase = "private" /\ assigned = NoTicker
  /\ closedOn = 0 /\ masters = {} /\ freed = [t \in Tickers |-> 0] /\ ipo = NoIpo

-----------------------------------------------------------------------------
(* The exchange.  A symbol names one security at a time, and is not given   *)
(* to another before the window in which an issue lists has passed.         *)

Line(t, i, n, d) == [symbol |-> t, issuer |-> i, serial |-> n, listed |-> d]
Free(t) ==
  /\ \A l \in masters : l.symbol # t
  /\ phase \in {"open", "closed"} => assigned # t
  /\ freed[t] = 0 \/ tradingDay > freed[t] + ListingWindow

NextSession ==
  /\ tradingDay < ExchangeDays /\ tradingDay' = tradingDay + 1
  /\ UNCHANGED <<sameName, phase, assigned, closedOn, masters, freed, ipo>>

Open(t) ==
  /\ phase = "private" /\ Free(t) /\ phase' = "open" /\ assigned' = t
  /\ UNCHANGED <<tradingDay, sameName, closedOn, masters, freed, ipo>>

\* Bidding ends, or the issue is withdrawn.
Close ==
  /\ phase = "open" /\ phase' \in {"closed", "withdrawn"} /\ closedOn' = tradingDay
  /\ freed' = IF phase' = "closed" THEN freed ELSE [freed EXCEPT ![assigned] = tradingDay]
  /\ UNCHANGED <<tradingDay, sameName, assigned, masters, ipo>>

ListShares ==
  /\ phase = "closed" /\ tradingDay <= closedOn + ListingWindow /\ phase' = "listed"
  /\ masters' = masters \cup {Line(assigned, "own", 0, tradingDay)}
  /\ UNCHANGED <<tradingDay, sameName, assigned, closedOn, freed, ipo>>

\* The other issuer lists; the row's issuer moves to the other board under a new
\* symbol, and is in both masters for a time.
ListOther(t) ==
  /\ Free(t) /\ \A l \in masters : l.issuer # "other"
  /\ masters' = masters \cup {Line(t, "other", 0, tradingDay)}
  /\ UNCHANGED <<tradingDay, sameName, phase, assigned, closedOn, freed, ipo>>

ChangeBoard(t) ==
  /\ Free(t) /\ \E l \in masters : /\ l.issuer = "own"
                                   /\ masters' = masters \cup {Line(t, "own", l.serial, tradingDay)}
  /\ UNCHANGED <<tradingDay, sameName, phase, assigned, closedOn, freed, ipo>>

Split ==
  /\ \E l \in masters : l.issuer = "own" /\ l.serial = 0
  /\ masters' = {IF l.issuer = "own" THEN [l EXCEPT !.serial = 1] ELSE l : l \in masters}
  /\ UNCHANGED <<tradingDay, sameName, phase, assigned, closedOn, freed, ipo>>

Delist(l) ==
  /\ masters' = masters \ {l} /\ freed' = [freed EXCEPT ![l.symbol] = tradingDay]
  /\ UNCHANGED <<tradingDay, sameName, phase, assigned, closedOn, ipo>>

-----------------------------------------------------------------------------
(* The row's other sources. *)

\* The live feed carries the symbol and no ISIN.
ReadFeed ==
  /\ phase = "open" /\ ipo.status \in {"none", "Upcoming"}
  /\ \E s \in {"Upcoming", "Open"} :
       ipo' = [ipo EXCEPT !.symbol = assigned, !.status = s]
  /\ UNCHANGED exchangeVars

\* reconcile_lifecycle after the close; NSE's past issues after the listing.
ReadPast ==
  /\ \/ /\ phase \notin {"private", "open"} /\ ipo.status \in {"Upcoming", "Open"}
        /\ ipo' = [ipo EXCEPT !.status = "Closed"]
     \/ /\ phase = "listed" /\ ipo.status \in {"Open", "Closed"}
        /\ ipo' = [ipo EXCEPT !.status = "Listed"]
  /\ UNCHANGED exchangeVars

\* A monthly report, this month's or one that is read again: the issue's ISIN on
\* the day it listed, or a bond's of the same issuer with the bond's symbol.
ReadMonthly(kind) ==
  /\ phase = "listed"
  /\ ipo' = [ipo EXCEPT !.status = "Listed", !.isin = Isin("own", kind, 0),
                        !.symbol = IF kind = "debt" THEN BondSeries ELSE @]
  /\ UNCHANGED exchangeVars

-----------------------------------------------------------------------------
(* MasterIndex *)

MasterIsin(l) == Isin(l.issuer, "equity", l.serial)
ByIsin(x) == {l \in masters : MasterIsin(l) = x}
ByName == {l \in masters : l.issuer = "own" \/ sameName}
BySymbol(t) == {l \in masters : l.symbol = t}
SameCode(x, y) == x.issuer = y.issuer
SamePrefix(x, y) == SameCode(x, y) /\ x.kind = y.kind

\* Mutant: the name is enough where the row has an ISIN that is in no master.
ResolveByName(isin) ==
  IF ByIsin(isin) # {} THEN [class |-> "RESOLVED_ISIN", lines |-> ByIsin(isin)]
  ELSE [class |-> "RESOLVED_NAME_ISIN_PREFIX", lines |-> ByName]

\* resolve: what a row without a symbol is found to be, and the lines that are
\* it; more than one line is ambiguous.
Resolve(isin) ==
  IF ByIsin(isin) # {}
  THEN [class |-> IF Cardinality(ByIsin(isin)) = 1 THEN "RESOLVED_ISIN" ELSE "AMBIGUOUS",
        lines |-> ByIsin(isin)]
  ELSE [class |-> IF ByName = {} THEN "UNRESOLVED"
                  ELSE IF Cardinality(ByName) > 1 THEN "AMBIGUOUS"
                  ELSE IF isin = NoIsin THEN "UNRESOLVED"
                  ELSE IF \A l \in ByName : SamePrefix(MasterIsin(l), isin)
                       THEN "RESOLVED_NAME_ISIN_PREFIX" ELSE "CONFLICTING",
        lines |-> ByName]

\* equity_for_non_equity_isin
EquityOf(isin) ==
  {l \in ByName : /\ isin # NoIsin /\ isin.kind # "equity" /\ Cardinality(ByName) = 1
                  /\ SameCode(MasterIsin(l), isin)}

\* Mutant: whatever carries the symbol has listed, whenever that was.
ListingOfLate(t) == {l \in BySymbol(t) : l \in ByName /\ closedOn # 0}

\* listing_for_live_symbol
ListingOf(t) ==
  {l \in BySymbol(t) : /\ l \in ByName /\ closedOn # 0
                       /\ l.listed \in closedOn..(closedOn + ListingWindow)}

-----------------------------------------------------------------------------
(* resolve_india_symbols: the rows r can become, by what it has.  Both        *)
(* callers pass no limit.                                                   *)

AttachListing(r) ==
  IF ListingOf(r.symbol) = {} THEN {r}
  ELSE {[r EXCEPT !.isin = MasterIsin(l), !.status = "Listed", !.flag = "none"] :
          l \in ListingOf(r.symbol)}

\* Mutant: a symbol that disagrees with the masters is written over.
CrossCheckOverwriting(r) ==
  {[r EXCEPT !.symbol = l.symbol] : l \in ByIsin(r.isin)}
  \cup (IF ByIsin(r.isin) = {} THEN {r} ELSE {})

\* check_symbol, for an ISIN that is in the masters.
Agrees(r) == \E l \in ByIsin(r.isin) : l.symbol = r.symbol

CrossCheck(r) ==
  IF ByIsin(r.isin) # {}
  THEN {[r EXCEPT !.flag = IF Agrees(r) THEN "none" ELSE "CONFLICTING"]}
  ELSE IF EquityOf(r.isin) = {} THEN {r}
  ELSE {[r EXCEPT !.isin = MasterIsin(l), !.symbol = l.symbol,
                  !.flag = "RESOLVED_ISSUER_EQUITY"] : l \in EquityOf(r.isin)}

AttachSymbol(r) ==
  LET found == Resolve(r.isin)
  IN IF found.class \in {"RESOLVED_ISIN", "RESOLVED_NAME_ISIN_PREFIX"}
     THEN {[r EXCEPT !.symbol = l.symbol, !.isin = MasterIsin(l), !.flag = "none"] :
             l \in found.lines}
     ELSE {[r EXCEPT !.flag = found.class]}

ResolveRow(r) ==
  CASE r.symbol = NoTicker -> AttachSymbol(r)
    [] r.symbol # NoTicker /\ r.isin = NoIsin /\ r.status # "Upcoming" -> AttachListing(r)
    [] OTHER -> CrossCheck(r)

ResolveSymbols == ipo # NoIpo /\ ipo' \in ResolveRow(ipo) /\ UNCHANGED exchangeVars

SymbolNext ==
  \/ NextSession \/ Close \/ ListShares \/ Split \/ ReadFeed \/ ReadPast \/ ResolveSymbols
  \/ \E t \in Tickers : Open(t) \/ ListOther(t) \/ ChangeBoard(t)
  \/ \E l \in masters : Delist(l)
  \/ \E kind \in {"equity", "debt"} : ReadMonthly(kind)

-----------------------------------------------------------------------------
\* "A wrong symbol would attach another company's price history to an IPO"
\* (nse_master.py:11): what a pass writes to the row is of its own issuer, though
\* symbols change hands and names are alike; a symbol that trades is never
\* written over; only shares that list are Listed.
OwnSharesOnly ==
  ResolveSymbols =>
    LET new == ipo'
    IN /\ new.isin # NoIsin => new.isin.issuer = "own"
       /\ new.symbol # ipo.symbol =>
            /\ \E l \in masters : l.symbol = new.symbol /\ l.issuer = "own"
            /\ ipo.symbol \in {NoTicker, BondSeries}
       /\ new.status # ipo.status => phase = "listed"

\* With masters that do not change the next pass leaves the row as it is, but for
\* the flag of a bond that was replaced.
PassSettles ==
  ResolveSymbols =>
    \A again \in ResolveRow(ipo)' :
      again = ipo' \/ again = [ipo EXCEPT !.flag = "none"]'

\* Another's symbol does not go unnoticed while the masters know the row's ISIN.
ReuseIsFlagged ==
  ResolveSymbols /\ (\E l \in BySymbol(ipo.symbol)' : l.issuer = "other") =>
    (ipo.flag = "CONFLICTING" \/ ByIsin(ipo.isin) = {})'

IdentityIsExact == [][OwnSharesOnly /\ PassSettles /\ ReuseIsFlagged]_symbolVars

SymbolSpec == SymbolInit /\ [][SymbolNext]_symbolVars
=============================================================================

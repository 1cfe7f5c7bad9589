------------------------------ MODULE SiteBuild -----------------------------
(***************************************************************************)
(* What scripts/build_pages.py publishes of the rows of the database:      *)
(* which list a row goes to, which of an issuer's records is kept, and at  *)
(* which address its page is.                                              *)
(***************************************************************************)
EXTENDS Integers, FiniteSets, FiniteSetsExt, Sequences

CONSTANTS
  RowIds,    \* ids of the IPO table
  Issuers    \* country and canonical name; "nameless" without any token

ASSUME SiteAssumption == RowIds \subseteq Nat \ {0}

VARIABLES
  table,     \* [RowIds -> Record]
  issuerOf,  \* [RowIds -> Issuers \cup {"nameless"}]
  richness,  \* [RowIds -> Nat], how _completeness ranks a record before its id
  base       \* [RowIds -> Seq(Nat)], slugify of its external_key, by its tokens

siteVars == <<table, issuerOf, richness, base>>

Active == {"Filed", "Priced", "Closed"}

\* age is that of the date the rules look at: "unknown" when parse_date makes
\* nothing of it, "ahead" when it has not come yet.
Record == [status : Active \cup {"Withdrawn", "Listed", "NotIPO"},
           age : {"ahead", "young", "old", "unknown"}, flagged : BOOLEAN]

\* Addresses: apart, two rows of one slug, and a key that ends in a row's id.
SiteInit ==
  /\ \E s \in {"Filed", "Closed", "NotIPO"} :
       table = [r \in RowIds |-> [status |-> s, age |-> "young", flagged |-> FALSE]]
  /\ issuerOf \in [RowIds -> Issuers \cup {"nameless"}]
  /\ richness \in {[r \in RowIds |-> IF r = x THEN 1 ELSE 0] : x \in RowIds}
  /\ base \in {[r \in RowIds |-> <<0>>], [r \in RowIds |-> <<r>>]}
              \cup {[r \in RowIds |-> IF r = Min(RowIds) THEN <<0, Max(RowIds)>> ELSE <<0>>]}

Becomes(r, s, a) ==
  /\ table' = [table EXCEPT ![r] = [status |-> s, age |-> a, flagged |-> FALSE]]
  /\ UNCHANGED <<issuerOf, richness, base>>

\* The pipeline moves a row on.  A listing's date may be missing or to come.
RowMoves(r) ==
  \/ table[r].status = "Filed" /\ \E s \in {"Priced", "Withdrawn"} : Becomes(r, s, "young")
  \/ table[r].status \in {"Priced", "Closed"}
       /\ \E a \in {"ahead", "young", "unknown"} : Becomes(r, "Listed", a)
  \/ table[r].status \in {"Closed", "Listed"} /\ Becomes(r, "NotIPO", "young")

RowAges(r) ==
  /\ table[r].status \in {"Filed", "Closed", "Listed"} /\ table[r].age \in {"ahead", "young"}
  /\ table' = [table EXCEPT ![r].age = IF @ = "ahead" THEN "young" ELSE "old"]
  /\ UNCHANGED <<issuerOf, richness, base>>

\* enrich finds that a registration is none of an IPO.
RowFlagged(r) ==
  /\ table[r].status = "Filed" /\ table' = [table EXCEPT ![r].flagged = TRUE]
  /\ UNCHANGED <<issuerOf, richness, base>>

SiteNext == \E r \in RowIds : RowMoves(r) \/ RowAges(r) \/ RowFlagged(r)

SiteSpec == SiteInit /\ [][SiteNext]_siteVars

-----------------------------------------------------------------------------
With(statuses) == {r \in RowIds : table[r].status \in statuses}
SameIssuer(x, y) == issuerOf[x] = issuerOf[y]

\* upcoming_exclusion_reason: a stale registration, an issue that closed long
\* ago and never listed.
Unpublishable(r) == table[r].flagged \/ (table[r].status # "Priced" /\ table[r].age = "old")

Dated(ages) == {r \in With({"Listed"}) : table[r].age \in ages}
InWindow == Dated({"young"})
OutOfWindow == Dated({"old", "ahead"})
Unparseable == Dated({"unknown"})

\* Mutant: only listings in the window supersede.
ListedAlreadyInWindow(r) == \E x \in InWindow : SameIssuer(x, r)

\* listed_names: a blank name is a name like any other here.
ListedAlready(r) == \E x \in InWindow \cup OutOfWindow : SameIssuer(x, r)

\* _completeness.
Better(x, y) == richness[x] > richness[y] \/ (richness[x] = richness[y] /\ x < y)

\* dedupe_by_issuer.
Kept(rows) ==
  {r \in rows : issuerOf[r] = "nameless" \/ ~\E x \in rows \ {r} : SameIssuer(x, r) /\ Better(x, r)}

Candidates == {r \in With(Active) : ~Unpublishable(r)}
StillUpcoming == {r \in Candidates : ~ListedAlready(r)}
Upcoming == Kept(StillUpcoming)
Withdrawn == With({"Withdrawn"})
History == Kept(InWindow)
Excluded == {r \in With(Active) : Unpublishable(r)} \cup With({"NotIPO"})
            \cup (Candidates \ StillUpcoming) \cup (StillUpcoming \ Upcoming) \cup (InWindow \ History)
Published == Upcoming \cup Withdrawn \cup History

\* Mutant: only the next record of a slug is told apart.
SlugOnce(r) ==
  IF \E x \in Published : base[x] = base[r] /\ x < r THEN Append(base[r], 0) ELSE base[r]

\* id_to_slug: the lowest published id of a slug keeps it bare.
Slug(r) ==
  IF \E x \in Published : base[x] = base[r] /\ x < r THEN Append(base[r], r) ELSE base[r]

-----------------------------------------------------------------------------
\* "Every row that is discovered but not published lands in `excluded` with a
\* reason; nothing is silently dropped" (build_pages.py:173): but for the
\* listings outside the window, which the manifest counts.
EveryRowHasItsPlace ==
  LET places == <<Upcoming, Withdrawn, History, OutOfWindow, Unparseable, Excluded>>
  IN \A r \in RowIds : Cardinality({i \in DOMAIN places : r \in places[i]}) = 1

\* "An already-listed IPO is never shown as upcoming" (build_pages.py:201),
\* unless its listing has no date that can be read; and no list has two records
\* of one issuer.
OneRecordPerIssuer ==
  \A x, y \in RowIds : x # y /\ SameIssuer(x, y) /\ issuerOf[x] # "nameless" =>
    /\ {x, y} \cap Upcoming # {} => table[x].status # "Listed" \/ x \in Unparseable
    /\ ~({x, y} \subseteq Upcoming \/ {x, y} \subseteq History)

\* An issuer with a publishable record keeps one, the best in its list.
SomeRecordStays ==
  \A r \in StillUpcoming \cup InWindow :
    \E x \in Upcoming \cup History : SameIssuer(x, r) /\ (x = r \/ Better(x, r))

\* "Every IPO still gets its own page" (build_pages.py:320): but where a key
\* ends in the very number that tells two others apart.
PagesAreApart ==
  \A x, y \in Published : x # y /\ Slug(x) = Slug(y) =>
    base[x] # base[y] /\ (base[x] = Append(base[y], y) \/ base[y] = Append(base[x], x))

\* What the site says of the rows, and where.
SiteIsComplete ==
  EveryRowHasItsPlace /\ OneRecordPerIssuer /\ SomeRecordStays /\ PagesAreApart
=============================================================================

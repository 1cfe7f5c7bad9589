---------------------------- MODULE ListingRepair ---------------------------
(***************************************************************************)
(* One US row written from a 424B4, under the tools that judge and price   *)
(* it again from the cover of its filing (scripts/backfill_us_priced.py    *)
(* with --repair-existing, scripts/repair_us_prices.py) and the passes     *)
(* that compute its returns from the price it has.                         *)
(***************************************************************************)
EXTENDS Integers, FiniteSets

VARIABLES
  filing,    \* what the classifiers and parsers make of the filing's head
  status, price, flags,
  basis,     \* the price its snapshots are computed from, "none" without any
  reads,     \* times the repair has read the filing, 2 for more than once
  verdicts,  \* times status changed
  restored   \* listed again, with a price, by the recheck

repairVars == <<filing, status, price, flags, basis, reads, verdicts, restored>>

\* cut: the head was truncated before any mention of an initial public
\* offering.  verdict is classify_prospectus, kind classify_offering_type;
\* "not_ipo" stands for every key of NOT_IPO_REASON.
Filing ==
  {f \in [cut : BOOLEAN, verdict : {"ipo", "follow_on", "unknown"},
          kind : {"ipo", "unknown", "direct", "not_ipo"}, price : {"none", "cover"}] :
     /\ f.kind \in {"ipo", "unknown"} => f.verdict = f.kind
     /\ f.price = "cover" => f.verdict = "ipo"}

RepairInit ==
  /\ filing \in Filing
  /\ price \in {"none", "cover", "other", "absurd"}
  /\ basis \in {"none", price}
  /\ \/ status = "Listed" /\ flags \in {{}, {"v2"}}
     \/ status = "NotIPO" /\ flags = {"not_ipo"}
  /\ reads = 0 /\ verdicts = 0 /\ restored = FALSE

\* Outside PRICE_MIN..PRICE_MAX.
Suspect == price = "absurd"

Judged(s) == status' = s /\ verdicts' = verdicts + (IF s = status THEN 0 ELSE 1)

\* Mutant: a row left alone as inconclusive is read again.
CandidateAgain ==
  status = "Listed" /\ IF Suspect /\ "v3" \notin flags THEN TRUE ELSE "v2" \notin flags

\* repair_candidates.
Candidate ==
  status = "Listed" /\ IF Suspect /\ "v3" \notin flags THEN TRUE
                       ELSE flags \cap {"v2", "inconclusive", "unknown"} = {}

Unverified == flags \ {"v2", "v3"}

Inconclusive ==
  /\ flags' = Unverified \cup {IF filing.cut THEN "inconclusive" ELSE "unknown"}
  /\ UNCHANGED <<status, price, basis, verdicts>>

RejectRow ==
  /\ Judged("NotIPO")
  /\ flags' = Unverified \cup {"v2", "v3", "not_ipo", "rechecked"}
  /\ UNCHANGED <<price, basis>>

\* Mutant: the snapshots outlive the price.
VerifyPriceOnly ==
  /\ price' = IF filing.price = "cover" THEN "cover" ELSE IF Suspect THEN "none" ELSE price
  /\ flags' = Unverified \cup {"v2", "v3"}
  /\ UNCHANGED <<status, verdicts, basis>>

VerifyRow ==
  /\ price' = IF filing.price = "cover" THEN "cover" ELSE IF Suspect THEN "none" ELSE price
  /\ basis' = IF price' = price THEN basis ELSE "none"
  /\ flags' = Unverified \cup {"v2", "v3"}
  /\ UNCHANGED <<status, verdicts>>

\* The loop of repair_existing_us_listed; a download that fails changes nothing.
RepairRow ==
  /\ Candidate /\ reads' = IF reads = 0 THEN 1 ELSE 2
  /\ \/ (filing.cut \/ filing.verdict = "unknown") /\ Inconclusive
     \/ ~filing.cut /\ filing.verdict = "follow_on" /\ RejectRow
     \/ ~filing.cut /\ filing.verdict = "ipo" /\ VerifyRow
  /\ UNCHANGED <<filing, restored>>

RecheckCandidate == status = "NotIPO" /\ "not_ipo" \in flags /\ "rechecked" \notin flags

\* recheck_not_ipo_rows: the price changes and the snapshots stay.
RecheckRow ==
  /\ RecheckCandidate
  /\ \/ /\ filing.verdict = "ipo" /\ Judged("Listed") /\ restored' = TRUE
        /\ flags' = (flags \ {"not_ipo"}) \cup {"rechecked", "v2"}
        /\ price' = IF filing.price = "cover" THEN "cover" ELSE price
     \/ /\ filing.verdict # "ipo" /\ flags' = flags \cup {"rechecked"}
        /\ UNCHANGED <<status, price, verdicts, restored>>
  /\ UNCHANGED <<filing, basis, reads>>

\* repair_us_prices.py: repair_row, of an unpriced row.
PriceRow ==
  /\ status = "Listed" /\ price = "none"
  /\ \/ /\ filing.kind = "direct" /\ flags' = flags \cup {"direct"}
        /\ UNCHANGED <<status, price, verdicts>>
     \/ /\ filing.kind = "not_ipo" /\ flags' = flags \cup {"not_ipo_price_repair"}
        /\ Judged("NotIPO") /\ UNCHANGED price
     \/ /\ filing.kind = "ipo" /\ filing.price = "cover"
        /\ price' = "cover" /\ flags' = flags \ {"unparsed"}
        /\ UNCHANGED <<status, verdicts>>
     \/ /\ filing.kind = "unknown" \/ (filing.kind = "ipo" /\ filing.price = "none")
        /\ flags' = flags \cup {"unparsed"} /\ UNCHANGED <<status, price, verdicts>>
  /\ UNCHANGED <<filing, basis, reads, restored>>

\* A market pass writes a snapshot; a recompute drops them all first, and
\* purge_implausible_performance those with an absurd return.
Snapshot ==
  /\ status = "Listed" /\ basis' = price
  /\ UNCHANGED <<filing, status, price, flags, reads, verdicts, restored>>

DropSnapshots ==
  /\ status = "Listed" \/ basis = "absurd"
  /\ basis' = "none"
  /\ UNCHANGED <<filing, status, price, flags, reads, verdicts, restored>>

RepairNext == RepairRow \/ RecheckRow \/ PriceRow \/ Snapshot \/ DropSnapshots

RepairSpec == RepairInit /\ [][RepairNext]_repairVars

-----------------------------------------------------------------------------
\* The returns of a listed row are computed from the price it has
\* (backfill_us_priced.py:320-322), but for a row the recheck lists again.
ReturnsMatchPrice == status = "Listed" /\ ~restored => basis \in {"none", price}

\* A filing is read once by the repair ("have not been re-read yet",
\* backfill_us_priced.py:193-195), whatever the other tools do to its row in
\* between, unless its price is suspect and the filing says nothing of it.
ReadOnce == reads <= 1 \/ (Suspect /\ (filing.cut \/ filing.verdict = "unknown"))

\* The tools do not send a row back and forth: no order of them changes its
\* status more than twice.
VerdictsSettle == verdicts <= 2

\* The price of a listed row is plausible once verified against the cover.
VerifiedIsPlausible == "v3" \in flags /\ status = "Listed" => ~Suspect

\* The tools together leave each row settled.
RepairsSettle == ReturnsMatchPrice /\ ReadOnce /\ VerdictsSettle /\ VerifiedIsPlausible
=============================================================================

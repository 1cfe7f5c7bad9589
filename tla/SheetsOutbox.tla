---------------------------- MODULE SheetsOutbox ----------------------------
(***************************************************************************)
(* The Google Sheets mirror of the waitlist, app/services/sheets_sync.py:  *)
(* one outbox row per lead, the worker's process_outbox passes over them,  *)
(* and the admin's retry_failed, which runs on a web thread beside them.   *)
(*                                                                         *)
(* A pass is one transaction that writes nothing before its commit: it     *)
(* holds no row lock while it talks to the Sheets API, and it commits only *)
(* the columns whose value differs from the one it read.                   *)
(***************************************************************************)
EXTENDS Naturals, FiniteSets

CONSTANTS
  Leads,         \* leads that may get an outbox row
  Limit,         \* rows a pass may append
  MaxAttempts,   \* MAX_ATTEMPTS
  MaxFaults,     \* bound: failed appends and dead passes
  MaxRetries     \* bound: uses of the admin's retry

ASSUME OutboxAssumption ==
  /\ IsFiniteSet(Leads)
  /\ Limit \in Nat \ {0}
  /\ MaxAttempts \in Nat \ {0}
  /\ MaxFaults \in Nat
  /\ MaxRetries \in Nat

VARIABLES
  status,      \* sheets_sync_outbox.status, "none" while the row is absent
  attempts,    \* attempt_count
  born,        \* created_at, as a rank
  cooling,     \* rows whose backoff has not elapsed
  pass,        \* the worker's process_outbox
  retry,       \* the admin's retry_failed: the rows it has read
  sheet,       \* rows of the spreadsheet for each lead
  unrecorded,  \* history: appended rows whose pass never learned or committed it
  reopened,    \* history: retries that made a SYNCED row PENDING
  faults,
  retries

rowVars == <<status, attempts, born, cooling>>
historyVars == <<unrecorded, reopened>>
vars == <<rowVars, pass, retry, sheet, historyVars, faults, retries>>

Statuses == {"none", "PENDING", "SYNCED", "FAILED"}

Pass ==
  [open : BOOLEAN,
   todo : SUBSET Leads,            \* selected rows not visited yet
   hot : SUBSET Leads,             \* those within their backoff when selected
   seen : [Leads -> Statuses],     \* status and attempt_count as selected
   tries : [Leads -> Nat],
   result : [Leads -> {"none", "SYNCED", "FAILED"}],
   processed : Nat]

NoPass ==
  [open |-> FALSE, todo |-> {}, hot |-> {},
   seen |-> [l \in Leads |-> "none"], tries |-> [l \in Leads |-> 0],
   result |-> [l \in Leads |-> "none"], processed |-> 0]

NoRetry == [open |-> FALSE, read |-> {}]

Init ==
  /\ status = [l \in Leads |-> "none"]
  /\ attempts = [l \in Leads |-> 0]
  /\ born = [l \in Leads |-> 0]
  /\ cooling = {}
  /\ pass = NoPass
  /\ retry = NoRetry
  /\ sheet = [l \in Leads |-> 0]
  /\ unrecorded = [l \in Leads |-> 0]
  /\ reopened = [l \in Leads |-> 0]
  /\ faults = 0 /\ retries = 0

-----------------------------------------------------------------------------
\* enqueue, by a sign-up or a Clerk event: a row that exists is left alone.
Enqueue(l) ==
  /\ status[l] = "none"
  /\ status' = [status EXCEPT ![l] = "PENDING"]
  /\ born' = [born EXCEPT ![l] = 1 + Cardinality({k \in Leads : status[k] # "none"})]
  /\ UNCHANGED <<attempts, cooling, pass, retry, sheet, historyVars, faults, retries>>

BackoffOver(l) ==
  /\ l \in cooling
  /\ cooling' = cooling \ {l}
  /\ UNCHANGED <<status, attempts, born, pass, retry, sheet, historyVars, faults, retries>>

-----------------------------------------------------------------------------
(* process_outbox.                                                         *)

Unsynced == {l \in Leads : status[l] \in {"PENDING", "FAILED"}}

\* ORDER BY created_at LIMIT limit * 3
IsWindow(W) ==
  /\ W \subseteq Unsynced
  /\ \A l \in W, k \in Unsynced \ W : born[l] < born[k]
  /\ Cardinality(W) <= 3 * Limit
  /\ W # Unsynced => Cardinality(W) = 3 * Limit

StartPass ==
  /\ ~pass.open
  /\ \E W \in SUBSET Leads :
       /\ IsWindow(W)
       /\ pass' = [NoPass EXCEPT !.open = TRUE, !.todo = W, !.hot = W \cap cooling,
                                 !.seen = status, !.tries = attempts]
  /\ UNCHANGED <<rowVars, retry, sheet, historyVars, faults, retries>>

\* The loop is at l's row.
At(l) ==
  /\ pass.open
  /\ pass.processed < Limit
  /\ l \in pass.todo
  /\ \A k \in pass.todo \ {l} : born[l] < born[k]

\* Mutants: one attempt more, or one less, than MAX_ATTEMPTS.
ExhaustedLate(l) == pass.seen[l] = "FAILED" /\ pass.tries[l] > MaxAttempts
ExhaustedEarly(l) == pass.seen[l] = "FAILED" /\ pass.tries[l] + 1 >= MaxAttempts

\* A row that failed for good.
Exhausted(l) == pass.seen[l] = "FAILED" /\ pass.tries[l] >= MaxAttempts

\* A backoff that ran when the row was selected may be over when the loop
\* reaches it, so a hot row may also be tried.
Skip(l) ==
  /\ At(l)
  /\ Exhausted(l) \/ l \in pass.hot
  /\ pass' = [pass EXCEPT !.todo = @ \ {l}]
  /\ UNCHANGED <<rowVars, retry, sheet, historyVars, faults, retries>>

Visit(l, result) ==
  /\ At(l)
  /\ ~Exhausted(l)
  /\ pass' = [pass EXCEPT !.todo = @ \ {l}, !.processed = @ + 1,
                          !.result[l] = result]
  /\ UNCHANGED <<rowVars, retry, retries>>

Append(l) ==
  /\ Visit(l, "SYNCED")
  /\ sheet' = [sheet EXCEPT ![l] = @ + 1]
  /\ UNCHANGED <<historyVars, faults>>

\* _append_row raises: no token, no connection, an error status.
AppendFails(l) ==
  /\ faults < MaxFaults
  /\ Visit(l, "FAILED")
  /\ faults' = faults + 1
  /\ UNCHANGED <<sheet, historyVars>>

\* The row is appended but the answer times out, which raises as well.
AppendUnanswered(l) ==
  /\ faults < MaxFaults
  /\ Visit(l, "FAILED")
  /\ faults' = faults + 1
  /\ sheet' = [sheet EXCEPT ![l] = @ + 1]
  /\ unrecorded' = [unrecorded EXCEPT ![l] = @ + 1]
  /\ UNCHANGED reopened

\* Mutant: the status of a synced row is not written.
NewStatusLost(l) ==
  CASE pass.result[l] = "FAILED" /\ pass.seen[l] # "FAILED" -> "FAILED"
    [] OTHER -> status[l]

\* A row seen as FAILED that failed again does not change its status.
NewStatus(l) ==
  CASE pass.result[l] = "SYNCED" -> "SYNCED"
    [] pass.result[l] = "FAILED" /\ pass.seen[l] # "FAILED" -> "FAILED"
    [] OTHER -> status[l]

FinishPass ==
  /\ pass.open
  /\ pass.todo = {} \/ pass.processed >= Limit
  /\ status' = [l \in Leads |-> NewStatus(l)]
  /\ attempts' = [l \in Leads |->
       IF pass.result[l] = "FAILED" THEN pass.tries[l] + 1 ELSE attempts[l]]
  /\ cooling' = cooling \cup {l \in Leads : pass.result[l] = "FAILED"}
  /\ pass' = NoPass
  /\ UNCHANGED <<born, retry, sheet, historyVars, faults, retries>>

\* The worker dies or its connection drops: nothing of the pass is kept.
Abort ==
  /\ pass.open
  /\ faults < MaxFaults
  /\ faults' = faults + 1
  /\ unrecorded' = [l \in Leads |->
       unrecorded[l] + (IF pass.result[l] = "SYNCED" THEN 1 ELSE 0)]
  /\ pass' = NoPass
  /\ UNCHANGED <<rowVars, retry, sheet, reopened, retries>>

-----------------------------------------------------------------------------
(* retry_failed.                                                           *)

RetryRead ==
  /\ ~retry.open
  /\ retries < MaxRetries
  /\ retries' = retries + 1
  /\ retry' = [open |-> TRUE, read |-> {l \in Leads : status[l] = "FAILED"}]
  /\ UNCHANGED <<rowVars, pass, sheet, historyVars, faults>>

RetryWrite ==
  /\ retry.open
  /\ status' = [l \in Leads |-> IF l \in retry.read THEN "PENDING" ELSE status[l]]
  /\ attempts' = [l \in Leads |-> IF l \in retry.read THEN 0 ELSE attempts[l]]
  /\ cooling' = cooling \ retry.read
  /\ reopened' = [l \in Leads |->
       reopened[l] + (IF l \in retry.read /\ status[l] = "SYNCED" THEN 1 ELSE 0)]
  /\ retry' = NoRetry
  /\ UNCHANGED <<born, pass, sheet, unrecorded, faults, retries>>

-----------------------------------------------------------------------------
VisitRow(l) == Skip(l) \/ Append(l) \/ AppendFails(l) \/ AppendUnanswered(l)

PassStep == StartPass \/ (\E l \in Leads : VisitRow(l)) \/ FinishPass

Next ==
  \/ \E l \in Leads : Enqueue(l) \/ BackoffOver(l)
  \/ PassStep \/ Abort
  \/ RetryRead \/ RetryWrite

Spec == Init /\ [][Next]_vars

\* The worker polls the outbox for ever, and clocks advance.
FairSpec ==
  Spec /\ WF_vars(PassStep) /\ \A l \in Leads : WF_vars(BackoffOver(l))

-----------------------------------------------------------------------------
\* Types.  A row is tried once more than MAX_ATTEMPTS at most
\* (sheets_sync.py:100, 114, 127): a retry that commits
\* while a pass has the row leaves it PENDING with the pass's count.
TypeOK ==
  /\ status \in [Leads -> Statuses]
  /\ attempts \in [Leads -> 0..(MaxAttempts + 1)]
  /\ born \in [Leads -> Nat]
  /\ cooling \in SUBSET Leads
  /\ pass \in Pass
  /\ retry \in [open : BOOLEAN, read : SUBSET Leads]
  /\ sheet \in [Leads -> Nat]
  /\ unrecorded \in [Leads -> Nat]
  /\ reopened \in [Leads -> Nat]
  /\ faults \in 0..MaxFaults
  /\ retries \in 0..MaxRetries

\* Every row of the spreadsheet beyond the one the outbox records has a cause:
\* an append whose answer or whose pass was lost, or a retry that had read the
\* row as FAILED before a pass committed it as SYNCED
\* (sheets_sync.py:109-119, 122-128).
AppendsAccountedFor ==
  \A l \in Leads :
    sheet[l] = unrecorded[l] + reopened[l]
               + (IF status[l] = "SYNCED" THEN 1 ELSE 0)
               + (IF pass.result[l] = "SYNCED" THEN 1 ELSE 0)

\* Unless rows fail often enough to be given up for good, every outbox row is
\* mirrored in the end, whatever the admin's retries do to the passes' writes:
\* sheets_sync.py:28, a PENDING or FAILED row "is left to be retried".
EventuallySynced ==
  \A l \in Leads :
    status[l] = "PENDING" ~> status[l] = "SYNCED" \/ faults >= MaxAttempts
=============================================================================

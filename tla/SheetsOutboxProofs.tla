------------------------- MODULE SheetsOutboxProofs -------------------------
(***************************************************************************)
(* Theorems about the Sheets outbox, the alert and digest passes and the   *)
(* worker's loop, for any leads, limits and number of faults and retries.  *)
(***************************************************************************)
EXTENDS SheetsOutbox, AlertQueueing, WeeklyDigest, WorkerLoop, FiniteSetTheorems, TLAPS

\* What an open pass holds is about rows that are not synced, for only a pass
\* syncs a row; and a row it may still try has attempts left.  A row a retry
\* has reset under the pass is PENDING and may carry MaxAttempts attempts.
PassFits ==
  \A l \in Leads :
    /\ status[l] = "none" => attempts[l] = 0
    /\ status[l] = "PENDING" => attempts[l] <= MaxAttempts
    /\ pass.seen[l] = "PENDING" => pass.tries[l] <= MaxAttempts
    /\ l \in pass.todo => pass.seen[l] \in {"PENDING", "FAILED"}
    /\ pass.result[l] # "none" => /\ l \notin pass.todo
                                  /\ pass.seen[l] \in {"PENDING", "FAILED"}
                                  /\ ~Exhausted(l)
    /\ l \in pass.todo \/ pass.result[l] # "none" =>
         pass.open /\ status[l] \in {"PENDING", "FAILED"}
    /\ l \in retry.read => status[l] # "none"

Inv == TypeOK /\ PassFits /\ AppendsAccountedFor

\* Ranks are numbers: there are finitely many leads.
LEMMA CardinalityIsNat ==
  ASSUME NEW S, S \subseteq Leads
  PROVE  Cardinality(S) \in Nat
BY OutboxAssumption, FS_Subset, FS_CardinalityType

\* Recording a row's result keeps the pass's types.
LEMMA VisitType ==
  ASSUME pass \in Pass, NEW l \in Leads, NEW r \in {"SYNCED", "FAILED"}, Visit(l, r)
  PROVE  pass' \in Pass
<1>1. pass.processed + 1 \in Nat
  BY DEF Pass
<1>2. [pass EXCEPT !.todo = @ \ {l}, !.processed = @ + 1] \in Pass
  BY <1>1 DEF Pass
<1>3. [pass.result EXCEPT ![l] = r] \in [Leads -> {"none", "SYNCED", "FAILED"}]
  BY DEF Pass
<1>4. pass' = [[pass EXCEPT !.todo = @ \ {l}, !.processed = @ + 1]
                 EXCEPT !.result = [pass.result EXCEPT ![l] = r]]
  BY DEF Visit, Pass
<1> QED
  BY <1>2, <1>3, <1>4 DEF Pass

\* The empty table satisfies the invariant.
LEMMA InitInv == Init => Inv
BY OutboxAssumption
DEF Init, Inv, TypeOK, Statuses, Pass, NoPass, NoRetry, PassFits,
    AppendsAccountedFor, Exhausted

\* Every step of a pass, of a retry and of their environment keeps it.
LEMMA InvStep == Inv /\ [Next]_vars => Inv'
<1> SUFFICES ASSUME Inv, [Next]_vars PROVE Inv'
  OBVIOUS
<1> USE OutboxAssumption
<1>1. ASSUME NEW l \in Leads, Enqueue(l) PROVE Inv'
  <2>1. Cardinality({k \in Leads : status[k] # "none"}) \in Nat
    BY CardinalityIsNat
  <2>2. TypeOK'
    BY <1>1, <2>1 DEF Enqueue, Inv, TypeOK, Statuses, historyVars
  <2>3. PassFits'
    BY <1>1 DEF Enqueue, Inv, TypeOK, PassFits, Exhausted, historyVars
  <2>4. AppendsAccountedFor'
    BY <1>1 DEF Enqueue, Inv, TypeOK, AppendsAccountedFor, historyVars
  <2> QED
    BY <2>2, <2>3, <2>4 DEF Inv
<1>2. ASSUME NEW l \in Leads, BackoffOver(l) PROVE Inv'
  BY <1>2
  DEF BackoffOver, Inv, TypeOK, PassFits, AppendsAccountedFor, Exhausted, historyVars
<1>3. CASE StartPass
  <2>1. PICK W \in SUBSET Leads :
          /\ W \subseteq Unsynced
          /\ pass' = [NoPass EXCEPT !.open = TRUE, !.todo = W, !.hot = W \cap cooling,
                                    !.seen = status, !.tries = attempts]
    BY <1>3 DEF StartPass, IsWindow
  <2>2. pass' = [open |-> TRUE, todo |-> W, hot |-> W \cap cooling, seen |-> status,
                 tries |-> attempts, result |-> [l \in Leads |-> "none"],
                 processed |-> 0]
    BY <2>1 DEF NoPass
  <2>3. UNCHANGED <<rowVars, retry, sheet, historyVars, faults, retries>>
    BY <1>3 DEF StartPass
  <2>4. attempts \in [Leads -> Nat]
    BY DEF Inv, TypeOK
  <2>5. pass' \in Pass
    BY <2>2, <2>4 DEF Inv, TypeOK, Pass
  <2>6. TypeOK'
    BY <2>3, <2>5 DEF Inv, TypeOK, rowVars, historyVars
  <2>7. PassFits'
    <3>1. /\ pass'.open /\ pass'.todo = W
          /\ pass'.seen = status /\ pass'.tries = attempts
          /\ \A l \in Leads : pass'.result[l] = "none"
      BY <2>2
    <3>2. \A l \in W : status[l] \in {"PENDING", "FAILED"}
      BY <2>1 DEF Unsynced
    <3> QED
      BY <2>3, <3>1, <3>2 DEF Inv, TypeOK, PassFits, rowVars, historyVars
  <2>8. ~pass.open
    BY <1>3 DEF StartPass
  <2>9. AppendsAccountedFor'
    BY <2>2, <2>3, <2>8
    DEF Inv, TypeOK, PassFits, AppendsAccountedFor, rowVars, historyVars
  <2> QED
    BY <2>6, <2>7, <2>9 DEF Inv
<1>4. ASSUME NEW l \in Leads, Skip(l) PROVE Inv'
  <2>1. TypeOK'
    BY <1>4 DEF Skip, At, Inv, TypeOK, Pass, rowVars, historyVars
  <2>2. PassFits'
    BY <1>4
    DEF Skip, At, Inv, TypeOK, Pass, PassFits, Exhausted, rowVars, historyVars
  <2>3. AppendsAccountedFor'
    BY <1>4
    DEF Skip, At, Inv, TypeOK, Pass, PassFits, AppendsAccountedFor, rowVars,
        historyVars
  <2> QED
    BY <2>1, <2>2, <2>3 DEF Inv
<1>5. ASSUME NEW l \in Leads, Append(l) PROVE Inv'
  <2>0. pass' \in Pass
    BY <1>5, VisitType DEF Append, Inv, TypeOK
  <2>1. TypeOK'
    BY <1>5, <2>0 DEF Append, Visit, Inv, TypeOK, rowVars, historyVars
  <2>2. PassFits'
    BY <1>5
    DEF Append, Visit, At, Inv, TypeOK, Pass, PassFits, Exhausted, rowVars, historyVars
  <2>3. AppendsAccountedFor'
    BY <1>5
    DEF Append, Visit, At, Inv, TypeOK, Pass, PassFits, AppendsAccountedFor, rowVars,
        historyVars
  <2> QED
    BY <2>1, <2>2, <2>3 DEF Inv
<1>6. ASSUME NEW l \in Leads, AppendFails(l) PROVE Inv'
  <2>0. pass' \in Pass
    BY <1>6, VisitType DEF AppendFails, Inv, TypeOK
  <2>1. TypeOK'
    BY <1>6, <2>0 DEF AppendFails, Visit, Inv, TypeOK, rowVars, historyVars
  <2>2. PassFits'
    BY <1>6
    DEF AppendFails, Visit, At, Inv, TypeOK, Pass, PassFits, Exhausted, rowVars, historyVars
  <2>3. AppendsAccountedFor'
    BY <1>6
    DEF AppendFails, Visit, At, Inv, TypeOK, Pass, PassFits, AppendsAccountedFor, rowVars,
        historyVars
  <2> QED
    BY <2>1, <2>2, <2>3 DEF Inv
<1>7. ASSUME NEW l \in Leads, AppendUnanswered(l) PROVE Inv'
  <2>0. pass' \in Pass
    BY <1>7, VisitType DEF AppendUnanswered, Inv, TypeOK
  <2>1. TypeOK'
    BY <1>7, <2>0 DEF AppendUnanswered, Visit, Inv, TypeOK, rowVars, historyVars
  <2>2. PassFits'
    BY <1>7
    DEF AppendUnanswered, Visit, At, Inv, TypeOK, Pass, PassFits, Exhausted, rowVars, historyVars
  <2>3. AppendsAccountedFor'
    BY <1>7
    DEF AppendUnanswered, Visit, At, Inv, TypeOK, Pass, PassFits, AppendsAccountedFor, rowVars,
        historyVars
  <2> QED
    BY <2>1, <2>2, <2>3 DEF Inv
<1>8. CASE FinishPass
  BY <1>8
  DEF FinishPass, NewStatus, Inv, TypeOK, Statuses, PassFits, AppendsAccountedFor,
      Exhausted, historyVars, NoPass, Pass
<1>9. CASE Abort
  BY <1>9
  DEF Abort, Inv, TypeOK, Statuses, PassFits, AppendsAccountedFor, Exhausted,
      rowVars, NoPass, Pass
<1>10. CASE RetryRead
  BY <1>10
  DEF RetryRead, Inv, TypeOK, PassFits, AppendsAccountedFor, Exhausted, rowVars,
      historyVars
<1>11. CASE RetryWrite
  BY <1>11
  DEF RetryWrite, Inv, TypeOK, Statuses, PassFits, AppendsAccountedFor, Exhausted,
      NoRetry
<1>12. CASE UNCHANGED vars
  BY <1>12
  DEF vars, rowVars, historyVars, Inv, TypeOK, PassFits, AppendsAccountedFor, Exhausted
<1> QED
  BY <1>1, <1>2, <1>3, <1>4, <1>5, <1>6, <1>7, <1>8, <1>9, <1>10, <1>11, <1>12
  DEF Next, PassStep, VisitRow

\* The types hold for every instance: in particular a row is tried at most
\* MaxAttempts + 1 times between two retries, whatever a retry and a pass do
\* to each other's writes (sheets_sync.py:100, 113-119, 125-128).
THEOREM TypeCorrect == Spec => []TypeOK
<1>1. Spec => []Inv
  BY InitInv, InvStep, PTL DEF Spec
<1>2. Inv => TypeOK
  BY DEF Inv
<1> QED
  BY <1>1, <1>2, PTL

\* For every instance, each row of the spreadsheet beyond the recorded one
\* has a cause (sheets_sync.py:109-119, 122-128).
THEOREM AppendsAccounted == Spec => []AppendsAccountedFor
<1>1. Spec => []Inv
  BY InitInv, InvStep, PTL DEF Spec
<1>2. Inv => AppendsAccountedFor
  BY DEF Inv
<1> QED
  BY <1>1, <1>2, PTL

-----------------------------------------------------------------------------
(* The weekly digest.                                                      *)

DigestTypes ==
  /\ instant \in Nat /\ begun \in Int /\ -1 <= begun /\ begun <= instant
  /\ pending \subseteq Subscribers /\ (begun = -1 => pending = {})
  /\ lastDigest \in [Subscribers -> Int] /\ stamped \in [Subscribers -> Int]
  /\ \A l \in Subscribers : stamped[l] <= instant

\* The digests of a lead are queued under weeks that were over or current at
\* the last of them.
QueuedBefore ==
  \A l \in Subscribers : \A w \in Int :
    <<l, w>> \in queued => lastDigest[l] >= 0 /\ w <= Week(lastDigest[l])

\* A digest of the open pass comes after the lead's last one.
StampsAdvance ==
  \A l \in Subscribers : stamped[l] >= 0 => begun >= 0 /\ lastDigest[l] <= stamped[l]

DigestInv == DigestTypes /\ QueuedBefore /\ StampsAdvance

\* The week of an instant is no earlier than that of one before it, and another
\* one when a week has passed.
LEMMA WeeksFollow ==
  ASSUME NEW a \in Nat, NEW b \in Nat, a <= b
  PROVE  /\ Week(a) \in Nat /\ Week(a) <= Week(b)
         /\ a <= b - WeekLen => Week(a) < Week(b)
<1>1. /\ Week(a) \in Nat /\ a = WeekLen * Week(a) + (a % WeekLen) /\ a % WeekLen \in 0..(WeekLen - 1)
      /\ Week(b) \in Nat /\ b = WeekLen * Week(b) + (b % WeekLen) /\ b % WeekLen \in 0..(WeekLen - 1)
  BY DigestAssumption DEF Week
<1> DEFINE p == Week(a)
           q == Week(b)
           x == a % WeekLen
           y == b % WeekLen
<1>2. /\ p \in Nat /\ q \in Nat /\ x \in Nat /\ y \in Nat /\ x < WeekLen /\ y < WeekLen
      /\ a = WeekLen * p + x /\ b = WeekLen * q + y
  BY <1>1, DigestAssumption
<1> HIDE DEF p, q, x, y
<1>3. ASSUME q < p PROVE FALSE
  <2>1. WeekLen * p >= WeekLen * (q + 1)
    BY <1>2, <1>3, DigestAssumption
  <2> QED
    BY <1>2, <2>1, DigestAssumption
<1>4. ASSUME a <= b - WeekLen, q <= p PROVE FALSE
  <2>1. WeekLen * p >= WeekLen * q
    BY <1>2, <1>4, DigestAssumption
  <2> QED
    BY <1>2, <1>4, <2>1, DigestAssumption
<1> QED
  BY <1>2, <1>3, <1>4 DEF p, q

\* A lead that is due has no digest of this week: all of its own are of the
\* weeks up to that of its last one.
LEMMA DueIsNew == DigestInv => DigestsNeverCollide
<1> SUFFICES ASSUME DigestInv, NEW l \in pending, Due(l), Collides(l) PROVE FALSE
  BY DEF DigestsNeverCollide
<1>1. l \in Subscribers /\ begun \in Nat /\ instant \in Nat /\ begun <= instant
  BY DEF DigestInv, DigestTypes
<1>2. lastDigest[l] \in Int /\ lastDigest[l] <= begun - WeekLen
  BY <1>1 DEF DigestInv, DigestTypes, Due
<1>3. Week(instant) \in Int
  BY <1>1, WeeksFollow
<1>4. <<l, Week(instant)>> \in queued
  BY DEF Collides
<1>5. lastDigest[l] >= 0 /\ Week(instant) <= Week(lastDigest[l])
  BY <1>1, <1>3, <1>4 DEF DigestInv, QueuedBefore
<1>6. lastDigest[l] \in Nat /\ lastDigest[l] <= instant /\ lastDigest[l] <= instant - WeekLen
  BY <1>1, <1>2, <1>5, DigestAssumption
<1>7. Week(lastDigest[l]) \in Nat /\ Week(lastDigest[l]) < Week(instant)
  BY <1>1, <1>6, WeeksFollow
<1> QED
  BY <1>3, <1>5, <1>7

\* Every lead's digest that is looked at is stamped with the instant, if at all.
LEMMA QueueDigestStep ==
  ASSUME DigestInv, NEW l \in Subscribers, QueueDigest(l)
  PROVE  DigestInv'
<1>1. /\ l \in pending /\ pending' = pending \ {l} /\ UNCHANGED <<instant, lastDigest, queued, begun>>
      /\ stamped' \in {stamped, Nothing, [stamped EXCEPT ![l] = instant]}
      /\ stamped' = [stamped EXCEPT ![l] = instant] => Due(l) \/ stamped' \in {stamped, Nothing}
  BY DEF QueueDigest
<1>2. DigestTypes /\ begun \in Nat /\ begun <= instant /\ instant \in Nat
  BY <1>1 DEF DigestInv, DigestTypes
<1>3. DigestTypes'
  BY <1>1, <1>2 DEF DigestTypes, Nothing
<1>4. QueuedBefore'
  BY <1>1 DEF DigestInv, QueuedBefore, Week
<1>5. StampsAdvance'
  <2>1. CASE stamped' \in {stamped, Nothing}
    BY <1>1, <1>2, <2>1 DEF DigestInv, StampsAdvance, Nothing
  <2>2. CASE stamped' = [stamped EXCEPT ![l] = instant] /\ Due(l)
    <3>1. lastDigest[l] <= instant
      BY <1>2, <2>2, DigestAssumption DEF Due, DigestTypes
    <3> QED
      BY <1>1, <1>2, <2>2, <3>1 DEF DigestInv, DigestTypes, StampsAdvance
  <2> QED
    BY <1>1, <2>1, <2>2
<1> QED
  BY <1>3, <1>4, <1>5 DEF DigestInv

\* What a pass commits is what it has stamped.
LEMMA CommitStep == ASSUME DigestInv, CommitDigests PROVE DigestInv'
<1>1. /\ begun >= 0 /\ pending = {} /\ begun' = -1 /\ stamped' = Nothing /\ UNCHANGED <<instant, pending>>
      /\ lastDigest' = [l \in Subscribers |-> IF stamped[l] >= 0 THEN stamped[l] ELSE lastDigest[l]]
      /\ queued' = queued \cup {<<l, Week(stamped[l])>> : l \in {k \in Subscribers : stamped[k] >= 0}}
  BY DEF CommitDigests
<1>2. DigestTypes /\ QueuedBefore /\ StampsAdvance
  BY DEF DigestInv
<1>3. DigestTypes' /\ StampsAdvance'
  BY <1>1, <1>2 DEF DigestTypes, StampsAdvance, Nothing
<1>4. QueuedBefore'
  <2> SUFFICES ASSUME NEW l \in Subscribers, NEW w \in Int, <<l, w>> \in queued'
               PROVE  lastDigest'[l] >= 0 /\ w <= Week(lastDigest'[l])
    BY <1>1 DEF QueuedBefore, Week
  <2>1. lastDigest[l] \in Int /\ stamped[l] \in Int
    BY <1>2 DEF DigestTypes
  <2>2. lastDigest'[l] = IF stamped[l] >= 0 THEN stamped[l] ELSE lastDigest[l]
    BY <1>1
  <2>3. CASE <<l, w>> \in queued
    <3>1. lastDigest[l] >= 0 /\ w <= Week(lastDigest[l])
      BY <2>3, <1>2 DEF QueuedBefore
    <3>2. CASE stamped[l] >= 0
      <4>1. lastDigest[l] \in Nat /\ stamped[l] \in Nat /\ lastDigest[l] <= stamped[l]
        BY <2>1, <3>1, <3>2, <1>2 DEF StampsAdvance
      <4>2. Week(lastDigest[l]) \in Nat /\ Week(stamped[l]) \in Nat
            /\ Week(lastDigest[l]) <= Week(stamped[l])
        BY <4>1, WeeksFollow
      <4> QED
        BY <2>2, <3>1, <3>2, <4>2
    <3> QED
      BY <2>2, <3>1, <3>2
  <2>4. CASE <<l, w>> \notin queued
    <3>1. stamped[l] >= 0 /\ w = Week(stamped[l])
      BY <2>4, <1>1
    <3> QED
      BY <2>1, <2>2, <3>1
  <2> QED
    BY <2>3, <2>4
<1> QED
  BY <1>3, <1>4 DEF DigestInv

LEMMA DigestStep == DigestInv /\ [DigestNext]_digestVars => DigestInv'
<1> SUFFICES ASSUME DigestInv, [DigestNext]_digestVars PROVE DigestInv'
  OBVIOUS
<1>1. CASE TimePasses \/ StartDigests \/ LoseDigests \/ UNCHANGED digestVars
  <2>1. /\ UNCHANGED <<lastDigest, queued>> /\ stamped' \in {stamped, Nothing}
        /\ instant' \in {instant, instant + 1}
        /\ \/ begun' = begun /\ pending' = pending
           \/ begun' = instant /\ pending' = Subscribers /\ begun = -1
           \/ begun' = -1 /\ pending' = {} /\ stamped' = Nothing
    BY <1>1 DEF TimePasses, StartDigests, LoseDigests, digestVars
  <2>2. DigestTypes'
    BY <2>1 DEF DigestInv, DigestTypes, Nothing
  <2>3. QueuedBefore'
    BY <2>1 DEF DigestInv, QueuedBefore, Week
  <2>4. StampsAdvance'
    BY <2>1 DEF DigestInv, DigestTypes, StampsAdvance, Nothing
  <2> QED
    BY <2>2, <2>3, <2>4 DEF DigestInv
<1> QED
  BY <1>1, QueueDigestStep, CommitStep DEF DigestNext

\* Seven days after a lead's digest it is another ISO week, so no pass is rolled
\* back by a digest that is already queued (newsletter.py:65-68,
\* email_queue.py:27-29): for any leads, any week and a pass that takes however
\* long.
THEOREM DigestsDiffer == DigestSpec => []DigestsNeverCollide
<1>1. DigestInit => DigestInv
  BY DigestAssumption DEF DigestInit, DigestInv, DigestTypes, QueuedBefore, StampsAdvance, Nothing
<1> QED
  BY <1>1, DigestStep, DueIsNew, PTL DEF DigestSpec

-----------------------------------------------------------------------------
(* The alert pass.                                                         *)

\* As long as a pass has met no alert of the table, all that it set out to
\* enqueue is still before it or flushed; and every row it enqueues is one it
\* set out to.
NothingDropped ==
  phase # "idle" => (window \cap rows = {} => window \subseteq todo \cup inserted)

AlertInv == todo \cup inserted \subseteq window /\ NothingDropped

LEMMA AlertStart == AlertInit => AlertInv
BY DEF AlertInit, AlertInv, NothingDropped

\* Only an alert that is in the table empties what was flushed, and such an
\* alert is one the pass had set out to enqueue.
LEMMA EnqueueKeeps ==
  ASSUME AlertInv, NEW a \in Alert, EnqueueAlert(a)
  PROVE  AlertInv'
<1>1. /\ a \in todo /\ todo' = todo \ {a} /\ UNCHANGED <<rows, phase, window>>
      /\ inserted' = IF a \in rows THEN {} ELSE inserted \cup {a}
  BY DEF EnqueueAlert, UpNext
<1>2. CASE a \in rows
  <2>1. window \cap rows # {}
    BY <1>1, <1>2 DEF AlertInv
  <2> QED
    BY <1>1, <1>2, <2>1 DEF AlertInv, NothingDropped
<1>3. CASE a \notin rows
  BY <1>1, <1>3 DEF AlertInv, NothingDropped
<1> QED
  BY <1>2, <1>3

LEMMA AlertStepKeeps == AlertInv /\ [AlertNext]_alertVars => AlertInv'
<1> SUFFICES ASSUME AlertInv, [AlertNext]_alertVars PROVE AlertInv'
  OBVIOUS
<1>1. CASE UNCHANGED alertVars
  BY <1>1 DEF AlertInv, NothingDropped, alertVars, passVars
<1>2. CASE Publish \/ (\E i \in Ipos : Flag(i) \/ Unflag(i)) \/ (\E l \in AlertLeads : LoseInterest(l))
  BY <1>2 DEF AlertInv, NothingDropped, Publish, Flag, Unflag, LoseInterest, passVars
<1>3. CASE StartScores
  BY <1>3 DEF AlertInv, NothingDropped, StartScores
<1>4. CASE StartFlags
  BY <1>4 DEF AlertInv, NothingDropped, StartFlags
<1>5. CASE \E a \in Alert : EnqueueAlert(a)
  BY <1>5, EnqueueKeeps
<1>6. CASE CommitAlerts \/ AlertsCrash
  BY <1>6 DEF AlertInv, NothingDropped, CommitAlerts, AlertsCrash
<1> QED
  BY <1>1, <1>2, <1>3, <1>4, <1>5, <1>6 DEF AlertNext, AlertStep

\* A pass that meets no alert queued before it commits everything it set out to
\* enqueue, whatever is published, flagged or cleared under it (alerts.py:82-89):
\* for any leads, offerings and reach.
THEOREM CleanPassesComplete == AlertSpec => CleanPassIsComplete
<1>1. AlertInv /\ [AlertNext]_alertVars =>
        [phase = "flags" /\ phase' = "idle" /\ rows' # rows
           => (window \cap rows = {} => window \subseteq rows')]_alertVars
  <2> SUFFICES ASSUME AlertInv, AlertNext, phase = "flags", phase' = "idle", rows' # rows,
                      window \cap rows = {}
               PROVE  window \subseteq rows'
    BY DEF alertVars, passVars
  <2>1. CommitAlerts
    BY DEF AlertNext, AlertStep, Publish, Flag, Unflag, LoseInterest, StartScores, StartFlags,
           EnqueueAlert, AlertsCrash
  <2> QED
    BY <2>1 DEF AlertInv, NothingDropped, CommitAlerts
<1> QED
  BY <1>1, AlertStart, AlertStepKeeps, PTL DEF AlertSpec, CleanPassIsComplete

-----------------------------------------------------------------------------
(* The worker's loop.                                                      *)

\* Before the signal nothing is late; after it, in a cycle, the cycle's jobs, and
\* between cycles the sheets poll that follows an e-mail poll.
LateFits ==
  /\ ~stop => late = {}
  /\ late \subseteq LaterJobs \/ late \subseteq {"sheets"}
  /\ at \in Refreshing => late \subseteq LaterJobs
  /\ at \in {"email", "sheets"} => late \subseteq {"sheets"}

\* The sheets poll, too, finds the beat of the cycle or that of the e-mail poll.
IdleShowsWhy == at \in {"sleep", "email", "sheets"} => heart.job = "idle" \/ heart.error \/ obscured

LoopInv == LateFits /\ IdleShowsWhy

\* A worker told to stop begins no refresh cycle and no e-mail poll, only the
\* rest of its cycle's jobs or one sheets poll, and one that is not at work shows
\* that it is idle or what failed (worker.py:41-101, heartbeat.py:2-4): for any
\* number of polls, signals and restarts.
THEOREM LoopIsOrderly == LoopSpec => [](StopsAtCheckpoint /\ AsleepShowsWhy)
<1>1. LoopInit => LoopInv
  BY DEF LoopInit, LoopInv, LateFits, IdleShowsWhy
<1>2. LoopInv /\ [LoopNext]_loopVars => LoopInv'
  <2> SUFFICES ASSUME LoopInv, [LoopNext]_loopVars PROVE LoopInv'
    OBVIOUS
  <2> USE DEF LoopInv, LateFits, IdleShowsWhy, Beat, Begins, Refreshing, LaterJobs
  <2>1. CASE StartCycle
    BY <2>1 DEF StartCycle
  <2>2. CASE Job
    BY <2>2 DEF Job, After, BeatAfter, Refreshing, LaterJobs
  <2>3. CASE EndCycle \/ CycleFails
    BY <2>3 DEF EndCycle, CycleFails, NextCycle, Refreshing, LaterJobs
  <2>4. CASE Wake
    BY <2>4 DEF Wake
  <2>5. CASE PollEmail
    BY <2>5 DEF PollEmail
  <2>6. CASE PollSheets
    BY <2>6 DEF PollSheets
  <2>7. CASE Exit \/ Signal \/ Restart \/ UNCHANGED loopVars
    BY <2>7 DEF Exit, Signal, Restart, loopVars
  <2> QED
    BY <2>1, <2>2, <2>3, <2>4, <2>5, <2>6, <2>7 DEF LoopNext, LoopStep
<1>3. LoopInv => StopsAtCheckpoint /\ AsleepShowsWhy
  BY DEF LoopInv, LateFits, IdleShowsWhy, StopsAtCheckpoint, AsleepShowsWhy
<1> QED
  BY <1>1, <1>2, <1>3, PTL DEF LoopSpec
=============================================================================

-------------------------- MODULE EmailQueueProofs --------------------------
(***************************************************************************)
(* Theorems about the queue: with any number of processors and then, from  *)
(* SoloRow on, with one, the deployment in which only the worker runs      *)
(* process_queue; there the provider's events are beside it as well.       *)
(*                                                                         *)
(* Type correctness: attempts stay in 0..MaxAttempts only because a row is *)
(* selected while it is QUEUED and a QUEUED row has attempts left; a pass  *)
(* overwrites the count with one more than it selected.  Bounded says so   *)
(* of a session, AttemptsBounded of the table and every session.           *)
(*                                                                         *)
(* One sender: a row inside the provider call is a flushed row, and no two *)
(* sessions have flushed the same row (Locks).                             *)
(*                                                                         *)
(* Receipts: a pending SENT result carries the id of an accepted mail      *)
(* (RealSession), and a commit only copies it.                             *)
(***************************************************************************)
EXTENDS EmailConsent, EmailWebhooks, FiniteSetTheorems, TLAPS

\* A session only ever tries rows with attempts left.
Bounded(s) ==
  \A m \in Messages :
    /\ m \in s.todo => s.seen[m] < MaxAttempts
    /\ s.result[m] \in Tried => s.seen[m] < MaxAttempts
    /\ s.result[m] = "QUEUED" => s.seen[m] + 1 < MaxAttempts

AttemptsBounded ==
  /\ \A m \in Messages : row[m].status = "QUEUED" => row[m].attempts < MaxAttempts
  /\ \A p \in Processors : Bounded(sess[p])

TypeInv == TypeOK /\ AttemptsBounded

\* What a pass may leave in its session.
GoodSession == {s \in Session : Bounded(s)}

LEMMA NoSessionGood == NoSession \in GoodSession
BY NumberAssumption DEF NoSession, GoodSession, Session, Results, Bounded, Tried

LEMMA CardinalityIsNat ==
  ASSUME NEW S, S \subseteq Messages
  PROVE  Cardinality(S) \in Nat
BY MessagesAssumption, FS_Subset, FS_CardinalityType

LEMMA LoadLeadGood ==
  ASSUME NEW s \in GoodSession, NEW l \in Leads
  PROVE  LoadLead(s, l) \in GoodSession
BY DEF LoadLead, GoodSession, Session, Bounded

LEMMA SuccessGood ==
  ASSUME NEW s \in GoodSession, NEW m \in s.todo, NEW id \in Nat
  PROVE  Success(s, m, id) \in GoodSession
<1>1. m \in Messages
  BY DEF GoodSession, Session
<1>2. Success(s, m, id) \in Session
  <2> DEFINE t == [s EXCEPT !.result[m] = "SENT", !.mailId[m] = id]
             u == [t EXCEPT !.pc = "scan", !.todo = s.todo \ {m},
                            !.sentToday = s.sentToday \cup {m}]
  <2>1. t \in Session
    BY <1>1 DEF GoodSession, Session, Results
  <2>2. /\ s.todo \ {m} \in SUBSET Messages
        /\ s.sentToday \cup {m} \in SUBSET Messages
        /\ s.sentCount + 1 \in Nat
    BY <1>1 DEF GoodSession, Session
  <2>3. Success(s, m, id) = [u EXCEPT !.sentCount = s.sentCount + 1]
    BY DEF Success
  <2> HIDE DEF t
  <2>4. u \in Session
    BY <2>1, <2>2 DEF Session
  <2> HIDE DEF u
  <2> QED
    BY <2>2, <2>3, <2>4 DEF Session
<1>3. Bounded(Success(s, m, id))
  BY <1>1 DEF Success, GoodSession, Session, Bounded, Tried
<1> QED BY <1>2, <1>3 DEF GoodSession

LEMMA FailureGood ==
  ASSUME NEW s \in GoodSession, NEW m \in s.todo, NEW r \in BOOLEAN
  PROVE  Failure(s, m, r) \in GoodSession
<1>1. m \in Messages
  BY DEF GoodSession, Session
<1>2. Failure(s, m, r) \in Session
  BY <1>1 DEF Failure, GoodSession, Session, Results
<1>3. Bounded(Failure(s, m, r))
  BY <1>1, NumberAssumption DEF Failure, GoodSession, Session, Bounded, Tried, Results
<1> QED BY <1>2, <1>3 DEF GoodSession

LEMMA NoAnswerGood ==
  ASSUME NEW s \in GoodSession, NEW m \in s.todo
  PROVE  NoAnswer(s, m) \in GoodSession
<1>1. CASE s.posts + 1 < MaxPosts
  BY <1>1 DEF NoAnswer, Session, GoodSession, Bounded
<1>2. CASE ~(s.posts + 1 < MaxPosts)
  BY <1>2, FailureGood DEF NoAnswer
<1> QED BY <1>1, <1>2

LEMMA InitType == Init => TypeInv
BY NoSessionGood, NumberAssumption, ProviderAssumption
DEF Init, TypeInv, TypeOK, AttemptsBounded, GoodSession, Row, NoRow, Statuses

\* A step that changes only p's session and the provider's side.
LEMMA SessionStepType ==
  ASSUME TypeInv, NEW p \in Processors, NEW s \in GoodSession,
         sess' = [sess EXCEPT ![p] = s],
         UNCHANGED <<leadVars, row, sentToday, cooling>>,
         enabled' \in BOOLEAN, mails' \in [Messages -> Nat],
         lost' \in [Messages -> Nat], faults' \in 0..MaxFaults
  PROVE  TypeInv'
BY DEF TypeInv, TypeOK, AttemptsBounded, GoodSession, leadVars

LEMMA TypeStep == TypeInv /\ [Next]_vars => TypeInv'
<1> SUFFICES ASSUME TypeInv, [Next]_vars PROVE TypeInv'
  OBVIOUS
<1> USE NumberAssumption, LeadOfAssumption
<1>0. \A p \in Processors : sess[p] \in GoodSession
  BY DEF TypeInv, TypeOK, AttemptsBounded, GoodSession
<1>a. /\ mails \in [Messages -> Nat] /\ lost \in [Messages -> Nat]
      /\ enabled \in BOOLEAN /\ faults \in 0..MaxFaults
  BY DEF TypeInv, TypeOK
<1>1. ASSUME NEW l \in Leads, Join(l) PROVE TypeInv'
  BY <1>1 DEF Join, TypeInv, TypeOK, AttemptsBounded, Bounded, providerVars
<1>2. ASSUME NEW l \in Leads, Rejoin(l) PROVE TypeInv'
  BY <1>2 DEF Rejoin, TypeInv, TypeOK, AttemptsBounded, Bounded, providerVars
<1>3. ASSUME NEW l \in Leads, Unsubscribe(l) PROVE TypeInv'
  BY <1>3 DEF Unsubscribe, TypeInv, TypeOK, AttemptsBounded, Bounded, providerVars
<1>4. ASSUME NEW l \in Leads, Suppress(l) PROVE TypeInv'
  BY <1>4 DEF Suppress, TypeInv, TypeOK, AttemptsBounded, Bounded, providerVars
<1>5. ASSUME NEW m \in Messages, Enqueue(m) PROVE TypeInv'
  <2> DEFINE position == 1 + Cardinality({n \in Messages : row[n].status # "none"})
             new == [NoRow EXCEPT !.status = "QUEUED", !.queuedAt = position]
  <2>1. position \in Nat
    BY CardinalityIsNat
  <2> HIDE DEF position
  <2>2a. NoRow \in Row /\ NoRow.attempts < MaxAttempts
    BY DEF NoRow, Row, Statuses
  <2>2. new \in Row /\ new.attempts < MaxAttempts
    BY <2>1, <2>2a DEF Row, Statuses
  <2>3. row' = [row EXCEPT ![m] = new]
    BY <1>5 DEF Enqueue, position
  <2> HIDE DEF new
  <2> QED
    BY <1>5, <2>2, <2>3 DEF Enqueue, TypeInv, TypeOK, AttemptsBounded, Bounded, providerVars, leadVars
<1>6. ASSUME NewDay PROVE TypeInv'
  <2>1. ASSUME NEW p \in Processors PROVE sess'[p] \in GoodSession
    <3>1. sess'[p] = [sess[p] EXCEPT !.sentToday = {}]
      BY <1>6 DEF NewDay
    <3>2. sess'[p] \in Session
      BY <3>1, <1>0 DEF GoodSession, Session
    <3>3. Bounded(sess'[p])
      BY <3>1, <1>0 DEF GoodSession, Session, Bounded
    <3> QED BY <3>2, <3>3 DEF GoodSession
  <2>2. sess' \in [Processors -> Session]
    BY <1>6, <2>1 DEF NewDay, GoodSession
  <2> QED
    BY <1>6, <2>1, <2>2 DEF NewDay, TypeInv, TypeOK, AttemptsBounded, GoodSession, providerVars, leadVars
<1>7. ASSUME NEW m \in Messages, BackoffOver(m) PROVE TypeInv'
  BY <1>7 DEF BackoffOver, TypeInv, TypeOK, AttemptsBounded, Bounded, providerVars, leadVars
<1>8. ASSUME EnableMail PROVE TypeInv'
  BY <1>8 DEF EnableMail, TypeInv, TypeOK, AttemptsBounded, Bounded, leadVars
<1>9. ASSUME NEW p \in Processors, StartPass(p) PROVE TypeInv'
  <2>1. CountedToday \in Nat
    BY CardinalityIsNat DEF CountedToday, TypeInv, TypeOK
  <2>2. PICK W \in SUBSET Messages :
          /\ IsWindow(W)
          /\ sess' = [sess EXCEPT ![p] =
               [NoSession EXCEPT !.pc = "scan", !.todo = W, !.hot = W \cap cooling,
                  !.seen = [m \in Messages |-> row[m].attempts],
                  !.sentCount = CountedToday]]
    BY <1>9 DEF StartPass
  <2> DEFINE s == [NoSession EXCEPT !.pc = "scan", !.todo = W, !.hot = W \cap cooling,
                  !.seen = [m \in Messages |-> row[m].attempts],
                  !.sentCount = CountedToday]
  <2>3. s \in Session
    BY <2>1, NoSessionGood DEF GoodSession, Session, TypeInv, TypeOK, Row
  <2>4. Bounded(s)
    BY <2>2 DEF Bounded, NoSession, TypeInv, TypeOK, AttemptsBounded, IsWindow, Queued, Tried
  <2>5. s \in GoodSession
    BY <2>3, <2>4 DEF GoodSession
  <2> HIDE DEF s
  <2> QED
    BY <1>9, <2>2, <2>5, <1>a, SessionStepType DEF StartPass, providerVars, s
<1>10. ASSUME NEW p \in Processors, NEW m \in Messages, SkipBackoff(p, m) PROVE TypeInv'
  <2>1. [sess[p] EXCEPT !.todo = @ \ {m}] \in GoodSession
    <3>1. [sess[p] EXCEPT !.todo = @ \ {m}] \in Session
      <4>1. \A t \in Session : [t EXCEPT !.todo = t.todo \ {m}] \in Session
        BY DEF Session
      <4> QED
        BY <1>0, <4>1 DEF GoodSession
    <3>2. Bounded([sess[p] EXCEPT !.todo = @ \ {m}])
      <4>1. \A t \in Session : LET n == [t EXCEPT !.todo = @ \ {m}]
                               IN n.todo \subseteq t.todo /\ n.seen = t.seen /\ n.result = t.result
        BY DEF Session
      <4> QED
        BY <1>0, <4>1 DEF GoodSession, Bounded
    <3> QED
      BY <3>1, <3>2 DEF GoodSession
  <2> QED
    BY <1>10, <2>1, <1>a, SessionStepType DEF SkipBackoff, providerVars
<1>11. ASSUME NEW p \in Processors, NEW m \in Messages, Withhold(p, m) PROVE TypeInv'
  <2> DEFINE s == Lead(p, m)
             t == [s EXCEPT !.todo = @ \ {m},
                    !.result[m] = IF LeadOf[m] \in s.suppressed THEN "SUPPRESSED"
                                  ELSE "UNSUBSCRIBED"]
  <2>1. s \in GoodSession
    BY <1>0, LoadLeadGood DEF Lead
  <2> HIDE DEF s
  <2>2. t \in Session
    BY <2>1 DEF GoodSession, Session, Results
  <2>3. Bounded(t)
    BY <2>1 DEF GoodSession, Session, Results, Bounded, Tried
  <2>4. t \in GoodSession
    BY <2>2, <2>3 DEF GoodSession
  <2>5. sess' = [sess EXCEPT ![p] = t]
    BY <1>11 DEF Withhold, s
  <2> HIDE DEF t
  <2> QED
    BY <1>11, <2>4, <2>5, <1>a, SessionStepType DEF Withhold, providerVars
<1>12. ASSUME NEW p \in Processors, NEW m \in Messages, HoldForQuota(p, m) PROVE TypeInv'
  <2> DEFINE s == Lead(p, m)
             t == [s EXCEPT !.todo = @ \ {m}]
  <2>1. s \in GoodSession
    BY <1>0, LoadLeadGood DEF Lead
  <2> HIDE DEF s
  <2>2. t \in GoodSession
    BY <2>1 DEF GoodSession, Session, Bounded
  <2>3. sess' = [sess EXCEPT ![p] = t]
    BY <1>12 DEF HoldForQuota, s
  <2> HIDE DEF t
  <2> QED
    BY <1>12, <2>2, <2>3, <1>a, SessionStepType DEF HoldForQuota, providerVars
<1>13. ASSUME NEW p \in Processors, NEW m \in Messages, BeginSend(p, m) PROVE TypeInv'
  <2> DEFINE s == Lead(p, m)
             t == [s EXCEPT !.pc = "send", !.posts = 0, !.processed = s.processed + 1,
                            !.written = s.written \cup (Dirty(s) \cup {m})]
  <2>1. s \in GoodSession
    BY <1>0, LoadLeadGood DEF Lead
  <2> HIDE DEF s
  <2>1a. Dirty(s) \subseteq Messages
    BY DEF Dirty
  <2>1b. t \in Session
    <3> DEFINE s1 == [s EXCEPT !.pc = "send", !.posts = 0]
    <3>1. s1 \in Session
      BY <2>1 DEF GoodSession, Session
    <3>2. s.processed + 1 \in Nat /\ s.written \cup (Dirty(s) \cup {m}) \in SUBSET Messages
      BY <2>1, <2>1a DEF GoodSession, Session
    <3> HIDE DEF s1
    <3>3. [s1 EXCEPT !.processed = s.processed + 1,
                     !.written = s.written \cup (Dirty(s) \cup {m})] \in Session
      BY <3>1, <3>2 DEF Session
    <3> QED
      BY <3>3 DEF s1
  <2>1c. Bounded(t)
    BY <2>1 DEF GoodSession, Session, Bounded
  <2>2. t \in GoodSession
    BY <2>1b, <2>1c DEF GoodSession
  <2>3. sess' = [sess EXCEPT ![p] = t]
    BY <1>13 DEF BeginSend, s
  <2> HIDE DEF t
  <2> QED
    BY <1>13, <2>2, <2>3, <1>a, SessionStepType DEF BeginSend, providerVars
<1>14. ASSUME NEW p \in Processors, NEW m \in Messages, Accepted(p, m) PROVE TypeInv'
  <2>1. Success(sess[p], m, mails[m] + 1) \in GoodSession
    BY <1>14, <1>0, <1>a, SuccessGood DEF Accepted, Sending, First
  <2>2. mails' \in [Messages -> Nat] /\ lost' \in [Messages -> Nat]
    BY <1>14, <1>a DEF Accepted
  <2>3. faults' \in 0..MaxFaults /\ enabled' \in BOOLEAN
    BY <1>14, <1>a DEF Accepted
  <2> QED
    BY <1>14, <2>1, <2>2, <2>3, SessionStepType DEF Accepted
<1>15. ASSUME NEW p \in Processors, NEW m \in Messages, AnswerLost(p, m) PROVE TypeInv'
  <2>1. NoAnswer(sess[p], m) \in GoodSession
    BY <1>15, <1>0, NoAnswerGood DEF AnswerLost, Sending, First
  <2>2. mails' \in [Messages -> Nat] /\ lost' \in [Messages -> Nat]
    BY <1>15, <1>a DEF AnswerLost
  <2>3. faults' \in 0..MaxFaults /\ enabled' \in BOOLEAN
    BY <1>15, <1>a DEF AnswerLost
  <2> QED
    BY <1>15, <2>1, <2>2, <2>3, SessionStepType DEF AnswerLost
<1>16. ASSUME NEW p \in Processors, NEW m \in Messages, Unavailable(p, m) PROVE TypeInv'
  <2>1. NoAnswer(sess[p], m) \in GoodSession
    BY <1>16, <1>0, NoAnswerGood DEF Unavailable, Sending, First
  <2>2. mails' \in [Messages -> Nat] /\ lost' \in [Messages -> Nat]
    BY <1>16, <1>a DEF Unavailable
  <2>3. faults' \in 0..MaxFaults /\ enabled' \in BOOLEAN
    BY <1>16, <1>a DEF Unavailable
  <2> QED
    BY <1>16, <2>1, <2>2, <2>3, SessionStepType DEF Unavailable
<1>17. ASSUME NEW p \in Processors, NEW m \in Messages, Refused(p, m) PROVE TypeInv'
  <2>1. Failure(sess[p], m, FALSE) \in GoodSession
    BY <1>17, <1>0, FailureGood DEF Refused, Sending, First
  <2>2. mails' \in [Messages -> Nat] /\ lost' \in [Messages -> Nat]
    BY <1>17, <1>a DEF Refused
  <2>3. faults' \in 0..MaxFaults /\ enabled' \in BOOLEAN
    BY <1>17, <1>a DEF Refused
  <2> QED
    BY <1>17, <2>1, <2>2, <2>3, SessionStepType DEF Refused
<1>18. ASSUME NEW p \in Processors, NEW m \in Messages, DisabledSend(p, m) PROVE TypeInv'
  <2>1. Failure(sess[p], m, TRUE) \in GoodSession
    BY <1>18, <1>0, FailureGood DEF DisabledSend, Sending, First
  <2> QED
    BY <1>18, <2>1, <1>a, SessionStepType DEF DisabledSend, providerVars
<1>19. ASSUME NEW p \in Processors, FinishPass(p) PROVE TypeInv'
  <2> DEFINE s == sess[p]
  <2>1. ASSUME NEW m \in Messages PROVE Commit(row[m], s, m) \in Row
    <3>1. row[m] \in Row /\ s \in Session /\ Bounded(s)
      BY <1>0 DEF GoodSession, TypeInv, TypeOK
    <3>2. s.result[m] # "none" => s.result[m] \in Statuses
      BY <3>1 DEF Session, Results, Statuses
    <3>3. s.result[m] \in Tried => s.seen[m] + 1 \in 0..MaxAttempts
      BY <3>1 DEF Session, Bounded
    <3>4. s.mailId[m] \in Nat
      BY <3>1 DEF Session
    <3> QED
      BY <3>1, <3>2, <3>3, <3>4 DEF Commit, Row
  <2>2. \A m \in Messages :
          row'[m].status = "QUEUED" => row'[m].attempts < MaxAttempts
    <3> SUFFICES ASSUME NEW m \in Messages, row'[m].status = "QUEUED"
                 PROVE  row'[m].attempts < MaxAttempts
      OBVIOUS
    <3>1. row'[m] = Commit(row[m], s, m)
      BY <1>19 DEF FinishPass
    <3> QED
      BY <3>1, <1>0 DEF Commit, GoodSession, Session, Bounded, TypeInv, TypeOK, AttemptsBounded, Row, Results, Tried
  <2>3. \A q \in Processors : sess'[q] \in GoodSession
    BY <1>19, <1>0, NoSessionGood DEF FinishPass, TypeInv, TypeOK
  <2> QED
    BY <1>19, <2>1, <2>2, <2>3, <1>a, <1>0 DEF FinishPass, TypeInv, TypeOK, AttemptsBounded, GoodSession, Session, providerVars, leadVars
<1>20. ASSUME NEW p \in Processors, Abort(p) PROVE TypeInv'
  <2>1. lost' \in [Messages -> Nat] /\ faults' \in 0..MaxFaults
    BY <1>20, <1>a DEF Abort
  <2> QED
    BY <1>20, <2>1, <1>a, NoSessionGood, SessionStepType DEF Abort
<1>21. CASE UNCHANGED vars
  BY <1>21 DEF vars, TypeInv, TypeOK, AttemptsBounded, Bounded, providerVars, leadVars
<1> QED
  BY <1>1, <1>2, <1>3, <1>4, <1>5, <1>6, <1>7, <1>8, <1>9, <1>10, <1>11, <1>12, <1>13,
     <1>14, <1>15, <1>16, <1>17, <1>18, <1>19, <1>20, <1>21
  DEF Next, QueueStep, LeadStep, PassStep, VisitRow, ProviderCall

\* Every reachable state is well typed; in particular no sequence of retries,
\* rollbacks and overwritten rows takes attempt_count beyond email_max_attempts
\* (email_queue.py:116, 127), with any number of processors.
THEOREM TypeCorrect == Spec => []TypeOK
<1>1. Init => TypeInv
  BY InitType
<1>2. TypeInv /\ [Next]_vars => TypeInv'
  BY TypeStep
<1>3. TypeInv => TypeOK
  BY DEF TypeInv
<1> QED
  BY <1>1, <1>2, <1>3, PTL DEF Spec
-----------------------------------------------------------------------------
\* What keeps two passes apart: a pass only has rows that exist, it holds the
\* lock of the row it is sending, and a lock has one holder.
Locks ==
  /\ \A p \in Processors : \A m \in sess[p].todo : row[m].status # "none"
  /\ \A p \in Processors, m \in Messages : Sending(p, m) => m \in sess[p].written
  /\ \A p, q \in Processors : p # q => sess[p].written \cap sess[q].written = {}

LEMMA FirstUnique ==
  ASSUME row \in [Messages -> Row], NEW S \in SUBSET Messages,
         NEW m, NEW n, First(m, S), First(n, S)
  PROVE  m = n
<1> SUFFICES ASSUME m # n PROVE FALSE
  OBVIOUS
<1>1. m \in Messages /\ n \in Messages /\ Before(m, n) /\ Before(n, m)
  BY DEF First
<1>2. /\ Priority[m] \in Nat /\ Priority[n] \in Nat
      /\ row[m].queuedAt \in Nat /\ row[n].queuedAt \in Nat
  BY <1>1, PriorityAssumption DEF Row
<1> QED
  BY <1>1, <1>2 DEF Before

\* The order of rows that exist never changes.
LEMMA FirstStable ==
  ASSUME NEW S \in SUBSET Messages, NEW m,
         \A n \in S : row'[n].queuedAt = row[n].queuedAt
  PROVE  First(m, S)' <=> First(m, S)
BY DEF First, Before

LEMMA InitLocks == Init => Locks
BY DEF Init, Locks, NoSession, Sending

\* A step of p that leaves the rows alone.
LEMMA SessionStepLocks ==
  ASSUME TypeOK, Locks, NEW p \in Processors, NEW s,
         sess' = [sess EXCEPT ![p] = s], row' = row,
         \A m \in s.todo : row[m].status # "none",
         \A m \in Messages : s.pc = "send" /\ First(m, s.todo) => m \in s.written,
         \A q \in Processors \ {p} : s.written \cap sess[q].written = {}
  PROVE  Locks'
<1>1. \A q \in Processors : sess'[q] = IF q = p THEN s ELSE sess[q]
  BY DEF TypeOK
<1>2. \A q \in Processors : \A m \in sess'[q].todo : row'[m].status # "none"
  BY <1>1 DEF Locks
<1>3. \A q \in Processors, m \in Messages : Sending(q, m)' => m \in sess'[q].written
  BY <1>1 DEF Locks, Sending, First, Before
<1>4. \A q, r \in Processors : q # r => sess'[q].written \cap sess'[r].written = {}
  BY <1>1 DEF Locks
<1> QED
  BY <1>2, <1>3, <1>4 DEF Locks

\* Looking up a lead leaves the rest of the session alone.
SameWork(s, t) ==
  /\ s.pc = t.pc /\ s.todo = t.todo /\ s.written = t.written
  /\ s.result = t.result /\ s.mailId = t.mailId /\ s.seen = t.seen
  /\ s.sentToday = t.sentToday /\ s.sentCount = t.sentCount

LEMMA LoadLeadWork ==
  ASSUME NEW s \in Session, NEW l \in Leads
  PROVE  LoadLead(s, l) \in Session /\ SameWork(LoadLead(s, l), s)
BY DEF LoadLead, Session, SameWork

\* A provider call keeps the locks, and ends the visit to its row or goes on.
AfterCall(s, t, m) ==
  /\ s.written = t.written
  /\ \/ s.pc = "scan" /\ s.todo = t.todo \ {m}
     \/ s.pc = t.pc /\ s.todo = t.todo

LEMMA LocksStep == TypeInv /\ Locks /\ [Next]_vars => Locks'
<1> SUFFICES ASSUME TypeInv, Locks, [Next]_vars PROVE Locks'
  OBVIOUS
<1> USE LeadOfAssumption
<1>0. /\ TypeOK /\ row \in [Messages -> Row] /\ sess \in [Processors -> Session]
      /\ \A p \in Processors : sess[p] \in Session /\ sess[p].todo \in SUBSET Messages
  BY DEF TypeInv, TypeOK, Session
<1>a. /\ \A p \in Processors : \A m \in sess[p].todo : row[m].status # "none"
      /\ \A p \in Processors, m \in Messages :
           sess[p].pc = "send" /\ First(m, sess[p].todo) => m \in sess[p].written
      /\ \A p, q \in Processors : p # q => sess[p].written \cap sess[q].written = {}
  BY DEF Locks, Sending
<1>1. CASE UNCHANGED <<row, sess>>
  BY <1>1 DEF Locks, Sending, First, Before
<1>2. ASSUME NEW m \in Messages, Enqueue(m) PROVE Locks'
  <2>1. \A n \in Messages : row[n].status # "none" => row'[n] = row[n]
    BY <1>2, <1>0 DEF Enqueue
  <2>2. sess' = sess
    BY <1>2 DEF Enqueue
  <2>3. \A p \in Processors : \A n \in sess[p].todo : row'[n] = row[n]
    BY <2>1, <1>0 DEF Locks
  <2>4. ASSUME NEW p \in Processors, NEW n \in Messages, Sending(p, n)'
        PROVE  n \in sess'[p].written
    <3>1. First(n, sess[p].todo)
      BY <2>2, <2>3, <2>4, <1>0, FirstStable DEF Sending, First, Before
    <3> QED
      BY <2>2, <2>4, <3>1 DEF Locks, Sending
  <2> QED
    BY <2>2, <2>3, <2>4 DEF Locks
<1>3. ASSUME NewDay PROVE Locks'
  <2>1. row' = row /\ \A p \in Processors : sess'[p] = [sess[p] EXCEPT !.sentToday = {}]
    BY <1>3 DEF NewDay
  <2>2. \A p \in Processors : /\ sess'[p].todo = sess[p].todo /\ sess'[p].pc = sess[p].pc
                              /\ sess'[p].written = sess[p].written
    <3>1. \A t \in Session : LET n == [t EXCEPT !.sentToday = {}]
                             IN n.todo = t.todo /\ n.pc = t.pc /\ n.written = t.written
      BY DEF Session
    <3> QED
      BY <2>1, <3>1, <1>0
  <2> QED
    BY <2>1, <2>2 DEF Locks, Sending, First, Before
<1>4. ASSUME NEW p \in Processors, StartPass(p) PROVE Locks'
  <2>1. PICK W \in SUBSET Messages :
          /\ IsWindow(W)
          /\ sess' = [sess EXCEPT ![p] =
               [NoSession EXCEPT !.pc = "scan", !.todo = W, !.hot = W \cap cooling,
                  !.seen = [m \in Messages |-> row[m].attempts],
                  !.sentCount = CountedToday]]
    BY <1>4 DEF StartPass
  <2> DEFINE s == [NoSession EXCEPT !.pc = "scan", !.todo = W, !.hot = W \cap cooling,
                  !.seen = [m \in Messages |-> row[m].attempts],
                  !.sentCount = CountedToday]
  <2>2. s.todo = W /\ s.written = {} /\ s.pc = "scan"
    BY DEF NoSession
  <2>3. sess' = [sess EXCEPT ![p] = s] /\ row' = row
    BY <1>4, <2>1 DEF StartPass
  <2> HIDE DEF s
  <2>4. \A m \in W : row[m].status # "none"
    BY <2>1 DEF IsWindow, Queued
  <2> QED
    BY <2>2, <2>3, <2>4, <1>0, SessionStepLocks
<1>5. ASSUME NEW p \in Processors, NEW m \in Messages, SkipBackoff(p, m) PROVE Locks'
  <2> DEFINE s == [sess[p] EXCEPT !.todo = @ \ {m}]
  <2>1. s.todo \subseteq sess[p].todo /\ s.written = sess[p].written /\ s.pc = "scan"
    BY <1>5, <1>0 DEF SkipBackoff, At, Session
  <2>2. sess' = [sess EXCEPT ![p] = s] /\ row' = row
    BY <1>5 DEF SkipBackoff
  <2> HIDE DEF s
  <2>3. \A n \in s.todo : row[n].status # "none"
    BY <2>1, <1>a
  <2>4. \A q \in Processors \ {p} : s.written \cap sess[q].written = {}
    BY <2>1, <1>a
  <2> QED
    BY <2>1, <2>2, <2>3, <2>4, <1>0, SessionStepLocks
<1>6. ASSUME NEW p \in Processors, NEW m \in Messages, Withhold(p, m) PROVE Locks'
  <2> DEFINE u == Lead(p, m)
             s == [u EXCEPT !.todo = @ \ {m},
                    !.result[m] = IF LeadOf[m] \in u.suppressed THEN "SUPPRESSED"
                                  ELSE "UNSUBSCRIBED"]
  <2>1. u \in Session /\ SameWork(u, sess[p])
    BY <1>0, LoadLeadWork DEF Lead
  <2>2. sess' = [sess EXCEPT ![p] = s] /\ row' = row
    BY <1>6 DEF Withhold
  <2> HIDE DEF u
  <2>3. s.todo \subseteq u.todo /\ s.written = u.written /\ s.pc = u.pc
    BY <2>1 DEF Session
  <2> HIDE DEF s
  <2>4. \A n \in s.todo : row[n].status # "none"
    BY <2>1, <2>3, <1>a DEF SameWork
  <2>5. \A q \in Processors \ {p} : s.written \cap sess[q].written = {}
    BY <2>1, <2>3, <1>a DEF SameWork
  <2>6. s.pc = "scan"
    BY <1>6, <2>1, <2>3 DEF Withhold, At, SameWork
  <2> QED
    BY <2>2, <2>4, <2>5, <2>6, <1>0, SessionStepLocks
<1>7. ASSUME NEW p \in Processors, NEW m \in Messages, HoldForQuota(p, m) PROVE Locks'
  <2> DEFINE u == Lead(p, m)
             s == [u EXCEPT !.todo = @ \ {m}]
  <2>1. u \in Session /\ SameWork(u, sess[p])
    BY <1>0, LoadLeadWork DEF Lead
  <2>2. sess' = [sess EXCEPT ![p] = s] /\ row' = row
    BY <1>7 DEF HoldForQuota
  <2> HIDE DEF u
  <2>3. s.todo \subseteq u.todo /\ s.written = u.written /\ s.pc = u.pc
    BY <2>1 DEF Session
  <2> HIDE DEF s
  <2>4. \A n \in s.todo : row[n].status # "none"
    BY <2>1, <2>3, <1>a DEF SameWork
  <2>5. \A q \in Processors \ {p} : s.written \cap sess[q].written = {}
    BY <2>1, <2>3, <1>a DEF SameWork
  <2>6. s.pc = "scan"
    BY <1>7, <2>1, <2>3 DEF HoldForQuota, At, SameWork
  <2> QED
    BY <2>2, <2>4, <2>5, <2>6, <1>0, SessionStepLocks
<1>8. ASSUME NEW p \in Processors, NEW m \in Messages, BeginSend(p, m) PROVE Locks'
  <2> DEFINE u == Lead(p, m)
             rows == Dirty(u) \cup {m}
             s == [u EXCEPT !.pc = "send", !.posts = 0, !.processed = u.processed + 1,
                            !.written = u.written \cup rows]
  <2>1. u \in Session /\ SameWork(u, sess[p])
    BY <1>0, LoadLeadWork DEF Lead
  <2>2. /\ sess' = [sess EXCEPT ![p] = s] /\ row' = row
        /\ CanWrite(p, rows) /\ First(m, sess[p].todo)
    BY <1>8 DEF BeginSend, At
  <2> HIDE DEF u
  <2>3. s.todo = u.todo /\ s.written = u.written \cup rows
    BY <2>1 DEF Session
  <2>4. ASSUME NEW n \in Messages, First(n, s.todo) PROVE n \in s.written
    BY <2>1, <2>2, <2>3, <2>4, <1>0, FirstUnique DEF SameWork
  <2>5. ASSUME NEW q \in Processors \ {p} PROVE s.written \cap sess[q].written = {}
    BY <2>1, <2>2, <2>3 DEF SameWork, Locks, CanWrite
  <2> HIDE DEF s
  <2> QED
    <3>1. \A n \in s.todo : row[n].status # "none"
      BY <2>1, <2>3, <1>a DEF SameWork
    <3> QED
      BY <2>2, <2>4, <2>5, <3>1, <1>0, SessionStepLocks
<1>9. ASSUME NEW p \in Processors, NEW m \in Messages, ProviderCall(p, m) PROVE Locks'
  <2>1. Sending(p, m) /\ row' = row
    BY <1>9 DEF ProviderCall, Accepted, AnswerLost, Unavailable, Refused, DisabledSend
  <2>2. PICK s : sess' = [sess EXCEPT ![p] = s] /\ AfterCall(s, sess[p], m)
    <3>1. AfterCall(Success(sess[p], m, mails[m] + 1), sess[p], m)
      BY <1>0 DEF Success, AfterCall, Session
    <3>2. \A r \in BOOLEAN : AfterCall(Failure(sess[p], m, r), sess[p], m)
      BY <1>0 DEF Failure, AfterCall, Session
    <3>3. AfterCall(NoAnswer(sess[p], m), sess[p], m)
      <4>1. AfterCall([sess[p] EXCEPT !.posts = @ + 1], sess[p], m)
        BY <1>0 DEF AfterCall, Session
      <4> QED BY <4>1, <3>2 DEF NoAnswer
    <3> QED
      BY <1>9, <3>1, <3>2, <3>3 DEF ProviderCall, Accepted, AnswerLost, Unavailable, Refused, DisabledSend
  <2> QED
    <3>1. /\ \A n \in s.todo : row[n].status # "none"
          /\ \A q \in Processors \ {p} : s.written \cap sess[q].written = {}
      BY <2>2, <1>a DEF AfterCall
    <3>2. ASSUME NEW n \in Messages, s.pc = "send", First(n, s.todo) PROVE n \in s.written
      BY <2>2, <3>2, <1>a DEF AfterCall
    <3> QED
      BY <2>1, <2>2, <3>1, <3>2, <1>0, SessionStepLocks
<1>10. ASSUME NEW p \in Processors, FinishPass(p) PROVE Locks'
  <2>1. /\ row' = [m \in Messages |-> Commit(row[m], sess[p], m)]
        /\ sess' = [sess EXCEPT ![p] = NoSession]
    BY <1>10 DEF FinishPass
  <2>2. \A m \in Messages : /\ row'[m].queuedAt = row[m].queuedAt
                            /\ row[m].status # "none" => row'[m].status # "none"
    <3> SUFFICES ASSUME NEW m \in Messages
                 PROVE  /\ row'[m].queuedAt = row[m].queuedAt
                        /\ row[m].status # "none" => row'[m].status # "none"
      OBVIOUS
    <3>1. row'[m] = Commit(row[m], sess[p], m) /\ row[m] \in Row
      BY <2>1, <1>0
    <3> QED
      BY <3>1 DEF Commit, Row
  <2>3. \A q \in Processors : sess'[q] = IF q = p THEN NoSession ELSE sess[q]
    BY <2>1, <1>0
  <2>4. NoSession.pc = "idle" /\ NoSession.todo = {} /\ NoSession.written = {}
    BY DEF NoSession
  <2>5. ASSUME NEW q \in Processors, NEW n \in Messages, Sending(q, n)'
        PROVE  n \in sess'[q].written
    <3>1. q # p /\ sess'[q] = sess[q]
      BY <2>3, <2>4, <2>5 DEF Sending
    <3>2. First(n, sess[q].todo)
      BY <2>2, <2>5, <3>1, <1>0 DEF Sending, First, Before
    <3> QED
      BY <2>5, <3>1, <3>2 DEF Locks, Sending
  <2> QED
    BY <2>2, <2>3, <2>4, <2>5, <1>0 DEF Locks
<1>11. ASSUME NEW p \in Processors, Abort(p) PROVE Locks'
  <2>1. NoSession.pc = "idle" /\ NoSession.todo = {} /\ NoSession.written = {}
    BY DEF NoSession
  <2> QED
    BY <1>11, <2>1, <1>0, SessionStepLocks DEF Abort
<1> QED
  BY <1>1, <1>2, <1>3, <1>4, <1>5, <1>6, <1>7, <1>8, <1>9, <1>10, <1>11
  DEF Next, QueueStep, LeadStep, PassStep, VisitRow, vars, leadVars,
      Join, Rejoin, Unsubscribe, Suppress, BackoffOver, EnableMail

\* Two passes are never inside the provider call for the same row at once
\* (email_queue.py:113-115), whatever the number of processors.
THEOREM OneSender == Spec => []OneSenderPerRow
<1>1. Init => TypeInv /\ Locks
  BY InitType, InitLocks
<1>2. TypeInv /\ Locks /\ [Next]_vars => (TypeInv /\ Locks)'
  BY TypeStep, LocksStep
<1>3. Locks => OneSenderPerRow
  BY DEF Locks, OneSenderPerRow
<1> QED
  BY <1>1, <1>2, <1>3, PTL DEF Spec
-----------------------------------------------------------------------------
\* Session s comes from t by a visit to row m that sends no mail that p knows
\* of: nothing is noted as sent, and a row with a new result has been left.
Unsent(s, t, m) ==
  /\ s.pc # "idle" /\ s.todo \subseteq t.todo
  /\ s.mailId = t.mailId /\ s.sentToday = t.sentToday /\ s.sentCount = t.sentCount
  /\ \A n \in Messages :
       \/ s.result[n] = t.result[n]
       \/ n = m /\ n \notin s.todo /\ s.result[n] \notin {"none", "SENT"}

LEMMA VisitSendsNothing ==
  ASSUME TypeOK, NEW p \in Processors, NEW m \in Messages, VisitRow(p, m)
  PROVE  /\ \E s : sess' = [sess EXCEPT ![p] = s] /\ Unsent(s, sess[p], m)
         /\ UNCHANGED <<leadVars, row, sentToday, providerVars>>
<1> USE LeadOfAssumption
<1> DEFINE u == Lead(p, m)
           withheld == [u EXCEPT !.todo = @ \ {m},
                !.result[m] = IF LeadOf[m] \in u.suppressed THEN "SUPPRESSED"
                              ELSE "UNSUBSCRIBED"]
           held == [u EXCEPT !.todo = @ \ {m}]
           begun == [u EXCEPT !.pc = "send", !.posts = 0, !.processed = u.processed + 1,
                              !.written = u.written \cup (Dirty(u) \cup {m})]
           skipped == [sess[p] EXCEPT !.todo = @ \ {m}]
<1>1. sess[p] \in Session /\ sess[p].pc = "scan"
  BY DEF TypeOK, VisitRow, SkipBackoff, Withhold, HoldForQuota, BeginSend, At
<1>2. u \in Session /\ SameWork(u, sess[p])
  BY <1>1, LoadLeadWork DEF Lead
<1>3. \E s \in {skipped, withheld, held, begun} : sess' = [sess EXCEPT ![p] = s]
  BY DEF VisitRow, SkipBackoff, Withhold, HoldForQuota, BeginSend
<1> HIDE DEF u
<1>4. Unsent(skipped, sess[p], m)
  BY <1>1 DEF Session, Unsent
<1>5. Unsent(withheld, sess[p], m)
  <2>1. /\ withheld.pc = u.pc /\ withheld.todo = u.todo \ {m} /\ withheld.mailId = u.mailId
        /\ withheld.sentToday = u.sentToday /\ withheld.sentCount = u.sentCount
    BY <1>2 DEF Session
  <2>2. \A n \in Messages :
          \/ withheld.result[n] = u.result[n]
          \/ n = m /\ withheld.result[n] \in {"SUPPRESSED", "UNSUBSCRIBED"}
    BY <1>2 DEF Session
  <2> HIDE DEF withheld
  <2> QED
    BY <1>1, <1>2, <2>1, <2>2 DEF SameWork, Unsent
<1>6. Unsent(held, sess[p], m)
  BY <1>1, <1>2 DEF Session, SameWork, Unsent
<1>7. Unsent(begun, sess[p], m)
  <2>1. /\ begun.pc = "send" /\ begun.todo = u.todo /\ begun.mailId = u.mailId
        /\ begun.sentToday = u.sentToday /\ begun.sentCount = u.sentCount
        /\ begun.result = u.result
    BY <1>2 DEF Session
  <2> HIDE DEF begun
  <2> QED
    BY <1>1, <1>2, <2>1 DEF SameWork, Unsent
<1>8. \A s \in {skipped, withheld, held, begun} : Unsent(s, sess[p], m)
  BY <1>4, <1>5, <1>6, <1>7
<1> HIDE DEF skipped, withheld, held, begun
<1>9. \E s : sess' = [sess EXCEPT ![p] = s] /\ Unsent(s, sess[p], m)
  BY <1>3, <1>8
<1>10. UNCHANGED <<leadVars, row, sentToday, providerVars>>
  BY DEF VisitRow, SkipBackoff, Withhold, HoldForQuota, BeginSend
<1> QED
  BY <1>9, <1>10

LEMMA FailedCallSendsNothing ==
  ASSUME TypeOK, NEW p \in Processors, NEW m \in Messages,
         ProviderCall(p, m), ~Accepted(p, m)
  PROVE  /\ \E s : sess' = [sess EXCEPT ![p] = s] /\ Unsent(s, sess[p], m)
         /\ UNCHANGED <<leadVars, row, sentToday>>
<1>1. sess[p] \in Session /\ sess[p].pc = "send"
  BY DEF TypeOK, ProviderCall, AnswerLost, Unavailable, Refused, DisabledSend, Sending
<1>2. \A r \in BOOLEAN : Unsent(Failure(sess[p], m, r), sess[p], m)
  <2> SUFFICES ASSUME NEW r \in BOOLEAN PROVE Unsent(Failure(sess[p], m, r), sess[p], m)
    OBVIOUS
  <2> DEFINE f == Failure(sess[p], m, r)
  <2>1. /\ f.pc = "scan" /\ f.todo = sess[p].todo \ {m} /\ f.mailId = sess[p].mailId
        /\ f.sentToday = sess[p].sentToday /\ f.sentCount = sess[p].sentCount
    BY <1>1 DEF Session, Failure
  <2>2. \A n \in Messages :
          \/ f.result[n] = sess[p].result[n]
          \/ n = m /\ f.result[n] \in {"FAILED", "QUEUED"}
    <3>1. f.result = [sess[p].result EXCEPT
            ![m] = IF ~r \/ sess[p].seen[m] + 1 >= MaxAttempts THEN "FAILED" ELSE "QUEUED"]
      BY <1>1 DEF Session, Failure
    <3>2. sess[p].result \in [Messages -> Results]
      BY <1>1 DEF Session
    <3> QED
      BY <3>1, <3>2
  <2> HIDE DEF f
  <2> QED
    BY <2>1, <2>2 DEF Unsent, f
<1>3. Unsent([sess[p] EXCEPT !.posts = @ + 1], sess[p], m)
  BY <1>1 DEF Unsent, Session
<1>4. Unsent(NoAnswer(sess[p], m), sess[p], m)
  BY <1>2, <1>3 DEF NoAnswer
<1> QED
  BY <1>2, <1>4 DEF ProviderCall, AnswerLost, Unavailable, Refused, DisabledSend, providerVars

-----------------------------------------------------------------------------
\* What a pass has noted as sent names a mail the provider accepted.
RealSession(s) ==
  \A m \in Messages : s.result[m] = "SENT" => s.mailId[m] \in 1..mails[m]

Receipts == ReceiptIsReal /\ \A p \in Processors : RealSession(sess[p])

LEMMA InitReceipts == Init => Receipts
BY DEF Init, Receipts, ReceiptIsReal, RealSession, NoRow, NoSession

\* A step of p that leaves the rows alone and may hand over mails.
LEMMA SessionStepReceipts ==
  ASSUME TypeOK, Receipts, NEW p \in Processors, NEW s,
         sess' = [sess EXCEPT ![p] = s], row' = row,
         mails' \in [Messages -> Nat], \A m \in Messages : mails[m] <= mails'[m],
         \A m \in Messages : s.result[m] = "SENT" => s.mailId[m] \in 1..mails'[m]
  PROVE  Receipts'
<1>1. /\ row \in [Messages -> Row] /\ mails \in [Messages -> Nat]
      /\ \A q \in Processors : sess'[q] = IF q = p THEN s ELSE sess[q]
  BY DEF TypeOK
<1>2. \A m \in Messages : row[m].mailId \in Nat
  BY <1>1 DEF Row
<1>3. ReceiptIsReal'
  BY <1>1, <1>2 DEF Receipts, ReceiptIsReal
<1>4. ASSUME NEW q \in Processors, NEW m \in Messages, sess'[q].result[m] = "SENT"
      PROVE  sess'[q].mailId[m] \in 1..mails'[m]
  BY <1>1, <1>4 DEF Receipts, RealSession
<1> QED
  BY <1>3, <1>4 DEF Receipts, RealSession

LEMMA ReceiptsStep == TypeInv /\ Receipts /\ [Next]_vars => Receipts'
<1> SUFFICES ASSUME TypeInv, Receipts, [Next]_vars PROVE Receipts'
  OBVIOUS
<1> USE LeadOfAssumption
<1>0. /\ TypeOK /\ row \in [Messages -> Row] /\ mails \in [Messages -> Nat]
      /\ sess \in [Processors -> Session]
      /\ \A p \in Processors : sess[p] \in Session
      /\ \A m \in Messages : mails[m] <= mails[m]
  BY DEF TypeInv, TypeOK
<1>a. \A p \in Processors, m \in Messages :
        sess[p].result[m] = "SENT" => sess[p].mailId[m] \in 1..mails[m]
  BY DEF Receipts, RealSession
<1>b. \A m \in Messages : NoSession.result[m] = "none"
  BY DEF NoSession
<1>1. CASE UNCHANGED <<row, sess, mails>>
  BY <1>1 DEF Receipts, ReceiptIsReal, RealSession
<1>2. ASSUME NEW m \in Messages, Enqueue(m) PROVE Receipts'
  <2>1. row'[m].status = "QUEUED" /\ row'[m].mailId = 0
    BY <1>2, <1>0 DEF Enqueue, NoRow
  <2>2. \A n \in Messages \ {m} : row'[n] = row[n]
    BY <1>2, <1>0 DEF Enqueue
  <2>3. sess' = sess /\ mails' = mails
    BY <1>2 DEF Enqueue, providerVars
  <2> QED
    BY <1>0, <2>1, <2>2, <2>3 DEF Receipts, ReceiptIsReal, RealSession
<1>3. ASSUME NewDay PROVE Receipts'
  <2>1. /\ row' = row /\ mails' = mails
        /\ \A p \in Processors : sess'[p] = [sess[p] EXCEPT !.sentToday = {}]
    BY <1>3 DEF NewDay, providerVars
  <2>2. \A p \in Processors : sess'[p].result = sess[p].result /\ sess'[p].mailId = sess[p].mailId
    BY <2>1, <1>0 DEF Session
  <2> QED
    BY <2>1, <2>2 DEF Receipts, ReceiptIsReal, RealSession
<1>4. ASSUME NEW p \in Processors, StartPass(p) PROVE Receipts'
  <2>1. PICK W \in SUBSET Messages :
          sess' = [sess EXCEPT ![p] =
            [NoSession EXCEPT !.pc = "scan", !.todo = W, !.hot = W \cap cooling,
               !.seen = [m \in Messages |-> row[m].attempts],
               !.sentCount = CountedToday]]
    BY <1>4 DEF StartPass
  <2> DEFINE s == [NoSession EXCEPT !.pc = "scan", !.todo = W, !.hot = W \cap cooling,
                  !.seen = [m \in Messages |-> row[m].attempts],
                  !.sentCount = CountedToday]
  <2>2. s.result = NoSession.result
    BY DEF NoSession
  <2>3. sess' = [sess EXCEPT ![p] = s] /\ row' = row /\ mails' = mails
    BY <1>4, <2>1 DEF StartPass, providerVars
  <2> HIDE DEF s
  <2> QED
    BY <2>2, <2>3, <1>0, <1>b, SessionStepReceipts
<1>5. ASSUME NEW p \in Processors, NEW m \in Messages, VisitRow(p, m) PROVE Receipts'
  <2>1. row' = row /\ mails' = mails
    BY <1>5, <1>0, VisitSendsNothing DEF providerVars
  <2>2. PICK s : sess' = [sess EXCEPT ![p] = s] /\ Unsent(s, sess[p], m)
    BY <1>5, <1>0, VisitSendsNothing
  <2>3. ASSUME NEW n \in Messages, s.result[n] = "SENT" PROVE s.mailId[n] \in 1..mails[n]
    BY <2>2, <2>3, <1>a DEF Unsent
  <2> QED
    BY <2>1, <2>2, <2>3, <1>0, SessionStepReceipts
<1>6. ASSUME NEW p \in Processors, NEW m \in Messages, ProviderCall(p, m) PROVE Receipts'
  <2>0. row' = row /\ (mails' = mails \/ mails' = [mails EXCEPT ![m] = @ + 1])
    BY <1>6 DEF ProviderCall, Accepted, AnswerLost, Unavailable, Refused, DisabledSend, providerVars
  <2>1. /\ row' = row /\ mails' \in [Messages -> Nat]
        /\ \A n \in Messages : mails[n] <= mails'[n]
    BY <2>0, <1>0
  <2>2. CASE Accepted(p, m)
    <3> DEFINE s == Success(sess[p], m, mails[m] + 1)
    <3>1. sess' = [sess EXCEPT ![p] = s] /\ mails'[m] = mails[m] + 1
      BY <2>2, <1>0 DEF Accepted
    <3>2. s.mailId[m] = mails[m] + 1
      BY <1>0 DEF Success, Session
    <3>3. \A n \in Messages \ {m} : s.result[n] = sess[p].result[n] /\ s.mailId[n] = sess[p].mailId[n]
      BY <1>0 DEF Success, Session
    <3> HIDE DEF s
    <3>4. ASSUME NEW n \in Messages, s.result[n] = "SENT" PROVE s.mailId[n] \in 1..mails'[n]
      BY <3>1, <3>2, <3>3, <3>4, <2>1, <1>0, <1>a
    <3> QED
      BY <3>1, <3>4, <2>1, <1>0, SessionStepReceipts
  <2>3. CASE ~Accepted(p, m)
    <3>1. PICK s : sess' = [sess EXCEPT ![p] = s] /\ Unsent(s, sess[p], m)
      BY <1>6, <2>3, <1>0, FailedCallSendsNothing
    <3>2. ASSUME NEW n \in Messages, s.result[n] = "SENT" PROVE s.mailId[n] \in 1..mails'[n]
      BY <3>1, <3>2, <2>1, <1>0, <1>a DEF Unsent
    <3> QED
      BY <3>1, <3>2, <2>1, <1>0, SessionStepReceipts
  <2> QED
    BY <2>2, <2>3
<1>7. ASSUME NEW p \in Processors, FinishPass(p) PROVE Receipts'
  <2>1. ASSUME NEW m \in Messages
        PROVE  row'[m].mailId <= mails[m] /\ (row'[m].status = "SENT" => row'[m].mailId > 0)
    <3>1. row'[m] = Commit(row[m], sess[p], m) /\ row[m] \in Row /\ mails[m] \in Nat
      BY <1>7, <1>0 DEF FinishPass
    <3>2. row[m].mailId <= mails[m] /\ (row[m].status = "SENT" => row[m].mailId > 0)
      BY DEF Receipts, ReceiptIsReal
    <3>3. sess[p].result[m] = "SENT" => sess[p].mailId[m] \in 1..mails[m]
      BY <1>a
    <3> QED
      BY <3>1, <3>2, <3>3 DEF Commit, Row
  <2>2. mails' = mails /\ \A q \in Processors : sess'[q] = IF q = p THEN NoSession ELSE sess[q]
    BY <1>7, <1>0 DEF FinishPass, providerVars
  <2> QED
    BY <2>1, <2>2, <1>a, <1>b DEF Receipts, ReceiptIsReal, RealSession
<1>8. ASSUME NEW p \in Processors, Abort(p) PROVE Receipts'
  BY <1>8, <1>0, <1>b, SessionStepReceipts DEF Abort
<1> QED
  BY <1>1, <1>2, <1>3, <1>4, <1>5, <1>6, <1>7, <1>8
  DEF Next, QueueStep, LeadStep, PassStep, vars, leadVars, providerVars,
      Join, Rejoin, Unsubscribe, Suppress, BackoffOver, EnableMail

\* A row never records a mail the provider did not accept
\* (email_queue.py:118-121), whatever the number of processors.
THEOREM ReceiptsAreReal == Spec => []ReceiptIsReal
<1>1. Init => TypeInv /\ Receipts
  BY InitType, InitReceipts
<1>2. TypeInv /\ Receipts /\ [Next]_vars => (TypeInv /\ Receipts)'
  BY TypeStep, ReceiptsStep
<1>3. Receipts => ReceiptIsReal
  BY DEF Receipts
<1> QED
  BY <1>1, <1>2, <1>3, PTL DEF Spec
-----------------------------------------------------------------------------
(* Opting out (EmailConsent).                                              *)

\* What p's session holds against leads that have been out, or barred, since
\* its pass began, and what its provider call under way respects.
Recalls(p, n) ==
  /\ sess[p].loaded \cap optedOut[p] \cap sess[p].consented = {}
  /\ sess[p].loaded \cap barred[p] \subseteq sess[p].suppressed
  /\ Sending(p, n) => /\ LeadOf[n] \notin barred[p]
                      /\ Priority[n] > 0 => LeadOf[n] \notin optedOut[p]

\* The history speaks of leads that are still out, and an idle session holds
\* no lead.
Consent ==
  \A p \in Processors :
    /\ optedOut[p] \cap consented = {} /\ barred[p] \subseteq suppressed
    /\ sess[p].pc = "idle" => sess[p].loaded = {}
    /\ \A n \in Messages : Recalls(p, n)

\* Recalls after a step, of the leads that were out before it.
StillRecalls(p, n) ==
  /\ sess'[p].loaded \cap optedOut[p] \cap sess'[p].consented = {}
  /\ sess'[p].loaded \cap barred[p] \subseteq sess'[p].suppressed
  /\ Sending(p, n)' => /\ LeadOf[n] \notin barred[p]
                       /\ Priority[n] > 0 => LeadOf[n] \notin optedOut[p]

Holds(p) ==
  /\ sess'[p].pc = "idle" => sess'[p].loaded = {}
  /\ sess[p].pc = "idle" => sess'[p].loaded = {} /\ sess'[p].pc # "send"
  /\ \A n \in Messages : StillRecalls(p, n)

SameLeads(s, t) ==
  s.loaded = t.loaded /\ s.consented = t.consented /\ s.suppressed = t.suppressed

\* A step that leaves p's leads alone and starts no call.
LEMMA UntouchedHolds ==
  ASSUME Consent, NEW p \in Processors, SameLeads(sess'[p], sess[p]),
         sess'[p].pc = "idle" <=> sess[p].pc = "idle",
         \/ sess'[p].pc # "send"
         \/ /\ sess'[p].pc = sess[p].pc /\ sess'[p].todo = sess[p].todo
            /\ \A n \in Messages : First(n, sess[p].todo)' => First(n, sess[p].todo)
  PROVE  Holds(p)
<1>1. \A n \in Messages : Sending(p, n)' => Sending(p, n)
  BY DEF Sending
<1>2. ASSUME NEW n \in Messages PROVE StillRecalls(p, n)
  BY <1>1 DEF StillRecalls, Consent, Recalls, SameLeads
<1> QED
  BY <1>2 DEF Holds, Consent, SameLeads, Sending

\* The leads a session has once it has looked up the lead of a row.
LEMMA LookUp ==
  ASSUME TypeOK, Consent, NEW p \in Processors, NEW m \in Messages
  PROVE  /\ Lead(p, m).loaded \cap optedOut[p] \cap Lead(p, m).consented = {}
         /\ Lead(p, m).loaded \cap barred[p] \subseteq Lead(p, m).suppressed
         /\ LeadOf[m] \in Lead(p, m).loaded
<1> DEFINE u == Lead(p, m)
<1>1. sess[p] \in Session
  BY DEF TypeOK
<1>2. CASE LeadOf[m] \in sess[p].loaded
  BY <1>2 DEF Lead, LoadLead, Consent, Recalls
<1>3. CASE LeadOf[m] \notin sess[p].loaded
  <2>1. /\ u.loaded = {LeadOf[m]} /\ u.consented = {LeadOf[m]} \cap consented
        /\ u.suppressed = {LeadOf[m]} \cap suppressed
    BY <1>1, <1>3 DEF Lead, LoadLead, Session
  <2>2. optedOut[p] \cap consented = {} /\ barred[p] \subseteq suppressed
    BY DEF Consent
  <2> HIDE DEF u
  <2>3. /\ u.loaded \cap optedOut[p] \cap u.consented = {}
        /\ u.loaded \cap barred[p] \subseteq u.suppressed
        /\ LeadOf[m] \in u.loaded
    BY <2>1, <2>2
  <2> QED
    BY <2>3 DEF u
<1> QED
  BY <1>2, <1>3

LEMMA VisitHolds ==
  ASSUME TypeOK, Consent, NEW p \in Processors, NEW m \in Messages, VisitRow(p, m)
  PROVE  Holds(p)
<1> USE LeadOfAssumption
<1> DEFINE u == Lead(p, m)
<1>1. /\ sess \in [Processors -> Session] /\ sess[p] \in Session
      /\ row \in [Messages -> Row] /\ row' = row /\ sess[p].pc = "scan"
  BY DEF TypeOK, VisitRow, SkipBackoff, Withhold, HoldForQuota, BeginSend, At
<1>2. u \in Session /\ SameWork(u, sess[p])
  BY <1>1, LoadLeadWork DEF Lead
<1>3. /\ u.loaded \cap optedOut[p] \cap u.consented = {}
      /\ u.loaded \cap barred[p] \subseteq u.suppressed
      /\ LeadOf[m] \in u.loaded
  BY LookUp
<1>u. u = Lead(p, m)
  OBVIOUS
<1> HIDE DEF u
<1>4. CASE SkipBackoff(p, m)
  <2>1. sess'[p].pc = "scan" /\ SameLeads(sess'[p], sess[p])
    BY <1>4, <1>1 DEF SkipBackoff, Session, SameLeads
  <2> QED
    BY <2>1, <1>1, UntouchedHolds
<1>5. ASSUME sess'[p].pc = "scan", SameLeads(sess'[p], u) PROVE Holds(p)
  BY <1>5, <1>1, <1>3 DEF Holds, StillRecalls, SameLeads, Sending
<1>6. CASE Withhold(p, m)
  <2>1. sess'[p].pc = u.pc /\ SameLeads(sess'[p], u)
    BY <1>6, <1>1, <1>2 DEF Withhold, Session, SameLeads, u
  <2> QED
    BY <2>1, <1>1, <1>2, <1>5 DEF SameWork
<1>7. CASE HoldForQuota(p, m)
  <2>1. sess'[p].pc = u.pc /\ SameLeads(sess'[p], u)
    BY <1>7, <1>1, <1>2 DEF HoldForQuota, Session, SameLeads, u
  <2> QED
    BY <2>1, <1>1, <1>2, <1>5 DEF SameWork
<1>8. CASE BeginSend(p, m)
  <2>1. /\ First(m, sess[p].todo) /\ Deliverable(u, m)
        /\ sess'[p] = [u EXCEPT !.pc = "send", !.posts = 0, !.processed = u.processed + 1,
                                !.written = u.written \cup (Dirty(u) \cup {m})]
    BY <1>8, <1>1, <1>u DEF BeginSend, At
  <2>2. sess'[p].todo = sess[p].todo /\ sess'[p].pc = "send" /\ SameLeads(sess'[p], u)
    BY <2>1, <1>2 DEF Session, SameWork, SameLeads
  <2>3. \A n \in Messages : Sending(p, n)' => First(n, sess[p].todo)
    BY <2>2, <1>1 DEF Sending, First, Before
  <2>4. \A n \in Messages : Sending(p, n)' => n = m
    BY <2>1, <2>3, <1>1, FirstUnique DEF Session
  <2>5. /\ LeadOf[m] \notin barred[p]
        /\ Priority[m] > 0 => LeadOf[m] \notin optedOut[p]
    <3>1. LeadOf[m] \notin u.suppressed /\ (Priority[m] = 0 \/ LeadOf[m] \in u.consented)
      BY <2>1 DEF Deliverable
    <3> QED
      BY <3>1, <1>3
  <2> QED
    BY <2>2, <2>4, <2>5, <1>1, <1>3 DEF Holds, StillRecalls, SameLeads
<1> QED
  BY <1>4, <1>6, <1>7, <1>8 DEF VisitRow

LEMMA CallHolds ==
  ASSUME TypeOK, Consent, NEW p \in Processors, NEW m \in Messages, ProviderCall(p, m)
  PROVE  Holds(p)
<1>1. /\ sess \in [Processors -> Session] /\ sess[p] \in Session /\ row' = row
      /\ sess[p].pc = "send"
  BY DEF TypeOK, ProviderCall, Accepted, AnswerLost, Unavailable, Refused, DisabledSend,
         Sending, providerVars
<1>2. \A r \in BOOLEAN : /\ Failure(sess[p], m, r).pc = "scan"
                         /\ SameLeads(Failure(sess[p], m, r), sess[p])
  BY <1>1 DEF Failure, Session, SameLeads
<1>3. \A id : /\ Success(sess[p], m, id).pc = "scan"
              /\ SameLeads(Success(sess[p], m, id), sess[p])
  BY <1>1 DEF Success, Session, SameLeads
<1>4. \/ \E id : sess'[p] = Success(sess[p], m, id)
      \/ \E r \in BOOLEAN : sess'[p] = Failure(sess[p], m, r)
      \/ sess'[p] = [sess[p] EXCEPT !.posts = @ + 1]
  BY <1>1 DEF ProviderCall, Accepted, AnswerLost, Unavailable, Refused, DisabledSend, NoAnswer
<1>5. CASE sess'[p].pc = "scan" /\ SameLeads(sess'[p], sess[p])
  BY <1>5, <1>1, UntouchedHolds
<1>6. CASE sess'[p] = [sess[p] EXCEPT !.posts = @ + 1]
  <2>1. /\ sess'[p].pc = sess[p].pc /\ sess'[p].todo = sess[p].todo
        /\ SameLeads(sess'[p], sess[p])
    BY <1>6, <1>1 DEF Session, SameLeads
  <2>2. \A n \in Messages : First(n, sess[p].todo)' => First(n, sess[p].todo)
    BY <2>1, <1>1 DEF First, Before
  <2> QED
    BY <2>1, <2>2, UntouchedHolds
<1> QED
  BY <1>2, <1>3, <1>4, <1>5, <1>6

LEMMA EverySessionHolds ==
  ASSUME TypeInv, Locks, Consent, [Next]_vars, NEW p \in Processors
  PROVE  Holds(p)
<1>0. /\ TypeOK /\ sess \in [Processors -> Session] /\ sess[p] \in Session
      /\ row \in [Messages -> Row] /\ sess[p].todo \in SUBSET Messages
  BY DEF TypeInv, TypeOK, Session
<1>a. NoSession.pc = "idle" /\ NoSession.loaded = {} /\ NoSession.consented = {}
  BY DEF NoSession
<1>b. ASSUME sess'[p] = sess[p], \A n \in sess[p].todo : row'[n].queuedAt = row[n].queuedAt
      PROVE  Holds(p)
  <2>1. \A n \in Messages : First(n, sess[p].todo)' => First(n, sess[p].todo)
    BY <1>b, <1>0 DEF First, Before
  <2> QED
    BY <1>b, <2>1, UntouchedHolds DEF SameLeads
<1>c. ASSUME sess'[p] = NoSession PROVE Holds(p)
  BY <1>c, <1>a DEF Holds, StillRecalls, Sending
<1>1. CASE UNCHANGED <<row, sess>>
  BY <1>1, <1>b
<1>2. ASSUME NEW m \in Messages, Enqueue(m) PROVE Holds(p)
  <2>1. \A n \in Messages : row[n].status # "none" => row'[n] = row[n]
    BY <1>2, <1>0 DEF Enqueue
  <2>2. \A n \in sess[p].todo : row'[n].queuedAt = row[n].queuedAt
    BY <2>1, <1>0 DEF Locks
  <2>3. sess'[p] = sess[p]
    BY <1>2 DEF Enqueue
  <2> QED
    BY <2>2, <2>3, <1>b
<1>3. ASSUME NewDay PROVE Holds(p)
  <2>1. row' = row /\ sess'[p] = [sess[p] EXCEPT !.sentToday = {}]
    BY <1>3 DEF NewDay
  <2>2. /\ sess'[p].todo = sess[p].todo /\ sess'[p].pc = sess[p].pc
        /\ SameLeads(sess'[p], sess[p])
    BY <2>1, <1>0 DEF Session, SameLeads
  <2>3. \A n \in Messages : First(n, sess[p].todo)' => First(n, sess[p].todo)
    BY <2>1, <2>2 DEF First, Before
  <2> QED
    BY <2>2, <2>3, UntouchedHolds
<1>4. ASSUME NEW q \in Processors, PassStep(q) \/ Abort(q), row' = row, q # p PROVE Holds(p)
  <2>1. sess'[p] = sess[p]
    BY <1>4, <1>0 DEF PassStep, StartPass, VisitRow, SkipBackoff, Withhold, HoldForQuota,
          BeginSend, ProviderCall, Accepted, AnswerLost, Unavailable, Refused, DisabledSend,
          FinishPass, Abort
  <2> QED
    BY <2>1, <1>4, <1>b
<1>5. ASSUME StartPass(p) PROVE Holds(p)
  <2>1. sess'[p].pc = "scan" /\ sess'[p].loaded = {}
    BY <1>5, <1>0 DEF StartPass, NoSession
  <2> QED
    BY <2>1 DEF Holds, StillRecalls, Sending
<1>6. ASSUME NEW q \in Processors, FinishPass(q) PROVE Holds(p)
  <2>1. \A m \in Messages : row'[m].queuedAt = row[m].queuedAt
    <3> SUFFICES ASSUME NEW m \in Messages PROVE row'[m].queuedAt = row[m].queuedAt
      OBVIOUS
    <3>1. row'[m] = Commit(row[m], sess[q], m) /\ row[m] \in Row
      BY <1>6, <1>0 DEF FinishPass
    <3> QED
      BY <3>1 DEF Commit, Row
  <2>2. sess'[p] = NoSession \/ sess'[p] = sess[p]
    BY <1>6, <1>0 DEF FinishPass
  <2> QED
    BY <2>1, <2>2, <1>0, <1>b, <1>c
<1>7. ASSUME NEW q \in Processors, Abort(q) PROVE Holds(p)
  <2>1. row' = row /\ (sess'[p] = NoSession \/ sess'[p] = sess[p])
    BY <1>7, <1>0 DEF Abort
  <2> QED
    BY <2>1, <1>b, <1>c
<1>8. ASSUME NEW q \in Processors, StartPass(q) PROVE Holds(p)
  BY <1>8, <1>4, <1>5 DEF PassStep, StartPass
<1>9. ASSUME NEW q \in Processors, NEW m \in Messages, VisitRow(q, m) PROVE Holds(p)
  <2>1. row' = row
    BY <1>9 DEF VisitRow, SkipBackoff, Withhold, HoldForQuota, BeginSend
  <2> QED
    BY <2>1, <1>9, <1>4, <1>0, VisitHolds DEF PassStep
<1>10. ASSUME NEW q \in Processors, NEW m \in Messages, ProviderCall(q, m) PROVE Holds(p)
  <2>1. row' = row
    BY <1>10 DEF ProviderCall, Accepted, AnswerLost, Unavailable, Refused, DisabledSend
  <2> QED
    BY <2>1, <1>10, <1>4, <1>0, CallHolds DEF PassStep
<1> QED
  BY <1>1, <1>2, <1>3, <1>6, <1>7, <1>8, <1>9, <1>10
  DEF Next, QueueStep, LeadStep, PassStep, vars, leadVars,
      Join, Rejoin, Unsubscribe, Suppress, BackoffOver, EnableMail

LEMMA ConsentStep ==
  ASSUME TypeInv, Locks, Consent, CNext \/ UNCHANGED <<vars, history>>
  PROVE  Consent'
<1>1. [Next]_vars
  BY DEF CNext
<1>2. SUFFICES ASSUME NEW p \in Processors
      PROVE  /\ (optedOut[p] \cap consented = {} /\ barred[p] \subseteq suppressed)'
             /\ sess'[p].pc = "idle" => sess'[p].loaded = {}
             /\ \A n \in Messages : Recalls(p, n)'
  BY DEF Consent
<1>3. CASE UNCHANGED <<vars, history>>
  BY <1>3 DEF vars, leadVars, history, Consent, Recalls, Sending, First, Before
<1>4. CASE CNext
  <2>1. /\ optedOut'[p] = Since(p, optedOut[p], Leads \ consented')
        /\ barred'[p] = Since(p, barred[p], suppressed')
    BY <1>4 DEF CNext, Remember
  <2>2. optedOut'[p] \cap consented' = {} /\ barred'[p] \subseteq suppressed'
    BY <2>1 DEF Since
  <2>3. Holds(p)
    BY <1>1, EverySessionHolds
  <2>4. CASE sess[p].pc = "idle"
    BY <2>2, <2>3, <2>4 DEF Holds, Recalls, Sending
  <2>5. CASE sess[p].pc # "idle"
    <3>1. optedOut'[p] \subseteq optedOut[p] /\ barred'[p] \subseteq barred[p]
      BY <2>1, <2>5 DEF Since
    <3>2. \A n \in Messages : Recalls(p, n)'
      BY <2>3, <3>1 DEF Holds, StillRecalls, Recalls
    <3> QED
      BY <2>2, <2>3, <3>2 DEF Holds
  <2> QED
    BY <2>4, <2>5
<1> QED
  BY <1>3, <1>4

LEMMA InitConsent == CInit => Consent
BY DEF CInit, Init, Consent, Recalls, Sending, NoSession

\* Whoever has been out since before a pass began gets no alert from it, and
\* whoever was suppressed no mail, though the pass reads each lead once and
\* never again (email_queue.py:86-95), with any number of passes at once.
THEOREM OptOutBinds == CSpec => []OptOutHolds
<1>1. CInit => TypeInv /\ Locks /\ Consent
  BY InitType, InitLocks, InitConsent DEF CInit
<1>2. TypeInv /\ Locks /\ Consent /\ [CNext]_<<vars, history>> => (TypeInv /\ Locks /\ Consent)'
  <2>1. [CNext]_<<vars, history>> => [Next]_vars
    BY DEF CNext
  <2> QED
    BY <2>1, TypeStep, LocksStep, ConsentStep
<1>3. Consent => OptOutHolds
  BY DEF Consent, Recalls, OptOutHolds
<1> QED
  BY <1>1, <1>2, <1>3, PTL DEF CSpec

-----------------------------------------------------------------------------
(* One processor.                                                          *)

\* With nobody else writing rows, what a pass has selected and what it has
\* decided are about rows that are still queued, and each row's mails are
\* accounted for.
SoloRow(w, m) ==
  /\ sess[w].pc = "idle" => m \notin sess[w].todo /\ sess[w].result[m] = "none"
  /\ m \in sess[w].todo => row[m].status = "QUEUED" /\ sess[w].result[m] = "none"
  /\ sess[w].result[m] # "none" => row[m].status = "QUEUED"
  /\ row[m].status \in {"none", "QUEUED"} => row[m].mailId = 0
  /\ mails[m] = lost[m] + (IF row[m].mailId # 0 THEN 1 ELSE 0)
                        + (IF sess[w].result[m] = "SENT" THEN 1 ELSE 0)

Solo(w) == \A m \in Messages : SoloRow(w, m)

SoloInv(w) == TypeInv /\ Receipts /\ Solo(w)

LEMMA InitSolo == ASSUME NEW w \in Processors, Init PROVE Solo(w)
BY DEF Init, Solo, SoloRow, NoRow, NoSession

LEMMA UnsentSolo ==
  ASSUME NEW w, Processors = {w}, TypeOK, Solo(w), NEW m \in sess[w].todo, NEW s,
         sess' = [sess EXCEPT ![w] = s], Unsent(s, sess[w], m), row' = row,
         mails' \in [Messages -> Nat], lost' \in [Messages -> Nat],
         \A n \in Messages : mails'[n] + lost[n] = mails[n] + lost'[n]
  PROVE  Solo(w)'
<1>1. sess'[w] = s /\ mails \in [Messages -> Nat] /\ lost \in [Messages -> Nat]
  BY DEF TypeOK
<1> SUFFICES ASSUME NEW n \in Messages PROVE SoloRow(w, n)'
  BY DEF Solo
<1>2. SoloRow(w, n) /\ (n = m => sess[w].result[n] = "none" /\ row[n].status = "QUEUED")
  BY DEF Solo, SoloRow
<1>3. s.result[n] = "SENT" <=> sess[w].result[n] = "SENT"
  BY <1>2 DEF Unsent
<1>4. mails'[n] = lost'[n] + (IF row[n].mailId # 0 THEN 1 ELSE 0)
                           + (IF s.result[n] = "SENT" THEN 1 ELSE 0)
  BY <1>1, <1>2, <1>3 DEF SoloRow
<1>5. /\ s.pc # "idle"
      /\ n \in s.todo => row[n].status = "QUEUED" /\ s.result[n] = "none"
      /\ s.result[n] # "none" => row[n].status = "QUEUED"
  BY <1>2 DEF SoloRow, Unsent
<1> QED
  BY <1>1, <1>2, <1>4, <1>5 DEF SoloRow

LEMMA SoloStep ==
  ASSUME NEW w, Processors = {w}, SoloInv(w), [Next]_vars
  PROVE  Solo(w)'
<1>0. /\ TypeOK /\ Solo(w) /\ row \in [Messages -> Row] /\ mails \in [Messages -> Nat]
      /\ lost \in [Messages -> Nat] /\ sess[w] \in Session
      /\ sess \in [Processors -> Session]
  BY DEF SoloInv, TypeInv, TypeOK
<1>a. \A m \in Messages : NoSession.result[m] = "none" /\ m \notin NoSession.todo
  BY DEF NoSession
<1>1. CASE UNCHANGED <<row, sess, mails, lost>>
  BY <1>1, <1>0 DEF Solo, SoloRow
<1>2. ASSUME NEW m \in Messages, Enqueue(m) PROVE Solo(w)'
  <2>1. /\ row[m].status = "none" /\ row'[m].status = "QUEUED" /\ row'[m].mailId = 0
        /\ \A n \in Messages \ {m} : row'[n] = row[n]
        /\ UNCHANGED <<sess, mails, lost>>
    BY <1>2, <1>0 DEF Enqueue, NoRow, providerVars
  <2> QED
    BY <2>1, <1>0 DEF Solo, SoloRow
<1>3. ASSUME NewDay PROVE Solo(w)'
  <2>1. /\ UNCHANGED <<row, mails, lost>>
        /\ sess'[w] = [sess[w] EXCEPT !.sentToday = {}]
    BY <1>3 DEF NewDay, providerVars
  <2>2. /\ sess'[w].result = sess[w].result /\ sess'[w].todo = sess[w].todo
        /\ sess'[w].pc = sess[w].pc
    BY <2>1, <1>0 DEF Session
  <2> QED
    BY <2>1, <2>2, <1>0 DEF Solo, SoloRow
<1>4. ASSUME StartPass(w) PROVE Solo(w)'
  <2>1. PICK W \in SUBSET Messages :
          /\ IsWindow(W)
          /\ sess' = [sess EXCEPT ![w] =
            [NoSession EXCEPT !.pc = "scan", !.todo = W, !.hot = W \cap cooling,
               !.seen = [m \in Messages |-> row[m].attempts],
               !.sentCount = CountedToday]]
    BY <1>4 DEF StartPass
  <2>2. /\ sess'[w].result = NoSession.result /\ sess'[w].todo = W
        /\ sess'[w].pc = "scan"
    BY <2>1, <1>0 DEF NoSession
  <2>3. sess[w].pc = "idle" /\ UNCHANGED <<row, mails, lost>>
    BY <1>4 DEF StartPass, providerVars
  <2>4. \A m \in W : row[m].status = "QUEUED"
    BY <2>1 DEF IsWindow, Queued
  <2> QED
    BY <2>2, <2>3, <2>4, <1>0, <1>a DEF Solo, SoloRow
<1>5. ASSUME NEW m \in Messages, VisitRow(w, m) PROVE Solo(w)'
  <2>1. m \in sess[w].todo
    BY <1>5 DEF VisitRow, SkipBackoff, Withhold, HoldForQuota, BeginSend, At, First
  <2>2. PICK s : sess' = [sess EXCEPT ![w] = s] /\ Unsent(s, sess[w], m)
    BY <1>5, <1>0, VisitSendsNothing
  <2>3. UNCHANGED <<row, mails, lost>>
    BY <1>5, <1>0, VisitSendsNothing DEF providerVars
  <2> QED
    BY <2>1, <2>2, <2>3, <1>0, UnsentSolo
<1>6. ASSUME NEW m \in Messages, ProviderCall(w, m), ~Accepted(w, m) PROVE Solo(w)'
  <2>1. m \in sess[w].todo
    BY <1>6 DEF ProviderCall, AnswerLost, Unavailable, Refused, DisabledSend, Sending, First
  <2>2. PICK s : sess' = [sess EXCEPT ![w] = s] /\ Unsent(s, sess[w], m)
    BY <1>6, <1>0, FailedCallSendsNothing
  <2>3. /\ row' = row
        /\ \/ UNCHANGED <<mails, lost>>
           \/ mails' = [mails EXCEPT ![m] = @ + 1] /\ lost' = [lost EXCEPT ![m] = @ + 1]
    BY <1>6 DEF ProviderCall, AnswerLost, Unavailable, Refused, DisabledSend, providerVars
  <2>4. /\ mails' \in [Messages -> Nat] /\ lost' \in [Messages -> Nat]
        /\ \A n \in Messages : mails'[n] + lost[n] = mails[n] + lost'[n]
    BY <2>3, <1>0
  <2> QED
    BY <2>1, <2>2, <2>3, <2>4, <1>0, UnsentSolo
<1>7. ASSUME NEW m \in Messages, Accepted(w, m) PROVE Solo(w)'
  <2>1. m \in sess[w].todo /\ UNCHANGED <<row, lost>> /\ mails' = [mails EXCEPT ![m] = @ + 1]
    BY <1>7 DEF Accepted, Sending, First
  <2>2. sess'[w] = Success(sess[w], m, mails[m] + 1)
    BY <1>7, <1>0 DEF Accepted
  <2>3. /\ sess'[w].pc = "scan" /\ sess'[w].todo = sess[w].todo \ {m}
        /\ sess'[w].result = [sess[w].result EXCEPT ![m] = "SENT"]
    BY <2>2, <1>0 DEF Success, Session
  <2>4. sess[w].result \in [Messages -> Results]
    BY <1>0 DEF Session
  <2>5. SoloRow(w, m)'
    <3>1. SoloRow(w, m) /\ mails'[m] = mails[m] + 1 /\ sess'[w].result[m] = "SENT"
      BY <2>1, <2>3, <2>4, <1>0 DEF Solo
    <3> QED
      BY <3>1, <2>1, <2>3, <1>0 DEF SoloRow
  <2>6. ASSUME NEW n \in Messages, n # m PROVE SoloRow(w, n)'
    <3>1. SoloRow(w, n) /\ mails'[n] = mails[n] /\ sess'[w].result[n] = sess[w].result[n]
      BY <2>1, <2>3, <2>4, <2>6, <1>0 DEF Solo
    <3> QED
      BY <3>1, <2>1, <2>3, <1>0 DEF SoloRow
  <2> QED
    BY <2>5, <2>6 DEF Solo
<1>8. ASSUME FinishPass(w) PROVE Solo(w)'
  <2>1. sess'[w] = NoSession /\ UNCHANGED <<mails, lost>>
    BY <1>8, <1>0 DEF FinishPass, providerVars
  <2> SUFFICES ASSUME NEW m \in Messages PROVE SoloRow(w, m)'
    BY DEF Solo
  <2>2. /\ row'[m] = Commit(row[m], sess[w], m) /\ row[m] \in Row
        /\ SoloRow(w, m) /\ mails[m] \in Nat /\ lost[m] \in Nat
        /\ sess[w].result[m] = "SENT" => sess[w].mailId[m] # 0
    BY <1>8, <1>0 DEF FinishPass, Solo, SoloInv, Receipts, RealSession
  <2>3. CASE sess[w].result[m] = "none"
    BY <2>1, <2>2, <2>3, <1>a DEF Commit, SoloRow
  <2>4. CASE sess[w].result[m] # "none"
    <3>1. /\ row'[m].status = sess[w].result[m]
          /\ row'[m].mailId = IF sess[w].result[m] = "SENT" THEN sess[w].mailId[m] ELSE row[m].mailId
      BY <2>2, <2>4 DEF Commit, Row
    <3>2. row[m].status = "QUEUED" /\ row[m].mailId = 0
      BY <2>2, <2>4 DEF SoloRow
    <3> QED
      BY <3>1, <3>2, <2>1, <2>2, <1>a DEF SoloRow
  <2> QED
    BY <2>3, <2>4
<1>9. ASSUME Abort(w) PROVE Solo(w)'
  <2>1. sess'[w] = NoSession /\ UNCHANGED <<row, mails>>
    BY <1>9, <1>0 DEF Abort
  <2> SUFFICES ASSUME NEW m \in Messages PROVE SoloRow(w, m)'
    BY DEF Solo
  <2>2. /\ lost'[m] = lost[m] + (IF sess[w].result[m] = "SENT" THEN 1 ELSE 0)
        /\ SoloRow(w, m) /\ mails[m] \in Nat /\ lost[m] \in Nat
    BY <1>9, <1>0 DEF Abort, Solo
  <2> QED
    BY <2>1, <2>2, <1>a DEF SoloRow
<1> QED
  BY <1>1, <1>2, <1>3, <1>4, <1>5, <1>6, <1>7, <1>8, <1>9
  DEF Next, QueueStep, LeadStep, PassStep, ProviderCall, vars, leadVars, providerVars,
      Join, Rejoin, Unsubscribe, Suppress, BackoffOver, EnableMail

LEMMA SoloInvariant ==
  ASSUME NEW w, Processors = {w}
  PROVE  Spec => []SoloInv(w)
<1>1. Init => SoloInv(w)
  BY InitType, InitReceipts, InitSolo DEF SoloInv
<1>2. SoloInv(w) /\ [Next]_vars => SoloInv(w)'
  BY TypeStep, ReceiptsStep, SoloStep DEF SoloInv
<1> QED
  BY <1>1, <1>2, PTL DEF Spec

\* With a single processor, every mail beyond the one its row records was lost
\* to a timed-out answer or a rolled-back pass (email_queue.py:115-133).
THEOREM MailsAccounted ==
  ASSUME NEW w, Processors = {w}
  PROVE  Spec => []MailsAccountedFor
<1>1. SoloInv(w) => MailsAccountedFor
  BY DEF SoloInv, Solo, SoloRow, MailsAccountedFor
<1> QED
  BY <1>1, SoloInvariant, PTL
-----------------------------------------------------------------------------
(* The queue with one processor implements EmailDelivery.                  *)

\* The six moves of EmailDelivery, told of rows instead of outcomes.
Unmoved(m) == mails'[m] = mails[m] /\ lost'[m] = lost[m]

Move(m) ==
  \/ row[m].status = "none" /\ row'[m].status = "QUEUED" /\ Unmoved(m)
  \/ /\ row[m].status = "QUEUED" /\ row'[m].status = "QUEUED"
     /\ mails[m] = lost[m] /\ mails'[m] = mails[m] + 1
     /\ lost'[m] \in {lost[m], lost[m] + 1}
  \/ /\ row[m].status = "QUEUED" /\ row'[m].status = "QUEUED"
     /\ mails[m] = lost[m] + 1 /\ mails'[m] = mails[m] /\ lost'[m] = lost[m] + 1
  \/ /\ row[m].status = "QUEUED" /\ row'[m].status = "SENT"
     /\ mails[m] = lost[m] + 1 /\ Unmoved(m)
  \/ /\ row[m].status = "QUEUED"
     /\ row'[m].status \in {"FAILED", "SUPPRESSED", "UNSUBSCRIBED"}
     /\ mails[m] = lost[m] /\ Unmoved(m)
  \/ row'[m].status = row[m].status /\ Unmoved(m)

LEMMA MovesRefine ==
  ASSUME TypeOK, TypeOK', \A m \in Messages : Move(m)
  PROVE  Delivery!Next
<1> DEFINE O == [m \in Messages |-> Outcome(row[m].status)]
           O1 == [m \in Messages |-> Outcome(row'[m].status)]
<1>1. O1 \in [Messages -> Delivery!Outcomes]
  BY DEF Outcome, Delivery!Outcomes
<1>2. mails' \in [Messages -> Nat] /\ lost' \in [Messages -> Nat]
  BY DEF TypeOK
<1>3. ASSUME NEW m \in Messages
      PROVE  \/ Delivery!Submit(m) \/ Delivery!Hand(m) \/ Delivery!Forget(m)
             \/ Delivery!Record(m) \/ Delivery!GiveUp(m) \/ Delivery!Same(m)
  <2>1. Move(m)
    OBVIOUS
  <2> QED
    BY <2>1 DEF Move, Unmoved, Outcome, Delivery!Submit, Delivery!Hand, Delivery!Forget,
      Delivery!Record, Delivery!GiveUp, Delivery!Same, Delivery!SameMails,
      Delivery!InDoubt, Delivery!Clear
<1> QED
  BY <1>1, <1>2, <1>3 DEF Delivery!Next

LEMMA InitRefines == Init => Delivery!Init
BY DEF Init, Delivery!Init, Outcome, NoRow

LEMMA StepRefines ==
  ASSUME NEW w, Processors = {w}, SoloInv(w), SoloInv(w)', [Next]_vars
  PROVE  [Delivery!Next]_Delivery!vars
<1>0. /\ TypeOK /\ TypeOK' /\ Solo(w) /\ row \in [Messages -> Row]
      /\ mails \in [Messages -> Nat] /\ lost \in [Messages -> Nat]
      /\ sess[w] \in Session
  BY DEF SoloInv, TypeInv, TypeOK
<1>1. CASE UNCHANGED <<row, mails, lost>>
  BY <1>1 DEF Delivery!vars
<1>2. ASSUME NEW m \in Messages, Enqueue(m) PROVE Delivery!Next
  <2>1. /\ row[m].status = "none" /\ row'[m].status = "QUEUED"
        /\ \A n \in Messages \ {m} : row'[n] = row[n]
        /\ UNCHANGED <<mails, lost>>
    BY <1>2, <1>0 DEF Enqueue, NoRow, providerVars
  <2>2. \A n \in Messages : Move(n)
    BY <2>1 DEF Move, Unmoved
  <2> QED
    BY <2>2, <1>0, MovesRefine
<1>3. ASSUME NEW m \in Messages, Accepted(w, m) \/ AnswerLost(w, m) PROVE Delivery!Next
  <2>1. /\ m \in sess[w].todo /\ row' = row /\ mails' = [mails EXCEPT ![m] = @ + 1]
        /\ lost' = lost \/ lost' = [lost EXCEPT ![m] = @ + 1]
    BY <1>3 DEF Accepted, AnswerLost, Sending, First
  <2>2. row[m].status = "QUEUED" /\ mails[m] = lost[m]
    <3>1. SoloRow(w, m) /\ mails[m] \in Nat /\ lost[m] \in Nat
      BY <1>0 DEF Solo
    <3> QED
      BY <2>1, <3>1 DEF SoloRow
  <2>3. \A n \in Messages : Move(n)
    <3> TAKE n \in Messages
    <3>1. CASE n = m
      BY <3>1, <2>1, <2>2, <1>0 DEF Move
    <3>2. CASE n # m
      BY <3>2, <2>1, <1>0 DEF Move, Unmoved
    <3> QED
      BY <3>1, <3>2
  <2> QED
    BY <2>3, <1>0, MovesRefine
<1>4. ASSUME FinishPass(w) PROVE Delivery!Next
  <2>1. ASSUME NEW m \in Messages PROVE Move(m)
    <3>1. /\ row'[m] = Commit(row[m], sess[w], m) /\ row[m] \in Row /\ Unmoved(m)
          /\ SoloRow(w, m) /\ mails[m] \in Nat /\ lost[m] \in Nat
          /\ sess[w].result[m] \in Results
      BY <1>4, <1>0 DEF FinishPass, Solo, providerVars, Unmoved, Session
    <3>2. CASE sess[w].result[m] = "none"
      BY <3>1, <3>2 DEF Commit, Move
    <3>3. CASE sess[w].result[m] # "none"
      <4>1. row'[m].status = sess[w].result[m]
        BY <3>1, <3>3 DEF Commit, Row
      <4>2. /\ row[m].status = "QUEUED"
            /\ mails[m] = lost[m] + (IF sess[w].result[m] = "SENT" THEN 1 ELSE 0)
        BY <3>1, <3>3 DEF SoloRow
      <4> QED
        BY <4>1, <4>2, <3>1, <3>3 DEF Move, Results
    <3> QED
      BY <3>2, <3>3
  <2> QED
    BY <2>1, <1>0, MovesRefine
<1>5. ASSUME Abort(w) PROVE Delivery!Next
  <2>1. ASSUME NEW m \in Messages PROVE Move(m)
    <3>1. /\ row' = row /\ mails' = mails
          /\ lost'[m] = lost[m] + (IF sess[w].result[m] = "SENT" THEN 1 ELSE 0)
          /\ SoloRow(w, m) /\ mails[m] \in Nat /\ lost[m] \in Nat
      BY <1>5, <1>0 DEF Abort, Solo
    <3>2. CASE sess[w].result[m] = "SENT"
      BY <3>1, <3>2 DEF SoloRow, Move
    <3>3. CASE sess[w].result[m] # "SENT"
      BY <3>1, <3>3 DEF Move, Unmoved
    <3> QED
      BY <3>2, <3>3
  <2> QED
    BY <2>1, <1>0, MovesRefine
<1>6. ASSUME \/ LeadStep \/ NewDay \/ EnableMail \/ StartPass(w)
             \/ \E l \in Leads : Suppress(l)
             \/ \E m \in Messages : BackoffOver(m)
      PROVE  UNCHANGED <<row, mails, lost>>
  BY <1>6 DEF LeadStep, Join, Rejoin, Unsubscribe, Suppress, BackoffOver, NewDay,
      EnableMail, StartPass, providerVars
<1>7. ASSUME NEW m \in Messages, VisitRow(w, m) PROVE UNCHANGED <<row, mails, lost>>
  BY <1>7 DEF VisitRow, SkipBackoff, Withhold, HoldForQuota, BeginSend, providerVars
<1>8. ASSUME NEW m \in Messages, Unavailable(w, m) \/ Refused(w, m) \/ DisabledSend(w, m)
      PROVE  UNCHANGED <<row, mails, lost>>
  BY <1>8 DEF Unavailable, Refused, DisabledSend, providerVars
<1>9. CASE UNCHANGED vars
  BY <1>9, <1>1 DEF vars, providerVars
<1>10. ASSUME NEW m \in Messages, ProviderCall(w, m)
       PROVE  Delivery!Next \/ UNCHANGED <<row, mails, lost>>
  BY <1>10, <1>3, <1>8 DEF ProviderCall
<1>11. ASSUME PassStep(w) \/ Abort(w) PROVE Delivery!Next \/ UNCHANGED <<row, mails, lost>>
  BY <1>11, <1>4, <1>5, <1>6, <1>7, <1>10 DEF PassStep
<1>12. CASE Next
  <2>1. Delivery!Next \/ UNCHANGED <<row, mails, lost>>
    BY <1>12, <1>2, <1>6, <1>11 DEF Next, QueueStep
  <2> QED
    BY <2>1, <1>1
<1> QED
  BY <1>9, <1>12

\* With a single processor, the queue implements EmailDelivery: a settled row
\* is never reopened or mailed again (email_queue.py:80-133).
THEOREM ImplementsDelivery ==
  ASSUME NEW w, Processors = {w}
  PROVE  Spec => DeliverySpec
<1>1. Init => Delivery!Init
  BY InitRefines
<1>2. SoloInv(w) /\ SoloInv(w)' /\ [Next]_vars => [Delivery!Next]_Delivery!vars
  BY StepRefines
<1>3. Spec => []SoloInv(w)
  BY SoloInvariant
<1> QED
  BY <1>1, <1>2, <1>3, PTL DEF Spec, DeliverySpec, Delivery!Spec
-----------------------------------------------------------------------------
(* The daily limit.                                                        *)

\* The rows recorded for the current day, and those among them that count.
SentBy(w) == sentToday \cup sess[w].sentToday
Charged(w) == {m \in SentBy(w) : Priority[m] > 0}

\* A provider call under way was allowed by the limit.
Allowed(s) ==
  s.pc = "send" =>
    \A m \in s.todo : First(m, s.todo) /\ Priority[m] > 0 => s.sentCount < DailyLimit

\* The count a pass goes by covers every row recorded for the day, the ones it
\* has sent itself included, and midnight only makes it too high.
Quota(w) ==
  /\ \A m \in sentToday : row[m].status = "SENT"
  /\ \A m \in sess[w].sentToday : sess[w].result[m] = "SENT"
  /\ sess[w].pc = "idle" => sess[w].sentToday = {}
  /\ sess[w].pc # "idle" => Cardinality(SentBy(w)) <= sess[w].sentCount
  /\ Allowed(sess[w])
  /\ Cardinality(Charged(w)) <= DailyLimit

LEMMA SubsetSize ==
  ASSUME NEW S, NEW T, S \subseteq T, T \subseteq Messages
  PROVE  /\ Cardinality(S) \in Nat /\ Cardinality(T) \in Nat
         /\ Cardinality(S) <= Cardinality(T)
<1>1. IsFiniteSet(T)
  BY MessagesAssumption, FS_Subset
<1> QED
  BY <1>1, FS_Subset, FS_CardinalityType

LEMMA OneMore ==
  ASSUME NEW S, S \subseteq Messages, NEW m \in Messages
  PROVE  Cardinality(S \cup {m}) <= Cardinality(S) + 1
<1>1. IsFiniteSet(S)
  BY MessagesAssumption, FS_Subset
<1>2. Cardinality(S \cup {m}) = IF m \in S THEN Cardinality(S) ELSE Cardinality(S) + 1
  BY <1>1, FS_AddElement
<1>3. Cardinality(S) \in Nat
  BY <1>1, FS_CardinalityType
<1> QED
  BY <1>2, <1>3

LEMMA VisitAllowed ==
  ASSUME TypeOK, NEW p \in Processors, NEW m \in Messages, VisitRow(p, m)
  PROVE  Allowed(sess[p])' /\ row' = row
<1> USE LeadOfAssumption
<1> DEFINE u == Lead(p, m)
<1>1. sess \in [Processors -> Session] /\ sess[p] \in Session /\ row \in [Messages -> Row]
  BY DEF TypeOK
<1>2. u \in Session /\ SameWork(u, sess[p])
  BY <1>1, LoadLeadWork DEF Lead
<1>3. row' = row
  BY DEF VisitRow, SkipBackoff, Withhold, HoldForQuota, BeginSend
<1> HIDE DEF u
<1>4. CASE BeginSend(p, m)
  <2>1. /\ First(m, sess[p].todo) /\ ~QuotaSpent(u, m)
        /\ sess'[p] = [u EXCEPT !.pc = "send", !.posts = 0, !.processed = u.processed + 1,
                                !.written = u.written \cup (Dirty(u) \cup {m})]
    BY <1>4, <1>1 DEF BeginSend, At, u
  <2>2. sess'[p].todo = u.todo /\ sess'[p].sentCount = u.sentCount /\ u.todo = sess[p].todo
    BY <2>1, <1>2 DEF Session, SameWork
  <2>3. u.sentCount < DailyLimit \/ ~(Priority[m] > 0)
    BY <2>1, <1>2, NumberAssumption DEF QuotaSpent, Session
  <2>4. \A n \in sess[p].todo : First(n, sess[p].todo) => n = m
    BY <2>1, <1>1, FirstUnique DEF Session
  <2>5. \A n \in sess'[p].todo : First(n, sess[p].todo)' => First(n, sess[p].todo)
    BY <2>2, <1>3 DEF First, Before
  <2> QED
    BY <2>2, <2>3, <2>4, <2>5, <1>3 DEF Allowed
<1>5. CASE SkipBackoff(p, m) \/ Withhold(p, m) \/ HoldForQuota(p, m)
  <2>1. sess[p].pc = "scan" /\ u.pc = "scan"
    BY <1>5, <1>2 DEF SkipBackoff, Withhold, HoldForQuota, At, SameWork
  <2>2. CASE SkipBackoff(p, m)
    BY <2>1, <2>2, <1>1, <1>3 DEF SkipBackoff, Session, Allowed
  <2>3. CASE Withhold(p, m)
    BY <2>1, <2>3, <1>1, <1>2, <1>3 DEF Withhold, Session, Allowed, u
  <2>4. CASE HoldForQuota(p, m)
    BY <2>1, <2>4, <1>1, <1>2, <1>3 DEF HoldForQuota, Session, Allowed, u
  <2> QED
    BY <1>5, <2>2, <2>3, <2>4
<1> QED
  BY <1>3, <1>4, <1>5 DEF VisitRow

LEMMA FailedCallAllowed ==
  ASSUME TypeOK, NEW p \in Processors, NEW m \in Messages, Allowed(sess[p]),
         ProviderCall(p, m), ~Accepted(p, m)
  PROVE  Allowed(sess[p])'
<1>1. sess \in [Processors -> Session] /\ sess[p] \in Session
  BY DEF TypeOK
<1>2. row' = row
  BY DEF ProviderCall, AnswerLost, Unavailable, Refused, DisabledSend, providerVars
<1>3. \A r : Failure(sess[p], m, r).pc = "scan"
  BY <1>1 DEF Failure, Session
<1>4. \/ sess'[p].pc = "scan"
      \/ sess'[p] = [sess[p] EXCEPT !.posts = @ + 1]
  BY <1>1, <1>3 DEF ProviderCall, AnswerLost, Unavailable, Refused, DisabledSend, NoAnswer
<1>5. CASE sess'[p].pc = "scan"
  BY <1>5 DEF Allowed
<1>6. CASE sess'[p] = [sess[p] EXCEPT !.posts = @ + 1]
  <2>1. /\ sess'[p].pc = sess[p].pc /\ sess'[p].todo = sess[p].todo
        /\ sess'[p].sentCount = sess[p].sentCount
    BY <1>6, <1>1 DEF Session
  <2> QED
    BY <2>1, <1>2 DEF Allowed, First, Before
<1> QED
  BY <1>4, <1>5, <1>6

\* A step that records nothing for the day, and forgets nothing of the count.
LEMMA SameQuota ==
  ASSUME NEW w, Quota(w), Allowed(sess[w])',
         sentToday' = sentToday, sess'[w].sentToday = sess[w].sentToday,
         sess'[w].sentCount = sess[w].sentCount,
         sess'[w].pc = "idle" <=> sess[w].pc = "idle",
         \A m \in sentToday : row'[m].status = row[m].status,
         \A m \in sess[w].sentToday : sess'[w].result[m] = "SENT"
  PROVE  Quota(w)'
<1>1. SentBy(w)' = SentBy(w) /\ Charged(w)' = Charged(w)
  BY DEF SentBy, Charged
<1> QED
  BY <1>1 DEF Quota

LEMMA QuotaStep ==
  ASSUME NEW w, Processors = {w}, SoloInv(w), Quota(w), [Next]_vars
  PROVE  Quota(w)'
<1> USE NumberAssumption
<1>0. /\ TypeOK /\ Solo(w) /\ row \in [Messages -> Row] /\ sentToday \in SUBSET Messages
      /\ sess[w] \in Session /\ sess \in [Processors -> Session]
  BY DEF SoloInv, TypeInv, TypeOK
<1>a. SentBy(w) \subseteq Messages /\ Charged(w) \subseteq SentBy(w)
  BY <1>0 DEF SentBy, Charged, Session
<1>b. Allowed(NoSession)'
  BY DEF Allowed, NoSession
<1>1. CASE UNCHANGED <<row, sess, sentToday>>
  <2>1. Allowed(sess[w])' <=> Allowed(sess[w])
    BY <1>1 DEF Allowed, First, Before
  <2> QED
    BY <1>1, <2>1, SameQuota DEF Quota
<1>2. ASSUME NEW m \in Messages, Enqueue(m) PROVE Quota(w)'
  <2>1. /\ row[m].status = "none" /\ \A n \in Messages \ {m} : row'[n] = row[n]
        /\ UNCHANGED <<sess, sentToday>>
    BY <1>2, <1>0 DEF Enqueue
  <2>2. m \notin sess[w].todo /\ m \notin sentToday
    BY <2>1, <1>0 DEF Solo, SoloRow, Quota
  <2>3. Allowed(sess[w])'
    <3>1. sess[w].todo \subseteq Messages \ {m}
      BY <2>2, <1>0 DEF Session
    <3>2. \A n \in sess[w].todo : First(n, sess[w].todo)' => First(n, sess[w].todo)
      BY <2>1, <3>1 DEF First, Before
    <3> QED
      BY <2>1, <3>2 DEF Allowed, Quota
  <2> QED
    BY <2>1, <2>2, <2>3, <1>0, SameQuota DEF Quota
<1>3. ASSUME NewDay PROVE Quota(w)'
  <2>1. /\ row' = row /\ sentToday' = {}
        /\ sess'[w] = [sess[w] EXCEPT !.sentToday = {}]
    BY <1>3 DEF NewDay
  <2>2. /\ sess'[w].todo = sess[w].todo /\ sess'[w].pc = sess[w].pc
        /\ sess'[w].sentCount = sess[w].sentCount /\ sess'[w].sentToday = {}
    BY <2>1, <1>0 DEF Session
  <2>3. SentBy(w)' = {} /\ Charged(w)' = {}
    BY <2>1, <2>2 DEF SentBy, Charged
  <2>4. Cardinality({}) = 0
    BY FS_EmptySet
  <2>5. Allowed(sess[w])'
    BY <2>1, <2>2 DEF Allowed, Quota, First, Before
  <2>6. sess[w].sentCount \in Nat
    BY <1>0 DEF Session
  <2> QED
    BY <2>1, <2>2, <2>3, <2>4, <2>5, <2>6 DEF Quota
<1>4. ASSUME StartPass(w) PROVE Quota(w)'
  <2>1. PICK W \in SUBSET Messages :
          sess' = [sess EXCEPT ![w] =
            [NoSession EXCEPT !.pc = "scan", !.todo = W, !.hot = W \cap cooling,
               !.seen = [m \in Messages |-> row[m].attempts],
               !.sentCount = CountedToday]]
    BY <1>4 DEF StartPass
  <2>2. /\ sess'[w].pc = "scan" /\ sess'[w].sentToday = {} /\ sess'[w].sentCount = CountedToday
    BY <2>1, <1>0 DEF NoSession
  <2>3. sess[w].pc = "idle" /\ UNCHANGED <<row, sentToday>>
    BY <1>4 DEF StartPass
  <2>4. SentBy(w) = sentToday /\ SentBy(w)' = sentToday /\ Charged(w)' = Charged(w)
    BY <2>2, <2>3 DEF Quota, SentBy, Charged
  <2>5. CountedToday = Cardinality(sentToday)
    <3>1. {m \in sentToday : row[m].status \in {"SENT", "DELIVERED"}} = sentToday
      BY DEF Quota
    <3> QED
      BY <3>1 DEF CountedToday
  <2>6. Cardinality(sentToday) \in Nat
    BY <1>0, SubsetSize
  <2> QED
    BY <2>2, <2>3, <2>4, <2>5, <2>6 DEF Quota, Allowed
<1>5. ASSUME NEW m \in Messages, NEW s, sess' = [sess EXCEPT ![w] = s],
             Unsent(s, sess[w], m), sess[w].pc # "idle", m \in sess[w].todo,
             UNCHANGED <<row, sentToday>>, Allowed(sess[w])'
      PROVE  Quota(w)'
  <2>1. sess'[w] = s
    BY <1>5, <1>0
  <2>2. \A n \in sess[w].sentToday : s.result[n] = "SENT"
    <3> SUFFICES ASSUME NEW n \in sess[w].sentToday PROVE s.result[n] = "SENT"
      OBVIOUS
    <3>1. n \in Messages /\ sess[w].result[n] = "SENT"
      BY <1>0 DEF Quota, Session
    <3>2. sess[w].result[m] = "none"
      BY <1>5, <1>0 DEF Solo, SoloRow
    <3> QED
      BY <3>1, <3>2, <1>5 DEF Unsent
  <2> QED
    BY <2>1, <2>2, <1>5, SameQuota DEF Unsent
<1>6. ASSUME NEW m \in Messages, VisitRow(w, m) PROVE Quota(w)'
  <2>1. PICK s : sess' = [sess EXCEPT ![w] = s] /\ Unsent(s, sess[w], m)
    BY <1>6, <1>0, VisitSendsNothing
  <2>2. UNCHANGED <<row, sentToday>> /\ Allowed(sess[w])'
    BY <1>6, <1>0, VisitSendsNothing, VisitAllowed
  <2>3. m \in sess[w].todo /\ sess[w].pc # "idle"
    BY <1>6 DEF VisitRow, SkipBackoff, Withhold, HoldForQuota, BeginSend, At, First
  <2> QED
    BY <2>1, <2>2, <2>3, <1>5
<1>7. ASSUME NEW m \in Messages, ProviderCall(w, m), ~Accepted(w, m) PROVE Quota(w)'
  <2>1. PICK s : sess' = [sess EXCEPT ![w] = s] /\ Unsent(s, sess[w], m)
    BY <1>7, <1>0, FailedCallSendsNothing
  <2>2. UNCHANGED <<row, sentToday>> /\ Allowed(sess[w])'
    BY <1>7, <1>0, FailedCallSendsNothing, FailedCallAllowed DEF Quota
  <2>3. m \in sess[w].todo /\ sess[w].pc # "idle"
    BY <1>7 DEF ProviderCall, AnswerLost, Unavailable, Refused, DisabledSend, Sending, First
  <2> QED
    BY <2>1, <2>2, <2>3, <1>5
<1>8. ASSUME NEW m \in Messages, Accepted(w, m) PROVE Quota(w)'
  <2>1. /\ sess[w].pc = "send" /\ First(m, sess[w].todo) /\ m \in sess[w].todo
        /\ UNCHANGED <<row, sentToday>>
    BY <1>8 DEF Accepted, Sending, First
  <2>2. sess'[w] = Success(sess[w], m, mails[m] + 1)
    BY <1>8, <1>0 DEF Accepted
  <2>3. /\ sess'[w].pc = "scan" /\ sess'[w].sentToday = sess[w].sentToday \cup {m}
        /\ sess'[w].sentCount = sess[w].sentCount + 1
        /\ sess'[w].result = [sess[w].result EXCEPT ![m] = "SENT"]
    BY <2>2, <1>0 DEF Success, Session
  <2>4. \A n \in sess'[w].sentToday : sess'[w].result[n] = "SENT"
    BY <2>3, <1>0 DEF Quota, Session
  <2>5. SentBy(w)' = SentBy(w) \cup {m}
    BY <2>1, <2>3 DEF SentBy
  <2>6. Cardinality(SentBy(w)') <= sess'[w].sentCount
    <3>1. Cardinality(SentBy(w)) \in Nat /\ Cardinality(SentBy(w) \cup {m}) \in Nat
      BY <1>a, SubsetSize
    <3>2. Cardinality(SentBy(w) \cup {m}) <= Cardinality(SentBy(w)) + 1
      BY <1>a, OneMore
    <3>3. Cardinality(SentBy(w)) <= sess[w].sentCount /\ sess[w].sentCount \in Nat
      BY <2>1, <1>0 DEF Quota, Session
    <3> QED
      BY <3>1, <3>2, <3>3, <2>3, <2>5
  <2>7. Cardinality(Charged(w)') <= DailyLimit
    <3>1. CASE Priority[m] > 0
      <4>1. sess[w].sentCount < DailyLimit
        BY <3>1, <2>1 DEF Quota, Allowed
      <4>2. Charged(w)' \subseteq SentBy(w)' /\ SentBy(w)' \subseteq Messages
        BY <2>5, <1>a DEF Charged
      <4>3. /\ Cardinality(Charged(w)') \in Nat /\ Cardinality(SentBy(w)') \in Nat
            /\ Cardinality(Charged(w)') <= Cardinality(SentBy(w)')
        BY <4>2, SubsetSize
      <4>4. sess[w].sentCount \in Nat
        BY <1>0 DEF Session
      <4> QED
        BY <4>1, <4>3, <4>4, <2>3, <2>6
    <3>2. CASE ~(Priority[m] > 0)
      <4>1. Charged(w)' = Charged(w)
        BY <3>2, <2>5 DEF Charged
      <4> QED
        BY <4>1 DEF Quota
    <3> QED
      BY <3>1, <3>2
  <2>8. \A n \in sentToday' : row'[n].status = "SENT"
    BY <2>1 DEF Quota
  <2> QED
    BY <2>3, <2>4, <2>6, <2>7, <2>8 DEF Quota, Allowed
<1>9. ASSUME FinishPass(w) PROVE Quota(w)'
  <2>1. /\ sess'[w] = NoSession /\ sentToday' = sentToday \cup sess[w].sentToday
        /\ row' = [m \in Messages |-> Commit(row[m], sess[w], m)]
        /\ sess[w].pc = "scan"
    BY <1>9, <1>0 DEF FinishPass
  <2>2. SentBy(w)' = SentBy(w) /\ Charged(w)' = Charged(w)
    BY <2>1 DEF SentBy, Charged, NoSession
  <2>3. ASSUME NEW m \in sentToday' PROVE row'[m].status = "SENT"
    <3>1. /\ m \in Messages /\ row'[m] = Commit(row[m], sess[w], m) /\ row[m] \in Row
          /\ SoloRow(w, m)
      BY <2>1, <1>0 DEF Session, Solo
    <3>2. CASE m \in sess[w].sentToday
      <4>1. sess[w].result[m] = "SENT"
        BY <3>2 DEF Quota
      <4> QED
        BY <3>1, <4>1 DEF Commit, Row
    <3>3. CASE m \notin sess[w].sentToday
      <4>1. row[m].status = "SENT"
        BY <3>3, <2>1 DEF Quota
      <4>2. sess[w].result[m] = "none"
        BY <3>1, <4>1 DEF SoloRow
      <4> QED
        BY <3>1, <4>1, <4>2 DEF Commit
    <3> QED
      BY <3>2, <3>3
  <2>4. NoSession.pc = "idle" /\ NoSession.sentToday = {}
    BY DEF NoSession
  <2> QED
    BY <2>1, <2>2, <2>3, <2>4, <1>b DEF Quota, Allowed
<1>10. ASSUME Abort(w) PROVE Quota(w)'
  <2>1. sess'[w] = NoSession /\ UNCHANGED <<row, sentToday>>
    BY <1>10, <1>0 DEF Abort
  <2>2. NoSession.pc = "idle" /\ NoSession.sentToday = {}
    BY DEF NoSession
  <2>3. Charged(w)' \subseteq Charged(w) /\ Charged(w) \subseteq Messages
    BY <2>1, <2>2, <1>a DEF Charged, SentBy
  <2>4. /\ Cardinality(Charged(w)') \in Nat /\ Cardinality(Charged(w)) \in Nat
        /\ Cardinality(Charged(w)') <= Cardinality(Charged(w))
    BY <2>3, SubsetSize
  <2>5. Cardinality(Charged(w)') <= DailyLimit
    BY <2>4 DEF Quota
  <2> QED
    BY <2>1, <2>2, <2>5, <1>b DEF Quota, Allowed
<1> QED
  BY <1>1, <1>2, <1>3, <1>4, <1>6, <1>7, <1>8, <1>9, <1>10
  DEF Next, QueueStep, LeadStep, PassStep, ProviderCall, vars, leadVars, providerVars,
      Join, Rejoin, Unsubscribe, Suppress, BackoffOver, EnableMail

LEMMA InitQuota == ASSUME NEW w \in Processors, Init PROVE Quota(w)
<1>1. SentBy(w) = {} /\ Charged(w) = {} /\ sess[w].pc = "idle"
  BY DEF Init, SentBy, Charged, NoSession
<1>2. Cardinality({}) = 0
  BY FS_EmptySet
<1>3. sentToday = {} /\ sess[w].sentToday = {}
  BY DEF Init, NoSession
<1> QED
  BY <1>1, <1>2, <1>3, NumberAssumption DEF Quota, Allowed

\* With a single processor, the mails other than welcome mails recorded for a
\* day stay within the daily limit, though the count is read once per pass,
\* passes are rolled back and midnight falls into them (email_queue.py:74-99).
THEOREM LimitHolds ==
  ASSUME NEW w, Processors = {w}
  PROVE  Spec => []QuotaRespected
<1>1. Init => Quota(w)
  BY InitQuota
<1>2. SoloInv(w) /\ Quota(w) /\ [Next]_vars => Quota(w)'
  BY QuotaStep
<1>3. Quota(w) => QuotaRespected
  <2>1. UNION {sess[p].sentToday : p \in Processors} = sess[w].sentToday
    OBVIOUS
  <2> QED
    BY <2>1 DEF Quota, Charged, SentBy, QuotaRespected
<1> QED
  BY <1>1, <1>2, <1>3, SoloInvariant, PTL DEF Spec
-----------------------------------------------------------------------------
(* One processor beside the provider's events.                             *)

\* An event being handled is about a mail whose fate is as it says, and what
\* it saw of the row is still so.
EventFits ==
  hook.open =>
    LET m == hook.mail[1] IN
    /\ LeadOf[m] \in known
    /\ hook.type = "delivered" => fate[hook.mail] \in {"delivered", "complained"}
    /\ hook.type \in {"bounced", "complained"} => fate[hook.mail] = hook.type
    /\ hook.found => row[m].mailId = hook.mail[2] /\ row[m].status = hook.status

\* Only known leads have rows and mails.
LeadsAreKnown ==
  /\ \A m \in Messages : row[m].status # "none" \/ mails[m] > 0 => LeadOf[m] \in known
  /\ \A d \in Mail : fate[d] # "none" => LeadOf[d[1]] \in known

HookInv(w) ==
  /\ SoloInv(w) /\ LeadsAreKnown
  /\ fate \in [Mail -> Fates] /\ hook \in Hook
  /\ EventFits /\ StatusIsTruthful

\* A pass writes only rows that are absent or queued.
LEMMA SettledRowsStay ==
  ASSUME NEW w, Processors = {w}, SoloInv(w), QueueStep, NEW m \in Messages,
         row'[m] # row[m]
  PROVE  /\ row[m].status \in {"none", "QUEUED"}
         /\ row'[m].status \in {"QUEUED", "SENT", "FAILED", "SUPPRESSED", "UNSUBSCRIBED"}
<1>0. /\ row \in [Messages -> Row] /\ sess[w] \in Session /\ SoloRow(w, m)
  BY DEF SoloInv, TypeInv, TypeOK, Solo
<1>1. ASSUME NEW n \in Messages, Enqueue(n)
      PROVE  row[n].status = "none" /\ row'[n].status = "QUEUED"
             /\ \A k \in Messages \ {n} : row'[k] = row[k]
  BY <1>1, <1>0 DEF Enqueue, NoRow
<1>2. CASE FinishPass(w)
  <2>1. row'[m] = Commit(row[m], sess[w], m) /\ sess[w].result[m] \in Results
    BY <1>2, <1>0 DEF FinishPass, Session
  <2>2. sess[w].result[m] # "none"
    BY <2>1 DEF Commit
  <2>3. row'[m].status = sess[w].result[m]
    BY <2>1, <2>2, <1>0 DEF Commit, Row
  <2> QED
    BY <2>1, <2>2, <2>3, <1>0 DEF SoloRow, Results
<1>3. ASSUME NEW n \in Messages, VisitRow(w, n) \/ ProviderCall(w, n) PROVE row' = row
  BY <1>3 DEF VisitRow, SkipBackoff, Withhold, HoldForQuota, BeginSend, ProviderCall,
    Accepted, AnswerLost, Unavailable, Refused, DisabledSend
<1>4. ASSUME \/ LeadStep \/ NewDay \/ EnableMail \/ StartPass(w) \/ Abort(w)
             \/ \E n \in Messages : BackoffOver(n)
      PROVE  row' = row
  BY <1>4 DEF LeadStep, Join, Rejoin, Unsubscribe, NewDay, EnableMail, StartPass, Abort,
    BackoffOver
<1>5. PICK n \in Messages : Enqueue(n) \/ FinishPass(w)
  BY <1>3, <1>4 DEF QueueStep, PassStep
<1> QED
  BY <1>1, <1>2, <1>5

\* A mail is only for a row there is, and a row only for a lead there is.
LEMMA LeadsStayKnown ==
  ASSUME NEW w, Processors = {w}, SoloInv(w), LeadsAreKnown, QueueStep, UNCHANGED fate
  PROVE  LeadsAreKnown' /\ known \subseteq known'
<1>0. /\ row \in [Messages -> Row] /\ mails \in [Messages -> Nat] /\ Solo(w)
      /\ sess[w] \in Session
  BY DEF SoloInv, TypeInv, TypeOK
<1>a. ASSUME NEW n \in Messages, VisitRow(w, n) PROVE UNCHANGED <<known, row, mails>>
  BY <1>a DEF VisitRow, SkipBackoff, Withhold, HoldForQuota, BeginSend, leadVars,
    providerVars
<1>b. ASSUME NEW n \in Messages, Unavailable(w, n) \/ Refused(w, n) \/ DisabledSend(w, n)
      PROVE  UNCHANGED <<known, row, mails>>
  BY <1>b DEF Unavailable, Refused, DisabledSend, leadVars, providerVars
<1>c. ASSUME NEW n \in Messages, Accepted(w, n) \/ AnswerLost(w, n)
      PROVE  UNCHANGED <<known, row>> /\ n \in sess[w].todo /\ mails' = [mails EXCEPT ![n] = @ + 1]
  BY <1>c DEF Accepted, AnswerLost, Sending, First, leadVars
<1>d. ASSUME FinishPass(w)
      PROVE  UNCHANGED <<known, mails>> /\ row' = [m \in Messages |-> Commit(row[m], sess[w], m)]
  BY <1>d DEF FinishPass, leadVars, providerVars
<1>e. ASSUME LeadStep PROVE known \subseteq known' /\ UNCHANGED <<row, mails>>
  BY <1>e DEF LeadStep, Join, Rejoin, Unsubscribe, providerVars
<1>f. ASSUME NewDay \/ EnableMail \/ StartPass(w) \/ Abort(w) \/ \E n \in Messages : BackoffOver(n)
      PROVE  UNCHANGED <<known, row, mails>>
  BY <1>f DEF NewDay, EnableMail, StartPass, Abort, BackoffOver, leadVars, providerVars
<1>g. ASSUME NEW n \in Messages, Enqueue(n)
      PROVE  /\ UNCHANGED <<known, mails>> /\ LeadOf[n] \in known
             /\ \A k \in Messages \ {n} : row'[k] = row[k]
  BY <1>g, <1>0 DEF Enqueue, leadVars, providerVars
<1>h. \/ known \subseteq known' /\ UNCHANGED <<row, mails>>
      \/ \E n \in Messages : Enqueue(n)
      \/ \E n \in Messages : Accepted(w, n) \/ AnswerLost(w, n)
      \/ FinishPass(w)
  BY <1>a, <1>b, <1>e, <1>f DEF QueueStep, PassStep, ProviderCall
<1>1. known \subseteq known'
  BY <1>c, <1>d, <1>g, <1>h
<1>2. ASSUME NEW m \in Messages, row'[m].status # "none" PROVE LeadOf[m] \in known'
  <2>1. CASE row[m].status # "none"
    BY <2>1, <1>1 DEF LeadsAreKnown
  <2>2. CASE row[m].status = "none"
    <3>1. row'[m] # row[m] /\ SoloRow(w, m)
      BY <1>2, <2>2, <1>0 DEF Solo
    <3>2. ~FinishPass(w)
      BY <3>1, <2>2, <1>d DEF Commit, SoloRow
    <3>3. PICK n \in Messages : Enqueue(n)
      BY <3>1, <3>2, <1>c, <1>h
    <3>4. n = m
      BY <3>1, <3>3, <1>g
    <3> QED
      BY <3>3, <3>4, <1>1, <1>g
  <2> QED
    BY <2>1, <2>2
<1>3. ASSUME NEW m \in Messages, mails'[m] > 0 PROVE LeadOf[m] \in known'
  <2>1. CASE mails[m] > 0
    BY <2>1, <1>1 DEF LeadsAreKnown
  <2>2. CASE ~(mails[m] > 0)
    <3>1. mails'[m] # mails[m]
      BY <1>3, <2>2, <1>0
    <3>2. PICK n \in Messages : Accepted(w, n) \/ AnswerLost(w, n)
      BY <3>1, <1>d, <1>g, <1>h
    <3>3. n = m /\ m \in sess[w].todo
      BY <3>1, <3>2, <1>0, <1>c
    <3>4. row[m].status = "QUEUED"
      BY <3>3, <1>0 DEF Solo, SoloRow
    <3> QED
      BY <3>4, <1>1 DEF LeadsAreKnown
  <2> QED
    BY <2>1, <2>2
<1> QED
  BY <1>1, <1>2, <1>3 DEF LeadsAreKnown

LEMMA HookInit == ASSUME NEW w, Processors = {w}, WInit PROVE HookInv(w)
<1>1. SoloInv(w)
  BY InitType, InitReceipts, InitSolo DEF SoloInv, WInit
<1>2. LeadsAreKnown
  BY DEF WInit, Init, NoRow, LeadsAreKnown
<1>3. fate \in [Mail -> Fates] /\ hook \in Hook /\ ~hook.open
  BY DEF WInit, Fates, Hook, NoHook
<1>4. StatusIsTruthful
  BY DEF WInit, Init, NoRow, StatusIsTruthful
<1> QED
  BY <1>1, <1>2, <1>3, <1>4 DEF HookInv, EventFits

LEMMA OpenEvent ==
  ASSUME hook \in Hook, hook.open
  PROVE  /\ hook.type \in EventTypes /\ hook.mail \in Mail /\ hook.mail[1] \in Messages
         /\ hook.mail[2] \in 1..MaxMails /\ hook.mail = <<hook.mail[1], hook.mail[2]>>
         /\ hook.found \in BOOLEAN /\ hook.status \in Statuses
<1>1. ~NoHook.open
  BY DEF NoHook
<1>2. hook \in [open : {TRUE}, type : EventTypes, mail : Mail, found : BOOLEAN,
                status : Statuses]
  BY <1>1 DEF Hook
<1>3. hook.mail \in Mail /\ hook.type \in EventTypes /\ hook.found \in BOOLEAN
      /\ hook.status \in Statuses
  BY <1>2
<1>4. hook.mail \in Messages \X (1..MaxMails)
  BY <1>3 DEF Mail
<1> QED
  BY <1>3, <1>4

\* Handling an event leaves the rows to the pass and puts on a row what
\* happened to the mail it records.
LEMMA HookStepKeeps ==
  ASSUME NEW w, Processors = {w}, HookInv(w), HookWrite
  PROVE  HookInv(w)'
<1> DEFINE m == hook.mail[1]
           now == Reported(hook.type, hook.status)
<1>0. /\ SoloInv(w) /\ row \in [Messages -> Row] /\ mails \in [Messages -> Nat]
      /\ hook \in Hook /\ hook.open /\ TypeOK /\ Solo(w) /\ Receipts
  BY DEF HookInv, HookWrite, SoloInv, TypeInv, TypeOK
<1>1. /\ hook.type \in EventTypes /\ hook.mail \in Mail /\ m \in Messages
      /\ hook.mail[2] \in 1..MaxMails /\ hook.mail = <<m, hook.mail[2]>>
      /\ hook.found \in BOOLEAN /\ hook.status \in Statuses
  BY <1>0, OpenEvent
<1>2. /\ UNCHANGED <<known, consented, sentToday, cooling, sess, enabled, mails, lost, faults, fate>>
      /\ hook' = NoHook
  BY DEF HookWrite, providerVars
<1>3. /\ now \in Statuses \ {"none", "QUEUED"}
      /\ now = "SENT" => hook.status # "DELIVERED"
      /\ now = "DELIVERED" => hook.type = "delivered" \/ hook.status = "DELIVERED"
      /\ now = "BOUNCED" => hook.type = "bounced"
      /\ now = "COMPLAINED" => hook.type = "complained"
  BY <1>1 DEF Reported, EventTypes, Statuses
<1>4. HookChanges => row[m].mailId = hook.mail[2] /\ row[m].status = hook.status
                     /\ hook.mail[2] # 0
  BY <1>0, <1>1 DEF HookChanges, HookInv, EventFits
<1>5. \/ row' = row
      \/ HookChanges /\ row' = [row EXCEPT ![m].status = now]
  BY DEF HookWrite
<1>6. \A n \in Messages :
        /\ row'[n].mailId = row[n].mailId /\ row'[n].attempts = row[n].attempts
        /\ row'[n] \in Row
        /\ row'[n] # row[n] => n = m /\ HookChanges /\ row'[n].status = now
  BY <1>0, <1>1, <1>3, <1>5 DEF Row
<1>7. row' \in [Messages -> Row]
  BY <1>0, <1>5, <1>6
<1>8. LeadOf[m] \in known
  BY <1>0 DEF HookInv, EventFits
<1>9. suppressed' \in SUBSET known
  BY <1>0, <1>8 DEF HookWrite, TypeOK
<1>10. TypeInv'
  <2>1. TypeOK'
    BY <1>0, <1>2, <1>7, <1>9 DEF TypeOK
  <2>2. AttemptsBounded'
    <3>1. AttemptsBounded
      BY <1>0 DEF SoloInv, TypeInv
    <3>2. \A n \in Messages : row'[n].status = "QUEUED" => row[n].status = "QUEUED"
      BY <1>3, <1>6
    <3> QED
      BY <3>1, <3>2, <1>2, <1>6 DEF AttemptsBounded, Bounded
  <2> QED
    BY <2>1, <2>2 DEF TypeInv
<1>11. Receipts'
  <2>1. \A n \in Messages : row'[n].status = "SENT" => row'[n].mailId > 0
    BY <1>0, <1>1, <1>4, <1>6 DEF Receipts, ReceiptIsReal
  <2> QED
    BY <2>1, <1>0, <1>2, <1>6 DEF Receipts, ReceiptIsReal, RealSession
<1>12. Solo(w)'
  <2> SUFFICES ASSUME NEW n \in Messages PROVE SoloRow(w, n)'
    BY DEF Solo
  <2>1. SoloRow(w, n)
    BY <1>0 DEF Solo
  <2>2. CASE row'[n] = row[n]
    BY <2>1, <2>2, <1>2 DEF SoloRow
  <2>3. CASE row'[n] # row[n]
    <3>1. row[n].mailId # 0 /\ row'[n].status \notin {"none", "QUEUED"}
      BY <2>3, <1>3, <1>4, <1>6
    <3>2. row[n].status # "QUEUED"
      BY <2>1, <3>1 DEF SoloRow
    <3> QED
      BY <2>1, <3>1, <3>2, <1>2, <1>6 DEF SoloRow
  <2> QED
    BY <2>2, <2>3
<1>13. LeadsAreKnown'
  <2>1. \A n \in Messages : row'[n].status # "none" => LeadOf[n] \in known
    BY <1>6, <1>8 DEF HookInv, LeadsAreKnown
  <2> QED
    BY <2>1, <1>2 DEF HookInv, LeadsAreKnown
<1>14. StatusIsTruthful'
  <2> SUFFICES ASSUME NEW n \in Messages, NEW k \in 1..MaxMails, row'[n].mailId = k
               PROVE  /\ row'[n].status = "DELIVERED" => fate[<<n, k>>] \in {"delivered", "complained"}
                      /\ row'[n].status = "BOUNCED" => fate[<<n, k>>] = "bounced"
                      /\ row'[n].status = "COMPLAINED" => fate[<<n, k>>] = "complained"
    BY <1>2 DEF StatusIsTruthful
  <2>1. /\ row[n].mailId = k
        /\ row[n].status = "DELIVERED" => fate[<<n, k>>] \in {"delivered", "complained"}
        /\ row[n].status = "BOUNCED" => fate[<<n, k>>] = "bounced"
        /\ row[n].status = "COMPLAINED" => fate[<<n, k>>] = "complained"
    BY <1>6 DEF HookInv, StatusIsTruthful
  <2>2. CASE row'[n] = row[n]
    BY <2>1, <2>2
  <2>3. CASE row'[n] # row[n]
    <3>1. /\ n = m /\ row'[n].status = now /\ hook.mail[2] = k /\ row[n].status = hook.status
          /\ hook.mail = <<n, k>>
      BY <2>1, <2>3, <1>1, <1>4, <1>6
    <3>2. /\ hook.type = "delivered" => fate[hook.mail] \in {"delivered", "complained"}
          /\ hook.type \in {"bounced", "complained"} => fate[hook.mail] = hook.type
      BY <1>0 DEF HookInv, EventFits
    <3> QED
      BY <2>1, <3>1, <3>2, <1>3
  <2> QED
    BY <2>2, <2>3
<1>15. EventFits' /\ hook' \in Hook /\ fate' \in [Mail -> Fates]
  BY <1>2 DEF EventFits, NoHook, Hook, HookInv
<1> QED
  BY <1>10, <1>11, <1>12, <1>13, <1>14, <1>15 DEF HookInv, SoloInv

LEMMA DeliveredStays ==
  ASSUME NEW w, Processors = {w}, HookInv(w), QueueStep \/ HookWrite,
         NEW m \in Messages, row[m].status = "DELIVERED"
  PROVE  row'[m].status \notin {"SENT", "QUEUED", "none"}
<1>1. SoloInv(w) /\ row \in [Messages -> Row]
  BY DEF HookInv, SoloInv, TypeInv, TypeOK
<1>2. CASE QueueStep
  BY <1>1, <1>2, SettledRowsStay
<1>3. CASE HookWrite
  <2>1. hook \in Hook /\ hook.open
    BY <1>3 DEF HookInv, HookWrite
  <2>2. hook.type \in EventTypes
    BY <2>1, OpenEvent
  <2>3. \/ row'[m] = row[m]
        \/ /\ HookChanges /\ m = hook.mail[1]
           /\ row'[m].status = Reported(hook.type, hook.status)
    BY <1>1, <1>3 DEF HookWrite, Row
  <2>4. HookChanges /\ m = hook.mail[1] => hook.status = "DELIVERED"
    BY <2>1 DEF HookChanges, HookInv, EventFits
  <2>5. HookChanges => Reported(hook.type, "DELIVERED") \notin {"SENT", "QUEUED", "none"}
          \/ hook.status # "DELIVERED"
    BY <2>2 DEF Reported, EventTypes, HookChanges
  <2> QED
    BY <2>3, <2>4, <2>5
<1> QED
  BY <1>2, <1>3

LEMMA HookInvStep ==
  ASSUME NEW w, Processors = {w}, HookInv(w), [WNext]_<<vars, hookVars>>
  PROVE  HookInv(w)'
<1>0. /\ SoloInv(w) /\ LeadsAreKnown /\ fate \in [Mail -> Fates] /\ hook \in Hook
      /\ EventFits /\ StatusIsTruthful /\ row \in [Messages -> Row]
      /\ mails \in [Messages -> Nat]
  BY DEF HookInv, SoloInv, TypeInv, TypeOK
<1>1. CASE QueueStep /\ UNCHANGED hookVars
  <2>1. UNCHANGED <<fate, hook>>
    BY <1>1 DEF hookVars
  <2>2. SoloInv(w)'
    <3>1. [Next]_vars
      BY <1>1 DEF Next
    <3> QED
      BY <3>1, <1>0, TypeStep, ReceiptsStep, SoloStep DEF SoloInv
  <2>3. LeadsAreKnown' /\ known \subseteq known'
    BY <1>0, <1>1, <2>1, LeadsStayKnown
  <2>4. \A m \in Messages :
          row'[m] # row[m] =>
            /\ row[m].status \in {"none", "QUEUED"}
            /\ row'[m].status \in {"QUEUED", "SENT", "FAILED", "SUPPRESSED", "UNSUBSCRIBED"}
    BY <1>0, <1>1, SettledRowsStay
  <2>5. StatusIsTruthful'
    BY <1>0, <2>1, <2>4 DEF StatusIsTruthful
  <2>6. EventFits'
    <3> SUFFICES ASSUME hook.open PROVE EventFits'
      BY <2>1 DEF EventFits
    <3>1. /\ LeadOf[hook.mail[1]] \in known'
          /\ hook.type = "delivered" => fate[hook.mail] \in {"delivered", "complained"}
          /\ hook.type \in {"bounced", "complained"} => fate[hook.mail] = hook.type
      BY <1>0, <2>3 DEF EventFits
    <3>2. ASSUME hook.found PROVE row'[hook.mail[1]] = row[hook.mail[1]]
      <4>1. hook.mail \in Messages \X (1..MaxMails)
        BY <1>0, OpenEvent DEF Mail
      <4>2. row[hook.mail[1]].mailId # 0 /\ hook.mail[1] \in Messages
        BY <4>1, <3>2, <1>0 DEF EventFits
      <4>3. SoloRow(w, hook.mail[1])
        BY <1>0, <4>2 DEF SoloInv, Solo
      <4> QED
        BY <2>4, <4>2, <4>3 DEF SoloRow
    <3> QED
      BY <3>1, <3>2, <1>0, <2>1 DEF EventFits
  <2> QED
    BY <1>0, <2>1, <2>2, <2>3, <2>5, <2>6 DEF HookInv
<1>2. ASSUME NEW d \in Mail, Resolve(d) PROVE HookInv(w)'
  <2>1. UNCHANGED vars /\ hook' = hook
    BY <1>2 DEF Resolve
  <2>2. UNCHANGED <<known, consented, suppressed, row, sentToday, cooling, sess, enabled,
                    mails, lost, faults, hook>>
    BY <2>1 DEF vars, leadVars, providerVars
  <2>3. PICK f \in {"delivered", "failed", "bounced", "complained"} :
          /\ fate' = [fate EXCEPT ![d] = f]
          /\ \/ fate[d] = "none" /\ f # "complained"
             \/ fate[d] = "delivered" /\ f = "complained"
    BY <1>2 DEF Resolve
  <2>4. SoloInv(w)'
    <3>1. [Next]_vars
      BY <2>1
    <3> QED
      BY <3>1, <1>0, TypeStep, ReceiptsStep, SoloStep DEF SoloInv
  <2>5. \A e \in Mail :
          /\ fate[e] \in {"bounced", "complained"} => fate'[e] = fate[e]
          /\ fate[e] \in {"delivered", "complained"} => fate'[e] \in {"delivered", "complained"}
    BY <2>3, <1>0
  <2>6. fate' \in [Mail -> Fates]
    BY <2>3, <1>0 DEF Fates
  <2>7. d[1] \in Messages /\ mails[d[1]] > 0
    BY <1>2, <1>0 DEF Mail, Resolve, AcceptedMail
  <2>8. LeadsAreKnown'
    BY <1>0, <2>2, <2>3, <2>7 DEF LeadsAreKnown
  <2>9. StatusIsTruthful'
    <3>1. \A m \in Messages, k \in 1..MaxMails : <<m, k>> \in Mail
      BY DEF Mail
    <3> QED
      BY <1>0, <2>2, <2>5, <3>1 DEF StatusIsTruthful
  <2>10. EventFits'
    <3> SUFFICES ASSUME hook.open PROVE EventFits'
      BY <2>2 DEF EventFits
    <3>1. hook.mail \in Mail
      BY <1>0, OpenEvent
    <3> QED
      BY <3>1, <1>0, <2>2, <2>5 DEF EventFits
  <2> QED
    BY <1>0, <2>2, <2>4, <2>6, <2>8, <2>9, <2>10 DEF HookInv
<1>3. CASE HookRead
  <2>1. UNCHANGED vars /\ fate' = fate
    BY <1>3 DEF HookRead
  <2>2. UNCHANGED <<known, row, mails>>
    BY <2>1 DEF vars, leadVars, providerVars
  <2>3. PICK d \in Mail, type \in EventTypes :
          /\ MayReport(type, d)
          /\ hook' = [open |-> TRUE, type |-> type, mail |-> d,
                      found |-> row[d[1]].mailId = d[2], status |-> row[d[1]].status]
    BY <1>3 DEF HookRead
  <2>4. d[1] \in Messages /\ d[2] \in 1..MaxMails
    BY DEF Mail
  <2>5. row[d[1]].status \in Statuses
    BY <2>4, <1>0 DEF Row
  <2>6. hook' \in Hook
    BY <2>3, <2>5 DEF Hook
  <2>7. LeadOf[d[1]] \in known
    <3>1. AcceptedMail(d) \/ fate[d] # "none"
      BY <2>3 DEF MayReport, EventTypes
    <3>2. AcceptedMail(d) => mails[d[1]] > 0
      BY <2>4, <1>0 DEF AcceptedMail
    <3> QED
      BY <3>1, <3>2, <2>4, <1>0 DEF LeadsAreKnown
  <2>8. /\ type = "delivered" => fate[d] \in {"delivered", "complained"}
        /\ type \in {"bounced", "complained"} => fate[d] = type
    BY <2>3 DEF MayReport
  <2>9. EventFits'
    BY <2>1, <2>2, <2>3, <2>7, <2>8 DEF EventFits
  <2>10. SoloInv(w)'
    <3>1. [Next]_vars
      BY <2>1
    <3> QED
      BY <3>1, <1>0, TypeStep, ReceiptsStep, SoloStep DEF SoloInv
  <2> QED
    BY <1>0, <2>1, <2>2, <2>6, <2>9, <2>10 DEF HookInv, LeadsAreKnown, StatusIsTruthful
<1>4. CASE HookWrite
  BY <1>4, HookStepKeeps
<1>5. CASE UNCHANGED <<vars, hookVars>>
  <2>1. UNCHANGED vars /\ UNCHANGED <<fate, hook>>
    BY <1>5 DEF hookVars
  <2>2. UNCHANGED <<known, row, mails>>
    BY <2>1 DEF vars, leadVars, providerVars
  <2>3. SoloInv(w)'
    <3>1. [Next]_vars
      BY <2>1
    <3> QED
      BY <3>1, <1>0, TypeStep, ReceiptsStep, SoloStep DEF SoloInv
  <2> QED
    BY <1>0, <2>1, <2>2, <2>3 DEF HookInv, LeadsAreKnown, StatusIsTruthful, EventFits
<1> QED
  BY <1>1, <1>2, <1>3, <1>4, <1>5 DEF WNext, HookStep

\* With a single processor, a row never says of the mail it records what did
\* not happen to it, however late, often and out of order its events come; and
\* a delivered mail never again counts as sent or waits (webhooks.py:49-76).
THEOREM EventsHold ==
  ASSUME NEW w, Processors = {w}
  PROVE  WSpec => EventsAreKept
<1>1. WInit => HookInv(w)
  BY HookInit
<1>2. HookInv(w) /\ [WNext]_<<vars, hookVars>> => HookInv(w)'
  BY HookInvStep
<1>3. HookInv(w) => StatusIsTruthful
  BY DEF HookInv
<1>4. HookInv(w) /\ [WNext]_<<vars, hookVars>> =>
        [\A m \in Messages :
           row[m].status = "DELIVERED" => row'[m].status \notin {"SENT", "QUEUED", "none"}]_row
  <2>1. ASSUME [WNext]_<<vars, hookVars>>, row' # row
        PROVE  QueueStep \/ HookWrite
    BY <2>1 DEF WNext, HookStep, HookRead, Resolve, vars
  <2> QED
    BY <2>1, DeliveredStays
<1> QED
  BY <1>1, <1>2, <1>3, <1>4, PTL DEF WSpec, EventsAreKept, DeliveredIsKept
=============================================================================

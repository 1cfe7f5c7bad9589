---------------------------- MODULE WeeklyDigest ----------------------------
(***************************************************************************)
(* newsletter.queue_weekly_digests: a lead is due when its last digest is  *)
(* seven days old, and the row's dedupe key is the ISO week.  enqueue      *)
(* answers a collision by rolling the whole pass back, so the two clocks   *)
(* must never disagree.                                                    *)
(***************************************************************************)
EXTENDS Integers

CONSTANTS
  Subscribers,  \* leads with consent and digest_weekly
  WeekLen,      \* instants in a week, in the clock's unit
  LastInstant   \* bound: the clock

ASSUME DigestAssumption == WeekLen \in Nat \ {0}

VARIABLES
  instant,      \* the clock, from the start of an ISO week
  lastDigest,   \* last_digest_at; -WeekLen for never
  queued,       \* digests in email_messages: <<lead, week>>
  pending,      \* leads the pass has still to look at
  begun,        \* the pass's cutoff is judged from here
  stamped       \* the pass's uncommitted digests: lead -> when, -1 without one

digestVars == <<instant, lastDigest, queued, pending, begun, stamped>>

Nothing == [l \in Subscribers |-> -1]
Week(t) == t \div WeekLen

DigestInit ==
  /\ instant = 0 /\ lastDigest = [l \in Subscribers |-> -WeekLen] /\ queued = {}
  /\ pending = {} /\ begun = -1 /\ stamped = Nothing

TimePasses == instant < LastInstant /\ instant' = instant + 1 /\ UNCHANGED <<lastDigest, queued, pending, begun, stamped>>

StartDigests ==
  /\ begun = -1
  /\ begun' = instant /\ pending' = Subscribers /\ stamped' = Nothing
  /\ UNCHANGED <<instant, lastDigest, queued>>

\* Mutant: six days make a week.
DueEarly(l) == lastDigest[l] <= begun - (WeekLen - 1)

Due(l) == lastDigest[l] <= begun - WeekLen

Collides(l) == <<l, Week(instant)>> \in queued

\* A digest that collides takes the pass's earlier ones with it.
QueueDigest(l) ==
  /\ l \in pending
  /\ pending' = pending \ {l}
  /\ stamped' = CASE ~Due(l) -> stamped
                  [] Due(l) /\ Collides(l) -> Nothing
                  [] OTHER -> [stamped EXCEPT ![l] = instant]
  /\ UNCHANGED <<instant, lastDigest, queued, begun>>

CommitDigests ==
  /\ begun >= 0 /\ pending = {}
  /\ begun' = -1 /\ stamped' = Nothing
  /\ lastDigest' = [l \in Subscribers |-> IF stamped[l] >= 0 THEN stamped[l] ELSE lastDigest[l]]
  /\ queued' = queued \cup {<<l, Week(stamped[l])>> : l \in {k \in Subscribers : stamped[k] >= 0}}
  /\ UNCHANGED <<instant, pending>>

\* The worker dies in the pass.
LoseDigests ==
  /\ begun >= 0
  /\ begun' = -1 /\ pending' = {} /\ stamped' = Nothing
  /\ UNCHANGED <<instant, lastDigest, queued>>

DigestNext ==
  \/ TimePasses \/ StartDigests \/ CommitDigests \/ LoseDigests
  \/ \E l \in Subscribers : QueueDigest(l)

DigestSpec == DigestInit /\ [][DigestNext]_digestVars

-----------------------------------------------------------------------------
\* No digest that is due collides with one already queued, so no pass is ever
\* rolled back: seven days after a digest it is another ISO week
\* (newsletter.py:65-68, email_queue.py:27-29).
DigestsNeverCollide == \A l \in pending : Due(l) => ~Collides(l)

=============================================================================

---------------------------- MODULE RateLimiter ----------------------------
(***************************************************************************)
(* SlidingWindowLimiter.hit of services/ratelimit.py on the threads of the *)
(* web server's pool, which share its dictionary without a lock.  A step   *)
(* makes at most one call on a shared object: the interpreter may switch   *)
(* threads after a call and at each turn of a loop, not within an          *)
(* expression such as "not b or b[-1] <= cutoff".                          *)
(***************************************************************************)
EXTENDS Integers, FiniteSets, Sequences, SequencesExt

CONSTANTS
  Threads,
  Clients,     \* keys
  HitLimit,    \* limit, the same for every call
  WindowLen,   \* window_s, the same for every call
  MaxKeys,
  SweepEvery,
  MaxClock,    \* bound: the clock
  MaxHits      \* bound: calls

ASSUME RateAssumption ==
  /\ HitLimit \in Nat \ {0} /\ WindowLen \in Nat \ {0} /\ MaxKeys \in Nat \ {0}
  /\ SweepEvery \in Nat \ {0} /\ MaxClock \in Nat /\ MaxHits \in Nat
  /\ IsFiniteSet(Threads) /\ IsFiniteSet(Clients)

VARIABLES
  clock,
  hits,      \* hits[b]: the times in bucket b; buckets are numbered by creation
  bucketOf,  \* _buckets: a client's bucket, 0 without one
  lru,       \* the clients of _buckets, the least recently used first
  ops,       \* _ops
  thread,    \* the calls under way
  torn,      \* the threads whose iteration of _buckets another has invalidated
  accepted,  \* history: when the calls of each client whose hit counts began
  evicted,   \* history: clients evicted for capacity
  raced,     \* history: clients with overlapping calls, or whose bucket filled
             \* between a sweep's scan and its deletion
  untrimmed, \* history: the buckets of the calls that died in their trim since
             \* the dictionary was last seen within its capacity
  unjust     \* history: a call of a client that never raced was rejected though
             \* the client had not filled the last WindowLen

rateVars ==
  <<clock, hits, bucketOf, lru, ops, thread, torn, accepted, evicted, raced, untrimmed, unjust>>

NoCall == [at |-> "idle", key |-> 0, now |-> 0, bucket |-> 0, left |-> {}, stale |-> {}]

RateInit ==
  /\ clock = WindowLen /\ hits = <<>> /\ ops = 0 /\ unjust = FALSE
  /\ bucketOf = [c \in Clients |-> 0] /\ lru = <<>>
  /\ thread = [t \in Threads |-> NoCall] /\ torn = {}
  /\ accepted = [c \in Clients |-> <<>>] /\ evicted = {} /\ raced = {}
  /\ untrimmed = {}

Tracked == {c \in Clients : bucketOf[c] # 0}

Within(times, since) == Cardinality({i \in DOMAIN times : times[i] > since})

Tick ==
  /\ clock < MaxClock /\ clock' = clock + 1
  /\ UNCHANGED <<hits, bucketOf, lru, ops, thread, torn, accepted, evicted, raced, untrimmed, unjust>>

\* Mutant: a sweep by half of the window.
StaleEarly(now) ==
  {c \in Tracked : LET b == hits[bucketOf[c]] IN b = <<>> \/ Last(b) < now}

\* Clients whose bucket can no longer affect a decision.
Stale(now) ==
  {c \in Tracked : LET b == hits[bucketOf[c]] IN b = <<>> \/ Last(b) <= now - WindowLen}

\* Another thread is in a call for c.
Calling(t, c) == \E u \in Threads \ {t} : thread[u].at # "idle" /\ thread[u].key = c

\* An exception leaves hit, and answers its request with an error.
Raise(t) ==
  /\ thread' = [thread EXCEPT ![t] = NoCall]
  /\ untrimmed' = IF thread[t].at \in {"trim_clean", "evict"} THEN untrimmed \cup {thread[t].bucket}
                  ELSE untrimmed

\* Keys were added, removed or moved: the iterations under way will not go on.
Tear == torn' = torn \cup {u \in Threads : thread[u].left # {}}

StartHit(t, c) ==
  /\ thread[t].at = "idle" /\ ops < MaxHits
  /\ ops' = ops + 1
  /\ thread' = [thread EXCEPT ![t] =
       [at |-> IF ops' % SweepEvery = 0 THEN "sweep" ELSE "get",
        key |-> c, now |-> clock, bucket |-> 0, left |-> {}, stale |-> {}]]
  /\ raced' = IF Calling(t, c) THEN raced \cup {c} ELSE raced
  /\ UNCHANGED <<clock, hits, bucketOf, lru, torn, accepted, evicted, untrimmed, unjust>>

\* The sweep iterates over the dictionary, oldest first, ...
Sweep(t) ==
  /\ thread[t].at \in {"sweep", "trim_sweep"}
  /\ thread' = [thread EXCEPT ![t] =
       [@ EXCEPT !.left = Tracked, !.stale = {}, !.at = IF thread[t].at = "sweep" THEN "clean" ELSE "trim_clean"]]
  /\ UNCHANGED <<clock, hits, bucketOf, lru, ops, torn, accepted, evicted, raced, untrimmed, unjust>>

Visit(t, c) ==
  /\ thread[t].at \in {"clean", "trim_clean"} /\ c \in thread[t].left
  /\ IF t \in torn
     THEN Raise(t) /\ torn' = torn \ {t}  \* RuntimeError: mutated during iteration
     ELSE /\ c = lru[SelectInSeq(lru, LAMBDA d : d \in thread[t].left)]
          /\ thread' = [thread EXCEPT ![t] =
               [@ EXCEPT !.left = thread[t].left \ {c},
                         !.stale = thread[t].stale \cup ({c} \cap Stale(thread[t].now))]]
          /\ UNCHANGED <<untrimmed, torn>>
  /\ UNCHANGED <<clock, hits, bucketOf, lru, ops, accepted, evicted, raced, unjust>>

Drop(c) ==
  /\ bucketOf' = [bucketOf EXCEPT ![c] = 0]
  /\ lru' = SelectSeq(lru, LAMBDA d : d # c)
  /\ Tear

\* ... and deletes what it found stale one by one.
Delete(t, c) ==
  /\ thread[t].at \in {"clean", "trim_clean"} /\ thread[t].left = {} /\ c \in thread[t].stale
  /\ IF c \in Tracked
     THEN /\ Drop(c)
          /\ thread' = [thread EXCEPT ![t] = [@ EXCEPT !.stale = thread[t].stale \ {c}]]
          /\ UNCHANGED untrimmed
     ELSE Raise(t) /\ UNCHANGED <<bucketOf, lru, torn>>  \* KeyError
  /\ raced' = IF Calling(t, c) \/ c \notin Stale(thread[t].now) THEN raced \cup {c} ELSE raced
  /\ UNCHANGED <<clock, hits, ops, accepted, evicted, unjust>>

Swept(t) ==
  /\ thread[t].at \in {"clean", "trim_clean"} /\ thread[t].left = {} /\ thread[t].stale = {}
  /\ thread' = [thread EXCEPT ![t] = [@ EXCEPT !.at = IF thread[t].at = "clean" THEN "get" ELSE "trim"]]
  /\ UNCHANGED <<clock, hits, bucketOf, lru, ops, torn, accepted, evicted, raced, untrimmed, unjust>>

Get(t) ==
  /\ thread[t].at = "get"
  /\ LET b == bucketOf[thread[t].key] IN
       thread' = [thread EXCEPT ![t] = [@ EXCEPT !.bucket = b, !.at = IF b = 0 THEN "insert" ELSE "move"]]
  /\ UNCHANGED <<clock, hits, bucketOf, lru, ops, torn, accepted, evicted, raced, untrimmed, unjust>>

\* A key there by now keeps its place and gets the new bucket.
Insert(t) ==
  /\ thread[t].at = "insert"
  /\ hits' = Append(hits, <<>>)
  /\ bucketOf' = [bucketOf EXCEPT ![thread[t].key] = Len(hits')]
  /\ thread' = [thread EXCEPT ![t] = [@ EXCEPT !.bucket = Len(hits'), !.at = "check"]]
  /\ IF thread[t].key \in Tracked THEN UNCHANGED <<lru, torn>>
     ELSE lru' = Append(lru, thread[t].key) /\ Tear
  /\ UNCHANGED <<clock, ops, accepted, evicted, raced, untrimmed, unjust>>

Move(t) ==
  /\ thread[t].at = "move"
  /\ LET c == thread[t].key IN
       IF c \notin Tracked
       THEN Raise(t) /\ UNCHANGED <<lru, torn>>  \* KeyError
       ELSE /\ thread' = [thread EXCEPT ![t] = [@ EXCEPT !.at = "check"]]
            /\ lru' = Append(SelectSeq(lru, LAMBDA d : d # c), c)
            /\ IF Last(lru) = c THEN UNCHANGED torn ELSE Tear
            /\ UNCHANGED untrimmed
  /\ UNCHANGED <<clock, hits, bucketOf, ops, accepted, evicted, raced, unjust>>

\* Mutant: the window is one longer.
ExpiredLate(b, now) == b # <<>> /\ Head(b) < now - WindowLen

\* Only the oldest is looked at: races append out of order, and a late hit keeps
\* the older ones behind it.
Expired(b, now) == b # <<>> /\ Head(b) <= now - WindowLen

Pop(t) ==
  /\ thread[t].at = "check"
  /\ Expired(hits[thread[t].bucket], thread[t].now)
  /\ hits' = [hits EXCEPT ![thread[t].bucket] = Tail(@)]
  /\ UNCHANGED <<clock, bucketOf, lru, ops, thread, torn, accepted, evicted, raced, untrimmed, unjust>>

Decide(t) ==
  /\ thread[t].at = "check"
  /\ LET call == thread[t]
         b == hits[call.bucket]
     IN /\ ~Expired(b, call.now)
        /\ IF Len(b) >= HitLimit
           THEN /\ thread' = [thread EXCEPT ![t] = NoCall]
                /\ unjust' = (unjust \/ (call.key \notin raced
                                        /\ Within(accepted[call.key], call.now - WindowLen) < HitLimit))
           ELSE thread' = [thread EXCEPT ![t] = [@ EXCEPT !.at = "append"]] /\ UNCHANGED unjust
  /\ UNCHANGED <<clock, hits, bucketOf, lru, ops, torn, accepted, evicted, raced, untrimmed>>

\* The hit counts from here, wherever its bucket is.
AppendHit(t) ==
  /\ thread[t].at = "append"
  /\ hits' = [hits EXCEPT ![thread[t].bucket] = Append(@, thread[t].now)]
  /\ accepted' = [accepted EXCEPT ![thread[t].key] = Append(@, thread[t].now)]
  /\ thread' = [thread EXCEPT ![t] = [@ EXCEPT !.at = "measure"]]
  /\ UNCHANGED <<clock, bucketOf, lru, ops, torn, evicted, raced, untrimmed, unjust>>

\* Mutant: the capacity is never looked at.
NeverOver == FALSE

Over == Cardinality(Tracked) > MaxKeys

\* Over capacity: one more sweep, then evictions.
Measure(t) ==
  /\ thread[t].at \in {"measure", "trim"}
  /\ IF Over
     THEN /\ thread' = [thread EXCEPT ![t] =
               [@ EXCEPT !.at = IF thread[t].at = "measure" THEN "trim_sweep" ELSE "evict"]]
          /\ UNCHANGED untrimmed
     ELSE thread' = [thread EXCEPT ![t] = NoCall] /\ untrimmed' = {}
  /\ UNCHANGED <<clock, hits, bucketOf, lru, ops, torn, accepted, evicted, raced, unjust>>

Evict(t) ==
  /\ thread[t].at = "evict"
  /\ IF Tracked = {}
     THEN Raise(t) /\ UNCHANGED <<bucketOf, lru, torn, evicted>>  \* KeyError
     ELSE /\ Drop(Head(lru)) /\ evicted' = evicted \cup {Head(lru)}
          /\ thread' = [thread EXCEPT ![t] = [@ EXCEPT !.at = "trim"]]
          /\ UNCHANGED untrimmed
  /\ UNCHANGED <<clock, hits, ops, accepted, raced, unjust>>

RateNext ==
  \/ Tick
  \/ \E t \in Threads :
       \/ Sweep(t) \/ Swept(t) \/ Get(t) \/ Insert(t) \/ Move(t) \/ Pop(t) \/ Decide(t)
       \/ AppendHit(t) \/ Measure(t) \/ Evict(t)
       \/ \E c \in Clients : StartHit(t, c) \/ Visit(t, c) \/ Delete(t, c)

RateSpec == RateInit /\ [][RateNext]_rateVars

-----------------------------------------------------------------------------
\* The dictionary is bounded: beyond MaxKeys there is at most one client per
\* call under way, and one per call that has died in its trim since, so
\* key-cycling cannot grow it (ratelimit.py:14) as long as calls return.
CapacityHolds ==
  Cardinality(Tracked) <=
    MaxKeys + Cardinality({t \in Threads : thread[t].at # "idle"}) + Cardinality(untrimmed)

\* A rejected call found HitLimit accepted ones in its window: expiry, sweeps and
\* evictions may forget a hit and never invent one.  A race may: it leaves a late
\* hit before expired ones.
RejectionsAreJust == ~unjust

\* No window of a client holds more than its budget unless the client was
\* evicted or its calls raced: expiry and the sweep never lose a hit that counts.
BudgetHolds ==
  \A c \in Clients \ (evicted \cup raced) : \A x \in WindowLen..MaxClock :
    LET window == {i \in DOMAIN accepted[c] : x - WindowLen < accepted[c][i] /\ accepted[c][i] <= x}
    IN Cardinality(window) <= HitLimit

\* The limiter keeps its promises with several threads in it and no lock.
LimiterIsFair == CapacityHolds /\ RejectionsAreJust /\ BudgetHolds
=============================================================================

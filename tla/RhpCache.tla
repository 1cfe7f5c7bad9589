------------------------------ MODULE RhpCache ------------------------------
(***************************************************************************)
(* scripts/build_rhp_cache.py: a pool of child processes, each of which    *)
(* downloads one archive and writes its pages to a file, under a guard of  *)
(* the machine's memory, and the state file that tells the next run what   *)
(* is left.                                                               *)
(***************************************************************************)
EXTENDS Integers, FiniteSets

CONSTANTS
  Symbols,     \* expected(): listed issues with a symbol
  PoolSize,    \* the workers asked for
  MaxCacheKills \* bound: children and runs that are killed

ASSUME CacheAssumption == PoolSize \in Nat \ {0} /\ MaxCacheKills \in Nat

VARIABLES
  archive,   \* [Symbols -> what NSE answers]
  page,      \* [Symbols -> the file of pages: "none", "torn", "whole"]
  known,     \* [Symbols -> status], state in memory, or as the run left it
  stateFile, \* [Symbols -> status], state.json
  tornState, \* state.json was being written when the run was killed
  todo,      \* the queue
  inPool,    \* symbols submitted
  results,  \* [inPool -> result], children that have ended
  workers, broken,
  run,       \* "off", "on", "stopping", and how the last one ended
  childKills,
  stumbled   \* history: symbols whose archive a child had, and memory or disk failed it

cacheVars == <<archive, page, known, stateFile, tornState, todo, inPool, results,
               workers, broken, run, childKills, stumbled>>

Statuses == {"CACHED", "NOT_PUBLISHED", "PERMANENT", "RETRYABLE", "INVALID"}
NoStatus == [s \in Symbols |-> "PENDING"]

\* done_states, without --retry-invalid.
Done == {"CACHED", "NOT_PUBLISHED", "PERMANENT", "INVALID"}

CacheInit ==
  /\ archive \in [Symbols -> {"good", "missing", "refused", "bad"}]
  /\ page = [s \in Symbols |-> "none"]
  /\ known = NoStatus /\ stateFile = NoStatus /\ tornState = FALSE
  /\ todo = {} /\ inPool = {} /\ results = <<>>
  /\ workers = PoolSize /\ broken = FALSE /\ run = "off" /\ childKills = 0 /\ stumbled = {}

\* What the run believes after it has looked at the files: one that exists is
\* taken for cached.
Believed == [s \in Symbols |-> IF page[s] # "none" THEN "CACHED" ELSE stateFile[s]]

StartCache ==
  /\ run \notin {"on", "stopping"} /\ ~tornState
  /\ known' = Believed
  /\ todo' = {s \in Symbols : Believed[s] \notin Done}
  /\ run' = "on" /\ workers' = PoolSize /\ broken' = FALSE
  /\ inPool' = {} /\ results' = <<>>
  /\ UNCHANGED <<archive, stumbled, page, stateFile, tornState, childKills>>

\* Room for one more child, the memory permitting.  A low reading drops the
\* pool to one worker.
Submit(s) ==
  /\ run = "on" /\ s \in todo /\ Cardinality(inPool) < workers /\ ~broken
  /\ workers' \in {workers, 1}
  /\ todo' = IF workers' = 1 /\ inPool # {} THEN todo ELSE todo \ {s}
  /\ inPool' = IF workers' = 1 /\ inPool # {} THEN inPool ELSE inPool \cup {s}
  /\ UNCHANGED <<archive, stumbled, page, known, stateFile, tornState, results, broken, run, childKills>>

\* The pool is idle and the memory does not come back in MAX_WAIT_S.
MemoryStop ==
  /\ run = "on" /\ todo # {} /\ inPool = {} /\ todo' = {} /\ run' = "stopping"
  /\ UNCHANGED <<archive, stumbled, page, known, stateFile, tornState, inPool, results, workers, broken, childKills>>

\* work(): what a child makes of the archive's answer.  Any request may fail; where
\* there is something to download, what is not an httpx error reaches the parent.
Outcome(answer) ==
  {"RETRYABLE"} \cup
  CASE answer = "good" -> {"CACHED", "crashed"}
    [] answer = "missing" -> {"NOT_PUBLISHED"}
    [] answer = "refused" -> {"PERMANENT"}
    [] answer = "bad" -> {"INVALID", "crashed"}

Reading == inPool \ DOMAIN results
WithResult(s, r) == [x \in DOMAIN results \cup {s} |-> IF x = s THEN r ELSE results[x]]

ChildEnds(s) ==
  /\ s \in Reading /\ ~broken
  /\ \E r \in Outcome(archive[s]) :
       /\ results' = WithResult(s, r)
       /\ page' = IF r = "CACHED" THEN [page EXCEPT ![s] = "whole"] ELSE page
  /\ UNCHANGED <<archive, stumbled, known, stateFile, tornState, todo, inPool, workers, broken, run, childKills>>

\* A MemoryError or OSError after the download is taken for a broken document,
\* whatever was written of its pages; of one page only, it leaves that page empty.
ChildStumbles(s) ==
  /\ s \in Reading /\ ~broken /\ archive[s] = "good"
  /\ \E r \in {"INVALID", "CACHED"} :
       /\ results' = WithResult(s, r)
       /\ page' \in {[page EXCEPT ![s] = "torn"]} \cup IF r = "INVALID" THEN {page} ELSE {}
  /\ stumbled' = stumbled \cup {s}
  /\ UNCHANGED <<archive, known, stateFile, tornState, todo, inPool, workers, broken, run, childKills>>

\* What a child that is stopped at its work may leave.
Leftovers ==
  {f \in [Symbols -> {"none", "torn", "whole"}] :
     \A s \in Symbols : f[s] = page[s] \/ (s \in Reading /\ archive[s] = "good")}

\* A child is killed: the executor breaks and stops every other.
ChildKilled ==
  /\ Reading # {} /\ ~broken /\ childKills < MaxCacheKills /\ childKills' = childKills + 1
  /\ broken' = TRUE
  /\ results' = [x \in inPool |-> IF x \in DOMAIN results THEN results[x] ELSE "crashed"]
  /\ page' \in Leftovers
  /\ UNCHANGED <<archive, stumbled, known, stateFile, tornState, todo, inPool, workers, run>>

\* Mutant: a child that crashed is taken for one that found nothing to read.
StatusOfCrashGivenUp(r) == IF r = "crashed" THEN "INVALID" ELSE r

StatusOf(r) == IF r = "crashed" THEN "RETRYABLE" ELSE r

\* A result is taken, and the state written.
Collect(s) ==
  /\ s \in DOMAIN results /\ run \in {"on", "stopping"}
  /\ known' = [known EXCEPT ![s] = StatusOf(results[s])]
  /\ stateFile' = known'
  /\ inPool' = inPool \ {s}
  /\ results' = [x \in DOMAIN results \ {s} |-> results[x]]
  /\ UNCHANGED <<archive, stumbled, page, tornState, todo, workers, broken, run, childKills>>

\* The next submit to a broken executor raises, past the handler meant for a
\* crashed child; results not yet taken are lost.
SubmitRaises ==
  /\ run = "on" /\ broken /\ todo # {} /\ Cardinality(inPool) < workers
  /\ run' = "raised" /\ stateFile' = known /\ inPool' = {} /\ results' = <<>>
  /\ UNCHANGED <<archive, stumbled, page, known, tornState, todo, workers, broken, childKills>>

\* Mutant: the loop ends with the queue, not with the pool.
CacheEndsUndrained ==
  /\ run = "on" /\ todo = {} /\ run' = "finished" /\ stateFile' = known
  /\ UNCHANGED <<archive, stumbled, page, known, tornState, todo, inPool, results, workers, broken, childKills>>

CacheEnds ==
  /\ run \in {"on", "stopping"} /\ todo = {} /\ inPool = {}
  /\ run' = (IF run = "on" THEN "finished" ELSE "stopped") /\ stateFile' = known
  /\ UNCHANGED <<archive, stumbled, page, known, tornState, todo, inPool, results, workers, broken, childKills>>

\* The run and its children are killed, maybe while they write.
RunKilled ==
  /\ run \in {"on", "stopping"} /\ childKills < MaxCacheKills /\ childKills' = childKills + 1
  /\ run' = "killed" /\ tornState' \in BOOLEAN /\ page' \in Leftovers
  /\ inPool' = {} /\ results' = <<>>
  /\ UNCHANGED <<archive, stumbled, known, stateFile, todo, workers, broken>>

\* Someone deletes a state file no run can read.
RemoveState ==
  /\ tornState /\ tornState' = FALSE /\ stateFile' = NoStatus
  /\ UNCHANGED <<archive, stumbled, page, known, todo, inPool, results, workers, broken, run, childKills>>

CacheNext ==
  \/ StartCache \/ MemoryStop \/ ChildKilled \/ SubmitRaises \/ CacheEnds \/ RunKilled \/ RemoveState
  \/ \E s \in Symbols : Submit(s) \/ ChildEnds(s) \/ ChildStumbles(s) \/ Collect(s)

CacheSpec == CacheInit /\ [][CacheNext]_cacheVars

-----------------------------------------------------------------------------
\* A symbol is given up for what its archive is, not for what happened to the
\* child that read it; but for one that had the archive and was failed by its own
\* machine, which `except Exception` takes for a broken document (line 104).
GivenUpForCause ==
  \A s \in Symbols :
    /\ known[s] = "NOT_PUBLISHED" => archive[s] = "missing"
    /\ known[s] = "PERMANENT" => archive[s] = "refused"
    /\ known[s] = "INVALID" => archive[s] = "bad" \/ s \in stumbled

\* What counts as cached has its pages, all of them unless a process was killed or
\* failed at its work: "never touches cached files" holds for torn ones too.
CachedHasPages ==
  \A s \in Symbols :
    /\ known[s] = "CACHED" => page[s] # "none"
    /\ page[s] = "torn" => childKills > 0 \/ s \in stumbled

\* A run that says it is finished leaves no symbol without a status, and the
\* next one can read what it did.
FinishedIsComplete ==
  run = "finished" =>
    /\ \A s \in Symbols : known[s] # "PENDING"
    /\ inPool = {} /\ (tornState \/ stateFile = known)

\* No archive is downloaded whose pages are there or whose status is final.
NothingReadTwice ==
  \A s \in Reading : broken \/ (page[s] = "none" /\ stateFile[s] \notin Done)

PoolIsBounded == Cardinality(Reading) <= PoolSize

\* The cache is what the archives say.
CacheIsTrue ==
  GivenUpForCause /\ CachedHasPages /\ FinishedIsComplete /\ NothingReadTwice /\ PoolIsBounded
=============================================================================

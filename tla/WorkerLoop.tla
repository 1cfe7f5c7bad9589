----------------------------- MODULE WorkerLoop -----------------------------
(***************************************************************************)
(* worker.py: the refresh cycles, the e-mail and sheets polls between      *)
(* them, the shutdown flag, and the heartbeat row (services/heartbeat.py). *)
(* What a job does to the other tables is the other modules' business;     *)
(* here a job ends, or raises.                                             *)
(***************************************************************************)
EXTENDS Naturals

CONSTANTS
  Polls,       \* e-mail polls in an interval
  PerfEvery,   \* a performance pass every PerfEvery cycles (4 in the code)
  DailyEvery,  \* the daily jobs every DailyEvery cycles (96 in the code)
  MaxStops     \* bound: SIGTERMs received

ASSUME LoopAssumption ==
  /\ Polls \in Nat \ {0} /\ PerfEvery \in Nat \ {0} /\ MaxStops \in Nat
  /\ DailyEvery \in {n \in Nat \ {0} : n % PerfEvery = 0}

VARIABLES
  at,        \* where the process is
  cycle,     \* cycle, modulo DailyEvery
  elapsed,   \* polls since the cycle ended
  stop,      \* _Shutdown.requested
  stops,     \* signals received
  heart,     \* the heartbeat row: current_job, and whether last_error is set
  obscured,  \* history: since the last beat, one was lost with its session
  late       \* history: what began after the signal

loopVars == <<at, cycle, elapsed, stop, stops, heart, obscured, late>>

\* The jobs of run_once after the first, and all of them.
LaterJobs == {"performance", "outcomes", "history", "daily", "digest", "alerts"}
Refreshing == LaterJobs \cup {"refresh"}

LoopInit ==
  /\ at = "head" /\ cycle = 0 /\ elapsed = 0 /\ stop = FALSE /\ stops = 0
  /\ heart = [job |-> "idle", error |-> FALSE]
  /\ obscured = FALSE /\ late = {}

\* beat: success, the default, clears the error, at the start of a job too.
Beat(job) == heart' = [job |-> job, error |-> FALSE] /\ obscured' = FALSE

\* The process goes on to a job or a poll.
Begins(work) == at' = work /\ late' = IF stop THEN late \cup {work} ELSE late

StartCycle ==
  /\ at = "head" /\ ~stop
  /\ Begins("refresh") /\ Beat("refresh_all")
  /\ UNCHANGED <<cycle, elapsed, stop, stops>>

\* The jobs of run_once, in order, and the one that follows each.
After(job) ==
  CASE job = "refresh" -> IF cycle % PerfEvery = 0 THEN "performance" ELSE "alerts"
    [] job = "performance" -> "outcomes"
    [] job = "outcomes" -> IF cycle = 0 THEN "history" ELSE "alerts"
    [] job = "history" -> "daily"
    [] job = "daily" -> "digest"
    [] job = "digest" -> "alerts"

\* The beats between the jobs of a cycle.
BeatAfter(job) ==
  CASE job = "refresh" -> Beat("refresh_all")
    [] job = "outcomes" -> Beat("market_performance")
    [] OTHER -> UNCHANGED <<heart, obscured>>

\* A failure of the daily India pass is caught where it happens.  The flag is
\* not looked at: the cycle's other jobs begin after the signal too.
Job ==
  /\ at \in Refreshing \ {"alerts"}
  /\ Begins(After(at)) /\ BeatAfter(at)
  /\ UNCHANGED <<cycle, elapsed, stop, stops>>

NextCycle == cycle' = (cycle + 1) % DailyEvery /\ elapsed' = 0

\* Mutant: the cycle ends without a beat.
EndCycleSilently ==
  /\ at = "alerts"
  /\ at' = "sleep" /\ NextCycle
  /\ UNCHANGED <<stop, stops, heart, obscured, late>>

EndCycle ==
  /\ at = "alerts"
  /\ at' = "sleep" /\ Beat("idle") /\ NextCycle
  /\ UNCHANGED <<stop, stops, late>>

\* Mutant: the exception leaves the loop.
CycleFailsForGood ==
  /\ at \in Refreshing \ {"daily"}
  /\ at' = "exited"
  /\ UNCHANGED <<cycle, elapsed, stop, stops, heart, obscured, late>>

\* A job raises: the rest of the cycle is skipped.  The beat that tells is lost
\* if the exception left the session unusable.
CycleFails ==
  /\ at \in Refreshing \ {"daily"}
  /\ at' = "sleep" /\ NextCycle
  /\ \/ heart' = [job |-> "refresh_all", error |-> TRUE] /\ obscured' = FALSE
     \/ UNCHANGED heart /\ obscured' = TRUE
  /\ UNCHANGED <<stop, stops, late>>

\* Mutant: the sleep cannot be interrupted.
WakeRegardless ==
  /\ at = "sleep"
  /\ Begins("email")
  /\ UNCHANGED <<cycle, elapsed, stop, stops, heart, obscured>>

\* The sleep ends early, with the loop, when shutdown is asked for.
Wake ==
  /\ at = "sleep"
  /\ IF stop THEN at' = "head" /\ UNCHANGED late ELSE Begins("email")
  /\ UNCHANGED <<cycle, elapsed, stop, stops, heart, obscured>>

PollEmail ==
  /\ at = "email"
  /\ Begins("sheets")
  /\ Beat("idle") \/ UNCHANGED <<heart, obscured>>
  /\ UNCHANGED <<cycle, elapsed, stop, stops>>

PollSheets ==
  /\ at = "sheets"
  /\ at' = IF elapsed + 1 < Polls /\ ~stop THEN "sleep" ELSE "head"
  /\ elapsed' = elapsed + 1
  /\ UNCHANGED <<cycle, stop, stops, heart, obscured, late>>

\* Mutant: the loop runs for ever.
NeverExit == at = "head" /\ stop /\ UNCHANGED loopVars

Exit ==
  /\ at = "head" /\ stop
  /\ at' = "exited"
  /\ UNCHANGED <<cycle, elapsed, stop, stops, heart, obscured, late>>

Signal ==
  /\ at # "exited" /\ stops < MaxStops
  /\ stop' = TRUE /\ stops' = stops + 1
  \* a second signal exits wherever the worker is, and so does Docker's kill
  /\ at' = IF stop THEN "exited" ELSE at
  /\ UNCHANGED <<cycle, elapsed, heart, obscured, late>>

\* The container is started again: the cycles are counted anew.
Restart ==
  /\ at = "exited"
  /\ at' = "head" /\ cycle' = 0 /\ elapsed' = 0 /\ stop' = FALSE /\ late' = {}
  /\ UNCHANGED <<stops, heart, obscured>>

LoopStep ==
  StartCycle \/ Job \/ EndCycle \/ CycleFails \/ Wake \/ PollEmail \/ PollSheets \/ Exit

LoopNext == LoopStep \/ Signal \/ Restart

\* Jobs end, as their HTTP calls have timeouts; Docker restarts the container.
LoopFairness == WF_loopVars(LoopStep) /\ WF_loopVars(Restart)
LoopSpec == LoopInit /\ [][LoopNext]_loopVars /\ LoopFairness

-----------------------------------------------------------------------------
\* Every refresh cycle is followed by an e-mail poll, even if every cycle fails
\* and however often the worker is stopped (worker.py:89-101).
MailIsPolled == at = "refresh" ~> at = "email"

\* A worker told to stop begins no refresh cycle and no e-mail poll any more
\* ("lets the loop stop at its next checkpoint", worker.py:21): it finishes the
\* jobs of the cycle it is in, or begins the sheets poll of the round it is in.
\* The checkpoints are the loop's; run_once has none (worker.py:41-68, 88-96).
StopsAtCheckpoint == late \subseteq LaterJobs \/ late \subseteq {"sheets"}

\* A worker told to stop leaves the loop (worker.py:88-96).
StopEnds == stop ~> at = "exited"

\* A worker between cycles shows that it is idle or what failed, unless the
\* failure took the beat with it (heartbeat.py:2-4).
AsleepShowsWhy == at \in {"sleep", "email"} => heart.job = "idle" \/ heart.error \/ obscured

\* The loop keeps polling and keeps stopping.
LoopProgresses == MailIsPolled /\ StopEnds

\* A stopped worker takes up no new round, a sleeping one hides no failure, and the
\* loop goes on, whatever its jobs do.
LoopKeepsRunning == [](StopsAtCheckpoint /\ AsleepShowsWhy) /\ LoopProgresses

=============================================================================

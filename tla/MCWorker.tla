------------------------------ MODULE MCWorker ------------------------------
\* The worker's loop, three of the jobs it runs and the scheduled backfills,
\* each on an instance of its own, the one scope names.
EXTENDS SheetsOutbox, AlertQueueing, WeeklyDigest, WorkerLoop, BackfillPasses, TLC

CONSTANTS l1, l2, i1
VARIABLE scope

MCPassLimit == "by id" :> 1 @@ "latest first" :> 2

WorkerInit ==
  /\ scope \in {"outbox", "alerts", "digest", "loop", "passes"}
  /\ Init /\ AlertInit /\ DigestInit /\ LoopInit /\ PassesInit
  /\ scope = "passes" \/ (script = "by id" /\ nature = [r \in Ids |-> "useful"])

WorkerNext ==
  /\ UNCHANGED scope
  /\ \/ /\ UNCHANGED <<digestVars, loopVars, passesVars>>
        /\ \/ scope = "outbox" /\ Next /\ UNCHANGED alertVars
           \/ scope = "alerts" /\ AlertNext /\ UNCHANGED vars
     \/ /\ UNCHANGED <<vars, alertVars>>
        /\ \/ scope = "digest" /\ DigestNext /\ UNCHANGED <<loopVars, passesVars>>
           \/ scope = "loop" /\ LoopNext /\ UNCHANGED <<digestVars, passesVars>>
           \/ scope = "passes" /\ PassesNext /\ UNCHANGED <<digestVars, loopVars>>

\* The fairness each module states, of the instance that runs.
WorkerSpec ==
  /\ WorkerInit /\ [][WorkerNext]_<<scope, vars, alertVars, digestVars, loopVars, passesVars>>
  /\ WF_vars(scope = "outbox" /\ PassStep)
  /\ \A l \in Leads : WF_vars(scope = "outbox" /\ BackoffOver(l))
  /\ WF_alertVars(scope = "alerts" /\ AlertStep)
  /\ WF_loopVars(scope = "loop" /\ LoopStep)
  /\ WF_loopVars(scope = "loop" /\ Restart)
  /\ WF_passesVars(scope = "passes" /\ PassesStep)
=============================================================================

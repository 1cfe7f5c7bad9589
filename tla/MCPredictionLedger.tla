-------------------------- MODULE MCPredictionLedger --------------------------
\* Scope "pipeline": an Indian offering, one that is no IPO and an American one,
\* refreshed by the worker and by an admin; the sources announce MaxAnnounced of
\* them.  Scope "performance": the passes over the listed rows.  Scopes "folds" and
\* "gate": the evaluation of the model; "facts": the figures of a row.
EXTENDS PredictionLedger, PerformanceRefresh, ModelGate, Comparatives, TLC

CONSTANTS ipo, qip, us, worker, admin, row1, row2, row3
VARIABLE scope

rowVars == <<gateVars, factVars>>

PipelineInit ==
  /\ scope \in {"pipeline", "performance", "folds", "gate", "facts"}
  /\ LedgerInit /\ PerfInit /\ GateInit /\ FactsInit

PipelineNext ==
  /\ UNCHANGED scope
  /\ \/ scope = "pipeline" /\ LedgerNext /\ UNCHANGED <<perfVars, rowVars>>
     \/ scope = "performance" /\ PerfNext /\ UNCHANGED <<vars, rowVars>>
     \/ /\ UNCHANGED <<vars, perfVars>>
        /\ \/ scope = "folds" /\ AddListing /\ UNCHANGED factVars
           \/ scope = "gate" /\ Reevaluate /\ UNCHANGED factVars
           \/ scope = "facts" /\ FactsNext /\ UNCHANGED gateVars

\* The fairness each module states, of the instance that runs.
PipelineSpec ==
  /\ PipelineInit /\ [][PipelineNext]_<<scope, vars, perfVars, rowVars>>
  /\ WF_vars(scope = "pipeline" /\ (Begin(Worker) \/ CommitPass(Worker)) /\ UNCHANGED ledgerVars)
  /\ SF_vars(scope = "pipeline" /\ SyncOutcomes)
  /\ WF_vars(scope = "pipeline" /\ \E o \in Offerings : SessionCloses(o))
  /\ WF_vars(scope = "pipeline" /\ \E k \in Keys : RetryDue(k))
  /\ WF_perfVars(scope = "performance" /\ RefreshStep)
=============================================================================

------------------------------ MODULE MCSafety ------------------------------
\* Components that share no state with one another, each explored on an
\* instance of its own, the one scope names; their properties are all safety
\* properties.
EXTENDS SignUp, DeployRollback, Backups, PagesPublish, BackfillWalk,
        ListingRepair, RhpCache, EdgarFeed, ScoreHistory, PointInTime,
        SymbolResolution, SourceHealth, Bhavcopy, RateLimiter, TLC

CONSTANTS e1, e2, r1, r2, d1, d2, v1, v2, v3, w1, w2, o1, o2, f1, f2,
          t1, t2, c1, c2, y1, y2, u1, u2, u3, q1, q2, i1, i2
VARIABLE scope

MCFiledOn == f1 :> {1, 3} @@ f2 :> {2}
MCSourceOf == u1 :> "sec" @@ u2 :> "nse" @@ u3 :> "sebi"
MCListing == i1 :> 0 @@ i2 :> 2
MCMigrations == v1 :> 1 @@ v2 :> 2 @@ v3 :> 2

opsVars == <<deployVars, backupVars, pagesVars, rateVars>>
fillVars == <<walkVars, repairVars, cacheVars, edgarVars, bhavVars>>
scoreAndHealth == <<scoreVars, healthVars>>
rowVars == <<datasetVars, symbolVars>>

OpsScopes == {"deploy", "backup", "pages", "limiter"}
FillScopes == {"walk", "repair", "cache", "edgar", "bars"}
ScoreScopes == {"score", "health"}
RowScopes == {"dataset", "symbols"}

SafetyInit ==
  /\ scope \in {"sign-up"} \cup OpsScopes \cup FillScopes \cup ScoreScopes \cup RowScopes
  /\ Init /\ BackupInit /\ PagesInit /\ WalkInit /\ DatasetInit /\ HealthInit /\ BhavInit
  /\ RateInit
  /\ SymbolInit /\ (scope = "symbols" \/ sameName)
  /\ DeployInit /\ (scope = "deploy" \/ flock)
  /\ RepairInit
  /\ scope = "repair" \/ <<filing.kind, filing.verdict, filing.cut, price, flags>>
                            = <<"unknown", "unknown", FALSE, "none", {}>>
  /\ CacheInit /\ (scope = "cache" \/ \A s \in Symbols : archive[s] = "good")
  /\ EdgarInit /\ (scope = "edgar" \/ reporting)
  /\ ScoreInit /\ (scope = "score" \/ <<facts.filing, facts.missing>> = <<"none", 0>>)

\* One disjunct per scope, by the groups of variables they change.
OpsStep ==
  /\ scope \in OpsScopes /\ UNCHANGED <<vars, fillVars, scoreAndHealth, rowVars>>
  /\ \/ scope = "deploy" /\ DeployNext /\ UNCHANGED <<backupVars, pagesVars, rateVars>>
     \/ scope = "backup" /\ BackupNext /\ UNCHANGED <<deployVars, pagesVars, rateVars>>
     \/ scope = "pages" /\ PagesNext /\ UNCHANGED <<deployVars, backupVars, rateVars>>
     \/ scope = "limiter" /\ RateNext /\ UNCHANGED <<deployVars, backupVars, pagesVars>>

FillStep ==
  /\ scope \in FillScopes /\ UNCHANGED <<vars, opsVars, scoreAndHealth, rowVars>>
  /\ \/ scope = "walk" /\ WalkNext /\ UNCHANGED <<repairVars, cacheVars, edgarVars, bhavVars>>
     \/ scope = "repair" /\ RepairNext /\ UNCHANGED <<walkVars, cacheVars, edgarVars, bhavVars>>
     \/ scope = "cache" /\ CacheNext /\ UNCHANGED <<walkVars, repairVars, edgarVars, bhavVars>>
     \/ scope = "edgar" /\ EdgarNext /\ UNCHANGED <<walkVars, repairVars, cacheVars, bhavVars>>
     \/ scope = "bars" /\ BhavNext /\ UNCHANGED <<walkVars, repairVars, cacheVars, edgarVars>>

ScoreStep ==
  /\ scope \in ScoreScopes /\ UNCHANGED <<vars, opsVars, fillVars, rowVars>>
  /\ \/ scope = "score" /\ ScoreNext /\ UNCHANGED healthVars
     \/ scope = "health" /\ HealthNext /\ UNCHANGED scoreVars

RowStep ==
  /\ scope \in RowScopes /\ UNCHANGED <<vars, opsVars, fillVars, scoreAndHealth>>
  /\ \/ scope = "dataset" /\ DatasetNext /\ UNCHANGED symbolVars
     \/ scope = "symbols" /\ SymbolNext /\ UNCHANGED datasetVars

SafetyNext ==
  /\ UNCHANGED scope
  /\ \/ scope = "sign-up" /\ Next /\ UNCHANGED <<opsVars, fillVars, scoreAndHealth, rowVars>>
     \/ OpsStep \/ FillStep \/ ScoreStep \/ RowStep

SafetySpec ==
  SafetyInit /\ [][SafetyNext]_<<scope, vars, opsVars, fillVars, scoreAndHealth, rowVars>>
=============================================================================

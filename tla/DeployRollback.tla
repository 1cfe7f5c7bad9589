--------------------------- MODULE DeployRollback ---------------------------
(***************************************************************************)
(* scripts/deploy.sh and scripts/rollback.sh under the lock of             *)
(* scripts/_lock.sh, over one working tree, one database and one web       *)
(* service.  A revision is known by the migrations it carries.  `compose   *)
(* up` rebuilds what it names and what that depends on, runs the migrate   *)
(* service to its end and starts web only if that succeeded; alembic       *)
(* refuses a database that is at a revision its image does not have.       *)
(* Every script is one run; it may be killed between any two steps.        *)
(***************************************************************************)
EXTENDS Naturals, FiniteSets

CONSTANTS
  Scripts,      \* runs of the two scripts
  Revisions,
  Migrations,   \* the number of migrations each revision carries
  Broken,       \* revisions that never answer the health check
  First,        \* the revision that runs at first
  MaxKills,     \* bound: scripts killed
  MaxMishaps    \* bound: failures of git, docker, pg_dump or a migration

NoScript == "nobody"
NoRevision == "none"

ASSUME DeployAssumption ==
  /\ Migrations \in [Revisions -> Nat] /\ Broken \subseteq Revisions
  /\ First \in Revisions \ Broken /\ {NoScript, NoRevision} \cap (Scripts \cup Revisions) = {}

VARIABLES
  flock,      \* the host has flock(1)
  lock,       \* who holds the lock, or made the lock's directory
  aged,       \* the directory is older than DEPLOY_LOCK_STALE_SECONDS
  script,     \* the scripts' runs
  head,       \* the revision checked out
  image,      \* the revision of the images
  schema,     \* migrations the database has
  running,    \* the revision of the web service
  backups,    \* the schemas a pre-deploy backup was taken of
  reclaims, kills, mishaps

deployVars == <<flock, lock, aged, script, head, image, schema, running, backups,
                reclaims, kills, mishaps>>
stackVars == <<head, image, schema, running, backups>>
lockVars == <<flock, lock, aged, reclaims>>

NotStarted == [at |-> "new", kind |-> "deploy", target |-> First, previous |-> First]
Working == {"checkout", "build", "backup", "migrate", "up", "health", "back"}

DeployInit ==
  /\ flock \in BOOLEAN /\ lock = NoScript /\ aged = FALSE
  /\ script = [s \in Scripts |-> NotStarted]
  /\ head = First /\ image = First /\ running = First /\ schema = Migrations[First]
  /\ backups = {} /\ reclaims = 0 /\ kills = 0 /\ mishaps = 0

OnStep(s, at) == script[s].at = at
MoveTo(s, at) == script' = [script EXCEPT ![s].at = at]
Ends(s, outcome) == script' = [script EXCEPT ![s] = [NotStarted EXCEPT !.at = outcome]]
Mishap == mishaps < MaxMishaps /\ mishaps' = mishaps + 1
NoMishap == UNCHANGED mishaps

-----------------------------------------------------------------------------
(* acquire_deploy_lock.                                                     *)

\* ./scripts/deploy.sh r, ./scripts/rollback.sh r
Called(s, at) ==
  \E kind \in {"deploy", "rollback"}, r \in Revisions :
    script' = [script EXCEPT ![s] = [@ EXCEPT !.at = at, !.kind = kind, !.target = r]]

\* Mutant: the directory is made with mkdir -p.
TryLockAnyway(s) ==
  /\ OnStep(s, "new") /\ lock' = s /\ aged' = FALSE /\ Called(s, "checkout")
  /\ UNCHANGED <<flock, reclaims, stackVars, kills, mishaps>>

\* flock -n, or mkdir: only an aged directory is worth a second try.
TryLock(s) ==
  /\ OnStep(s, "new")
  /\ \/ lock = NoScript /\ lock' = s /\ aged' = FALSE /\ Called(s, "checkout")
     \/ lock # NoScript /\ ~flock /\ aged /\ Called(s, "reclaim") /\ UNCHANGED <<lock, aged>>
     \/ lock # NoScript /\ (flock \/ ~aged) /\ Ends(s, "refused") /\ UNCHANGED <<lock, aged>>
  /\ UNCHANGED <<flock, reclaims, stackVars, kills, mishaps>>

\* rm -rf of the directory found to be stale, whoever has it by now.
Reclaim(s) ==
  /\ OnStep(s, "reclaim")
  /\ lock' = NoScript /\ aged' = FALSE /\ reclaims' = reclaims + 1
  /\ MoveTo(s, "remake")
  /\ UNCHANGED <<flock, stackVars, kills, mishaps>>

Remake(s) ==
  /\ OnStep(s, "remake")
  /\ IF lock = NoScript THEN lock' = s /\ MoveTo(s, "checkout")
                        ELSE UNCHANGED lock /\ Ends(s, "refused")
  /\ UNCHANGED <<flock, aged, reclaims, stackVars, kills, mishaps>>

LockAges ==
  /\ ~flock /\ lock # NoScript /\ ~aged /\ aged' = TRUE
  /\ UNCHANGED <<flock, lock, reclaims, script, stackVars, kills, mishaps>>

\* The kernel drops a flock with its process; the EXIT trap removes the
\* directory, whoever made it.
Exit(s, outcome) ==
  /\ Ends(s, outcome)
  /\ lock' = IF flock /\ lock # s THEN lock ELSE NoScript
  /\ aged' = FALSE
  /\ UNCHANGED <<flock, reclaims, kills>>

Kill(s) ==
  /\ script[s].at \in Working /\ kills < MaxKills /\ kills' = kills + 1
  /\ Ends(s, "killed")
  /\ lock' = IF flock /\ lock = s THEN NoScript ELSE lock
  /\ UNCHANGED <<flock, aged, reclaims, stackVars, mishaps>>

-----------------------------------------------------------------------------
(* docker compose and alembic.                                              *)

\* `alembic upgrade head` of the image of revision r.
Migrates(r) == Migrations[r] >= schema

\* Mutant: web starts as soon as the database is healthy.
UpUnmigrated(r, start) ==
  /\ image' = r /\ UNCHANGED <<schema, backups>> /\ running' = r /\ start = "ok"

\* `up -d --build` with r checked out: web is recreated, and started unless
\* the migrate service failed; caddy then waits for web to be healthy.
Up(r, start) ==
  /\ image' = r /\ UNCHANGED backups
  /\ \/ Migrates(r) /\ schema' = Migrations[r] /\ running' = r
        /\ start = IF r \in Broken THEN "failed" ELSE "ok"
     \/ ~Migrates(r) /\ UNCHANGED schema /\ running' = NoRevision /\ start = "failed"

-----------------------------------------------------------------------------
(* The steps of both scripts.                                               *)

\* Mutant: without set -e the script goes on to ask for health.
FailsUnseen(s) == MoveTo(s, "health") /\ UNCHANGED <<lockVars, kills>>

\* A deploy that fails from the build to the restart takes the ERR trap; a
\* rollback, and any script before the trap is set, just ends.
Fails(s) ==
  IF script[s].kind = "deploy" /\ script[s].at \in {"build", "backup", "migrate", "up"}
    THEN MoveTo(s, "back") /\ UNCHANGED <<lockVars, kills>>
    ELSE Exit(s, "failed")

StepFails(s) ==
  /\ script[s].at \in {"checkout", "build", "backup", "migrate", "up"}
  /\ Mishap /\ Fails(s) /\ UNCHANGED stackVars

\* A clean tree, PREVIOUS_SHA and the checkout; the operator of a rollback may
\* decline to go back past migrations.
Checkout(s) ==
  /\ OnStep(s, "checkout")
  /\ script' = [script EXCEPT ![s] = [@ EXCEPT !.previous = head,
                  !.at = IF script[s].kind = "deploy" THEN "build" ELSE "up"]]
  /\ head' = script[s].target
  /\ UNCHANGED <<lockVars, image, schema, running, backups, kills>> /\ NoMishap

Decline(s) ==
  /\ OnStep(s, "checkout") /\ script[s].kind = "rollback"
  /\ Migrations[script[s].target] < Migrations[head]
  /\ Exit(s, "failed") /\ UNCHANGED stackVars /\ NoMishap

Build(s) ==
  /\ OnStep(s, "build") /\ image' = head /\ MoveTo(s, "backup")
  /\ UNCHANGED <<lockVars, head, schema, running, backups, kills>> /\ NoMishap

Backup(s) ==
  /\ OnStep(s, "backup") /\ backups' = backups \cup {schema} /\ MoveTo(s, "migrate")
  /\ UNCHANGED <<lockVars, head, image, schema, running, kills>> /\ NoMishap

\* Mutant: without a dump the deploy goes on to migrate.
BackupShrugged(s) ==
  /\ OnStep(s, "backup") /\ Mishap /\ MoveTo(s, "migrate") /\ UNCHANGED <<lockVars, stackVars, kills>>

\* pg_dump fails: die exits, and exit is no error to the ERR trap.
BackupRefused(s) ==
  /\ OnStep(s, "backup") /\ Mishap /\ Exit(s, "failed") /\ UNCHANGED stackVars

Migrate(s) ==
  /\ OnStep(s, "migrate")
  /\ IF Migrates(image) THEN schema' = Migrations[image] /\ MoveTo(s, "up") /\ UNCHANGED <<lockVars, kills>>
                        ELSE UNCHANGED schema /\ Fails(s)
  /\ UNCHANGED <<head, image, running, backups>> /\ NoMishap

Restart(s) ==
  /\ OnStep(s, "up")
  /\ \/ Up(head, "ok") /\ MoveTo(s, "health") /\ UNCHANGED <<lockVars, kills>>
     \/ Up(head, "failed") /\ Fails(s)
  /\ UNCHANGED head /\ NoMishap

\* Web answers one of thirty tries.
Healthy(s) ==
  /\ OnStep(s, "health") /\ running \in Revisions \ Broken
  /\ Exit(s, IF script[s].kind = "deploy" THEN "deployed" ELSE "rolled_back")
  /\ UNCHANGED stackVars /\ NoMishap

\* Web was healthy and no longer is: die, and a deploy leaves it there.
Unhealthy(s) ==
  /\ OnStep(s, "health") /\ (IF running \in Revisions \ Broken THEN Mishap ELSE NoMishap)
  /\ Exit(s, "failed") /\ UNCHANGED stackVars

\* rollback_on_failure: the outcome of both commands is ignored.
GoBack(s) ==
  /\ OnStep(s, "back") /\ head' = script[s].previous
  /\ \E start \in {"ok", "failed"} : Up(script[s].previous, start)
  /\ Exit(s, "failed") /\ NoMishap

Step(s) ==
  \/ TryLock(s) \/ Reclaim(s) \/ Remake(s) \/ Kill(s)
  \/ Checkout(s) \/ Decline(s) \/ StepFails(s)
  \/ Build(s) \/ Backup(s) \/ BackupRefused(s) \/ Migrate(s)
  \/ Restart(s) \/ Healthy(s) \/ Unhealthy(s) \/ GoBack(s)

DeployNext == LockAges \/ \E s \in Scripts : Step(s)

DeploySpec == DeployInit /\ [][DeployNext]_deployVars

-----------------------------------------------------------------------------
(* Properties.                                                              *)

\* _lock.sh:5: "the second must fail fast": no two scripts are at work on the
\* stack, however they end or are killed, while no directory is taken for
\* stale (a reclaimed lock has none of this).
OneAtATime ==
  flock \/ reclaims = 0 =>
    Cardinality({s \in Scripts : script[s].at \in Working}) <= 1

\* docker-compose.production.yml:29: web never "serves traffic against a
\* database that is behind the migration history", whatever failed before.
NeverBehind == running # NoRevision => schema >= Migrations[running]

\* DEPLOYMENT.md:240: "Every schema change is preceded by a backup" of just the
\* schema it changes, though not when rollback.sh goes forward, nor when a
\* failed deploy returns to a revision an earlier one left checked out.
BackedUpFirst ==
  [][flock \/ reclaims = 0 =>
       schema' = schema \/ schema \in backups
         \/ \E s \in Scripts :
              OnStep(s, "back") \/ (OnStep(s, "up") /\ script[s].kind = "rollback")]_deployVars

\* deploy.sh:88, rollback.sh:69: a script that reports its revision as running
\* and healthy is right: what answered is that revision, not what ran before.
ReportsAreTrue ==
  [][flock \/ reclaims = 0 => \A s \in Scripts :
       (script'[s].at \in {"deployed", "rolled_back"} /\ script'[s].at # script[s].at) =>
         running' = script[s].target]_deployVars

\* The two scripts, killed and rerun, leave the stack as each of their steps
\* vouches for.
DeploysAreSafe == [](OneAtATime /\ NeverBehind) /\ BackedUpFirst /\ ReportsAreTrue

\* rollback.sh:49-57 and DEPLOYMENT.md:234 call it safe to go back past an
\* additive migration: as long as no command fails and no script is killed, the
\* web service runs some revision.
RollbackIsSafe == mishaps = 0 /\ kills = 0 => running # NoRevision
=============================================================================

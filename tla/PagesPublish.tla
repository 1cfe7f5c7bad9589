---------------------------- MODULE PagesPublish ----------------------------
(***************************************************************************)
(* The job of .github/workflows/pages.yml: restore the dataset from the    *)
(* data-state branch, refresh it, build the site from it, persist it, and  *)
(* deploy.  A dataset is the set of offerings it holds; the sources list   *)
(* an offering only while it is current, so a later run cannot fetch it    *)
(* again.  A new trigger waits for the run under way; of those that wait,  *)
(* GitHub keeps the newest.                                                *)
(***************************************************************************)
EXTENDS Naturals, FiniteSets

CONSTANTS
  Offerings,
  MaxRuns,           \* bound
  MaxFetchFailures   \* bound: fetches of data-state that fail though it exists

VARIABLES
  current,    \* offerings the sources list now
  past,       \* those they no longer list
  branch,     \* the data-state branch, NoBranch before the first run
  site,       \* what is deployed
  job,        \* steps of the runs: run |-> step
  data,       \* data/ipo.db of each run
  fetchFailures

pagesVars == <<current, past, branch, site, job, data, fetchFailures>>

NoBranch == [exists |-> FALSE, rows |-> {}]
Runs == 1..MaxRuns
Steps == {"restored", "refreshed", "built", "persisted"}

PagesInit ==
  /\ current = {} /\ past = {} /\ branch = NoBranch /\ site = {}
  /\ job = [r \in Runs |-> "new"] /\ data = [r \in Runs |-> {}] /\ fetchFailures = 0

List ==
  /\ \E o \in Offerings \ (current \cup past) : current' = current \cup {o}
  /\ UNCHANGED <<past, branch, site, job, data, fetchFailures>>

Unlist ==
  /\ \E o \in current : current' = current \ {o} /\ past' = past \cup {o}
  /\ UNCHANGED <<branch, site, job, data, fetchFailures>>

\* Mutant: no concurrency group.
NoGroup == TRUE

\* concurrency: group pages, cancel-in-progress false
Slot == \A r \in Runs : job[r] \notin Steps

\* The step of run r from one state to the next, with its dataset.
Moves(r, from, to, rows) ==
  /\ job[r] = from /\ job' = [job EXCEPT ![r] = to] /\ data' = [data EXCEPT ![r] = rows]
  /\ UNCHANGED <<current, past>>

\* "No data-state branch yet", which is also what a fetch that fails means.
Restore(r) ==
  /\ Slot
  /\ \/ /\ Moves(r, "new", "restored", branch.rows) /\ UNCHANGED fetchFailures
     \/ /\ branch.exists /\ fetchFailures < MaxFetchFailures
        /\ Moves(r, "new", "restored", {}) /\ fetchFailures' = fetchFailures + 1
  /\ UNCHANGED <<branch, site>>

\* Mutant: a refresh keeps only what it fetched.
RefreshAfresh(r) ==
  /\ \E fetched \in SUBSET current : Moves(r, "restored", "refreshed", fetched)
  /\ UNCHANGED <<branch, site, fetchFailures>>

\* refresh_data.py, under continue-on-error: what it fetched before it failed
\* stays.
Refresh(r) ==
  /\ \E fetched \in SUBSET current : Moves(r, "restored", "refreshed", data[r] \cup fetched)
  /\ UNCHANGED <<branch, site, fetchFailures>>

\* Mutant: an empty dataset is built as well.
BuildAnything(r) ==
  /\ Moves(r, "refreshed", "built", data[r]) /\ UNCHANGED <<branch, site, fetchFailures>>

\* build_pages.py and its assertions; a dataset without publishable rows is
\* refused.
BuildSite(r) ==
  /\ data[r] # {} /\ Moves(r, "refreshed", "built", data[r])
  /\ UNCHANGED <<branch, site, fetchFailures>>

\* Mutant: the site is deployed even if the dataset could not be persisted.
PersistMaybe(r) ==
  /\ Moves(r, "built", "persisted", data[r])
  /\ UNCHANGED <<branch, site, fetchFailures>>

\* git push --force of a branch of one commit.
Persist(r) ==
  /\ Moves(r, "built", "persisted", data[r])
  /\ branch' = [exists |-> TRUE, rows |-> data[r]]
  /\ UNCHANGED <<site, fetchFailures>>

Deploy(r) ==
  /\ Moves(r, "persisted", "done", data[r]) /\ site' = data[r]
  /\ UNCHANGED <<branch, fetchFailures>>

\* Any step but the refresh ends the job when it fails; so does a dataset that
\* is refused.
Fail(r) ==
  /\ job[r] \in Steps /\ Moves(r, job[r], "failed", {})
  /\ UNCHANGED <<branch, site, fetchFailures>>

\* A run that waits is dropped for a newer one.
Superseded(r) ==
  /\ ~Slot /\ Moves(r, "new", "superseded", {})
  /\ UNCHANGED <<branch, site, fetchFailures>>

PagesNext ==
  \/ List \/ Unlist
  \/ \E r \in Runs : \/ Restore(r) \/ Refresh(r) \/ BuildSite(r) \/ Persist(r) \/ Deploy(r)
                     \/ Fail(r) \/ Superseded(r)

PagesSpec == PagesInit /\ [][PagesNext]_pagesVars

-----------------------------------------------------------------------------
\* pages.yml:4-13: "A failed refresh does not wipe the site": while the branch
\* can be fetched, no run takes an offering away from the dataset or the site,
\* whatever fails and in whatever order.
NothingIsForgotten ==
  [][fetchFailures = 0 => branch.rows \subseteq branch'.rows /\ site \subseteq site']_pagesVars

\* pages.yml:149-166: what the site shows is in the dataset the next run
\* starts from: it is persisted before it is deployed, and no other run's
\* push comes between.
SiteIsPersisted == fetchFailures = 0 => site \subseteq branch.rows

\* pages.yml:12-13: "not a silent empty deploy": a published site is never
\* replaced by an empty one, not even after a dataset could not be restored.
NeverEmptied == [][site # {} => site' # {}]_pagesVars

\* The published site and its dataset survive failed, dropped and late runs.
SiteSurvives == NothingIsForgotten /\ []SiteIsPersisted /\ NeverEmptied
=============================================================================
